----------------------------- MODULE PacketLink -----------------------------
(***************************************************************************)
(* The listener of the server and the connecters of its clients: sockets   *)
(* and their ids, shakehand and ping, the clock of the server as a client  *)
(* reckons it, and the packets that both ends send through a connection    *)
(* that the server may close and the network may break.                    *)
(***************************************************************************)
EXTENDS PacketCodec, Sequences, SequencesExt, FiniteSets

CONSTANTS
    Clients,
    Ahead,       \* Ahead[c]: how far the clock of c is ahead of the server's tick
    PingTm,      \* natrium_client._ping_tm
    TickLimit,   \* 2^32 in the code: ticks are written in four bytes
    Packets,     \* <<protocol, body>> of the packets that the program sends
    Prompt,      \* a ping is answered before the next one is sent
    MaxTime, MaxSays, MaxEnds

Shakehand(t) == [cmd |-> "shakehand", time |-> t]
Pingpong(t) == [cmd |-> "pingpong", time |-> t]
SysBodies == [cmd : {"shakehand", "pingpong"}, time : 0..(TickLimit - 1)]

ASSUME LinkAssumption ==
    /\ IsFiniteSet(Clients) /\ Ahead \in [Clients -> Nat]
    /\ PingTm \in Nat \ {0} /\ TickLimit \in Nat \ {0}
    /\ MaxTime \in Nat /\ MaxSays \in Nat /\ MaxEnds \in Nat /\ Prompt \in BOOLEAN
    /\ SysBodies \subseteq Bodies /\ NoBody \notin Bodies
    /\ \A b \in SysBodies : Size[b] < Byte /\ Size[b] <= ZipAbove
    /\ Packets \subseteq (Protos \ {Xml}) \X (Bodies \ SysBodies)
    \* what four bytes cannot say is too long when it is deflated, too
    /\ \A p \in Packets : Size[p[2]] < Limit(2) \/ Length(p[2]) >= Limit(2)

VARIABLES
    now,      \* getTickFromAppStart of the server
    seed,     \* _cid_seed
    table,    \* _cid_to_sock
    cid,      \* the id of a client's connection, 0 before it has one
    srv,      \* the server's end of the socket
    cli,      \* the client's end
    broken,   \* connections that carry nothing any more
    up,       \* frames on their way to the server, in order
    down,     \* and to the client
    clock,    \* what a connecter knows of the server's tick
    shaken,   \* on_shakehand has run
    due,      \* when the interval of on_shakehand fires next
    said, heard

vars == <<now, seed, table, cid, srv, cli, broken, up, down, clock, shaken, due, said, heard>>

Dirs == {"up", "down"}
Nobody == [c \in {} |-> 0]

Init ==
    /\ now = 0
    /\ seed = 1
    /\ table = Nobody
    /\ cid = [c \in Clients |-> 0]
    /\ srv = [c \in Clients |-> "none"]
    /\ cli = [c \in Clients |-> "new"]
    /\ broken = {}
    /\ up = [c \in Clients |-> <<>>]
    /\ down = [c \in Clients |-> <<>>]
    /\ clock = [c \in Clients |-> [ping |-> 0, pong |-> 0, latency |-> 0, tick |-> 0]]
    /\ shaken = [c \in Clients |-> FALSE]
    /\ due = [c \in Clients |-> 0]
    /\ said = [c \in Clients |-> [d \in Dirs |-> <<>>]]
    /\ heard = [c \in Clients |-> [d \in Dirs |-> <<>>]]

DateNow(c) == now + Ahead[c]

\* wsconnecter.server_tick
ServerTick(c) == clock[c].tick + (DateNow(c) - clock[c].pong)

\* create_shakehandpkt and create_pingpongpkt throw at a tick of five bytes.
Writable(t) == t < TickLimit
SysFrame(b) == Encode(NewPacket(Sys, Binary, b))

-----------------------------------------------------------------------------
(***************************************************************************)
(* Sockets.                                                                *)
(***************************************************************************)

\* The server has the client's request to connect.
Accept(c) ==
    /\ srv[c] = "none"
    /\ srv' = [srv EXCEPT ![c] = "open"]
    /\ cid' = [cid EXCEPT ![c] = seed]
    /\ seed' = seed + 1
    /\ table' = [i \in DOMAIN table \cup {seed} |-> IF i = seed THEN c ELSE table[i]]
    /\ UNCHANGED <<now, cli, broken, up, down, clock, shaken, due, said, heard>>

\* Mutant of Shakes: the connecter waits for the server to begin.
Shakes_Waits(c) == up

\* What a client sends through a connection that is broken is lost.
Sent(c, f) == IF c \in broken THEN up[c] ELSE Append(up[c], f)

\* shakehand: the client knows no tick of the server yet
Shakes(c) == [up EXCEPT ![c] = Sent(c, SysFrame(Shakehand(0)))]

\* The answer of the server reaches the client.
Opened(c) ==
    /\ cli[c] = "new"
    /\ srv[c] \in {"open", "closing"}
    /\ c \notin broken
    /\ cli' = [cli EXCEPT ![c] = "open"]
    /\ clock' = [clock EXCEPT ![c].ping = DateNow(c)]
    /\ up' = Shakes(c)
    /\ UNCHANGED <<now, seed, table, cid, srv, broken, down, shaken, due, said, heard>>

\* At most MaxEnds connections end by a disconnect or a break.
MayEnd(c) ==
    Cardinality({c} \cup broken \cup {x \in Clients : srv[x] \in {"closing", "closed"}}) <= MaxEnds

\* disconnect, for a session that cannot be bound or has to go: a socket that
\* closes still reads, but what is sent through it is dropped.
Kick(c) ==
    /\ cid[c] \in DOMAIN table
    /\ MayEnd(c)
    /\ srv' = [srv EXCEPT ![table[cid[c]]] = "closing"]
    /\ UNCHANGED <<now, seed, table, cid, cli, broken, up, down, clock, shaken, due, said, heard>>

\* The client's end closes when it has read all that came before.
ClientEnds(c) ==
    /\ srv[c] = "closing"
    /\ cli[c] = "open"
    /\ c \notin broken
    /\ down[c] = <<>>
    /\ cli' = [cli EXCEPT ![c] = "ended"]
    /\ UNCHANGED <<now, seed, table, cid, srv, broken, up, down, clock, shaken, due, said, heard>>

Break(c) ==
    /\ srv[c] # "none"
    /\ c \notin broken
    /\ MayEnd(c)
    /\ broken' = broken \cup {c}
    /\ up' = [up EXCEPT ![c] = <<>>]
    /\ down' = [down EXCEPT ![c] = <<>>]
    /\ UNCHANGED <<now, seed, table, cid, srv, cli, clock, shaken, due, said, heard>>

\* Mutant of Closed: the socket stays in the table.
Closed_Kept(c) ==
    /\ srv[c] \in {"open", "closing"}
    /\ c \in broken \/ (cli[c] = "ended" /\ up[c] = <<>>)
    /\ srv' = [srv EXCEPT ![c] = "closed"]
    /\ UNCHANGED <<now, seed, table, cid, cli, broken, up, down, clock, shaken, due, said, heard>>

\* The server notices the end, once it has read what came before.
Closed(c) ==
    /\ srv[c] \in {"open", "closing"}
    /\ c \in broken \/ (cli[c] = "ended" /\ up[c] = <<>>)
    /\ srv' = [srv EXCEPT ![c] = "closed"]
    /\ table' = [i \in DOMAIN table \ {cid[c]} |-> table[i]]
    /\ UNCHANGED <<now, seed, cid, cli, broken, up, down, clock, shaken, due, said, heard>>

-----------------------------------------------------------------------------
(***************************************************************************)
(* The server's packets.                                                   *)
(***************************************************************************)

\* One frame for all that have a socket by the id they had: the ids come from
\* services in other threads, so a socket may be gone or closing.
Delivered(S, f) ==
    LET to == {d \in {table[cid[c]] : c \in {x \in S : cid[x] \in DOMAIN table}} :
                   srv[d] = "open" /\ d \notin broken}
    IN  [d \in Clients |-> IF d \in to THEN Append(down[d], f) ELSE down[d]]

\* What the program is promised is said to those whose socket is open.
Says(S, p) ==
    [c \in Clients |->
        IF c \in S /\ srv[c] = "open" /\ Sendable(p[1], p[2])
        THEN [said[c] EXCEPT !["down"] = Append(@, <<Msg, p[1], p[2]>>)]
        ELSE said[c]]

Total == Cardinality({x \in Clients \X Dirs \X (1..(MaxSays + Cardinality(Clients))) :
                         x[3] <= Len(said[x[1]][x[2]])})

\* encode_packet throws if it cannot: the caller catches, and nothing is sent.
Send(S, p) ==
    /\ Total < MaxSays
    /\ \A c \in S : cid[c] > 0
    /\ LET pkt == NewPacket(Msg, p[1], p[2])
       IN  down' = IF Encodes(pkt) THEN Delivered(S, Encode(pkt)) ELSE down
    /\ said' = Says(S, p)
    /\ UNCHANGED <<now, seed, table, cid, srv, cli, broken, up, clock, shaken, due, heard>>

SendPacket(c, p) == Send({c}, p)

\* but for exceptcid; broadcast_packet takes the whole table, nobody excepted
BroadcastPacketWith(S, except, p) == Send(S \ {except}, p)

\* shakehand and ping are answered with the tick, the rest is the handler's
Answer(c, cmd) ==
    IF Writable(now)
    THEN Delivered({c}, SysFrame([cmd |-> cmd, time |-> now]))
    ELSE down

\* on_packet of the handler; a frame that cannot be decoded is dropped
Handled(c, dir, f) ==
    IF Decodes(f) THEN [heard EXCEPT ![c][dir] = Append(@, Content(Decode(f)))] ELSE heard

ServerReceive(c) ==
    /\ up[c] # <<>>
    /\ srv[c] \in {"open", "closing"}
    /\ LET f == Head(up[c])
           p == Decode(f)
       IN  /\ up' = [up EXCEPT ![c] = Tail(@)]
           /\ IF Decodes(f) /\ TypeOf(p.header) = Sys
              THEN down' = Answer(c, p.body.cmd) /\ UNCHANGED heard
              ELSE heard' = Handled(c, "up", f) /\ UNCHANGED down
    /\ UNCHANGED <<now, seed, table, cid, srv, cli, broken, clock, shaken, due, said>>

-----------------------------------------------------------------------------
(***************************************************************************)
(* The client's packets.                                                   *)
(***************************************************************************)

\* Mutant of Synced: the tick of the first answer is kept.
Synced_Once(c, t) ==
    [clock[c] EXCEPT !.pong = DateNow(c),
                     !.latency = DateNow(c) - clock[c].ping,
                     !.tick = IF shaken[c] THEN @ ELSE t]

\* _lastpongtm, _latency and _servertickfromstart
Synced(c, t) ==
    [clock[c] EXCEPT !.pong = DateNow(c), !.latency = DateNow(c) - clock[c].ping, !.tick = t]

\* on_shakehand starts the interval of the pings.
ClientReceive(c) ==
    /\ cli[c] = "open"
    /\ down[c] # <<>>
    /\ LET f == Head(down[c])
           p == Decode(f)
       IN  /\ down' = [down EXCEPT ![c] = Tail(@)]
           /\ IF Decodes(f) /\ TypeOf(p.header) = Sys
              THEN /\ clock' = [clock EXCEPT ![c] = Synced(c, p.body.time)]
                   /\ IF p.body.cmd = "shakehand"
                      THEN /\ shaken' = [shaken EXCEPT ![c] = TRUE]
                           /\ due' = [due EXCEPT ![c] = now + PingTm]
                      ELSE UNCHANGED <<shaken, due>>
                   /\ UNCHANGED heard
              ELSE /\ heard' = Handled(c, "down", f)
                   /\ UNCHANGED <<clock, shaken, due>>
    /\ UNCHANGED <<now, seed, table, cid, srv, cli, broken, up, said>>

ClientSend(c, p) ==
    /\ Total < MaxSays
    /\ cli[c] = "open"
    /\ LET pkt == NewPacket(Msg, p[1], p[2])
       IN  up' = IF Encodes(pkt) THEN [up EXCEPT ![c] = Sent(c, Encode(pkt))] ELSE up
    /\ said' = IF Sendable(p[1], p[2]) /\ c \notin broken
               THEN [said EXCEPT ![c]["up"] = Append(@, <<Msg, p[1], p[2]>>)]
               ELSE said
    /\ UNCHANGED <<now, seed, table, cid, srv, cli, broken, down, clock, shaken, due, heard>>

Unanswered(c) == \E f \in ToSet(up[c]) \cup ToSet(down[c]) : TypeOf(f.header) = Sys

\* Nobody stops the interval when the socket is closed: its pings are lost then.
Ping(c) ==
    /\ shaken[c]
    /\ cli[c] = "open"
    /\ now >= due[c]
    /\ Writable(ServerTick(c))
    /\ Prompt => ~Unanswered(c)
    /\ clock' = [clock EXCEPT ![c].ping = DateNow(c)]
    /\ due' = [due EXCEPT ![c] = now + PingTm]
    /\ up' = [up EXCEPT ![c] = Sent(c, SysFrame(Pingpong(ServerTick(c))))]
    /\ UNCHANGED <<now, seed, table, cid, srv, cli, broken, down, shaken, said, heard>>

\* A tick that cannot be written is an exception nobody catches: the client
\* ends, and its connection with it.
PingThrows(c) ==
    /\ shaken[c]
    /\ now >= due[c]
    /\ cli[c] = "open"
    /\ ~Writable(ServerTick(c))
    /\ cli' = [cli EXCEPT ![c] = "ended"]
    /\ broken' = broken \cup {c}
    /\ up' = [up EXCEPT ![c] = <<>>]
    /\ down' = [down EXCEPT ![c] = <<>>]
    /\ UNCHANGED <<now, seed, table, cid, srv, clock, shaken, due, said, heard>>

Tick ==
    /\ now < MaxTime
    /\ now' = now + 1
    /\ UNCHANGED <<seed, table, cid, srv, cli, broken, up, down, clock, shaken, due, said, heard>>

-----------------------------------------------------------------------------
Next ==
    \/ Tick
    \/ \E c \in Clients :
          \/ Accept(c) \/ Opened(c) \/ Kick(c) \/ ClientEnds(c) \/ Break(c) \/ Closed(c)
          \/ ServerReceive(c) \/ ClientReceive(c) \/ Ping(c) \/ PingThrows(c)
          \/ \E p \in Packets : SendPacket(c, p) \/ ClientSend(c, p)
    \/ \E S \in SUBSET Clients, except \in Clients, p \in Packets :
          BroadcastPacketWith(S, except, p)

\* What was sent through a connection that is open arrives, and is handled.
Fairness ==
    \A c \in Clients :
        /\ WF_vars(Opened(c)) /\ WF_vars(ClientEnds(c))
        /\ WF_vars(ServerReceive(c)) /\ WF_vars(ClientReceive(c))

Spec == Init /\ [][Next]_vars /\ Fairness

-----------------------------------------------------------------------------
(***************************************************************************)
(* The variables have their types; _cid_to_sock has an entry for each      *)
(* socket whose end the server has not seen, and no other.                 *)
(***************************************************************************)
TypeOK ==
    /\ now \in 0..MaxTime
    /\ seed \in 1..(Cardinality(Clients) + 1)
    /\ srv \in [Clients -> {"none", "open", "closing", "closed"}]
    /\ cli \in [Clients -> {"new", "open", "ended"}]
    /\ broken \subseteq Clients
    /\ cid \in [Clients -> 0..Cardinality(Clients)]
    /\ table \in [{cid[c] : c \in {x \in Clients : srv[x] \in {"open", "closing"}}} -> Clients]
    /\ \A c \in Clients : \A f \in ToSet(up[c]) \cup ToSet(down[c]) :
          f.header \in 0..255 /\ f.body \in Bodies
    /\ shaken \in [Clients -> BOOLEAN]

Way(c, d) == IF d = "up" THEN up[c] ELSE down[c]
OnTheWay(w) == {i \in DOMAIN w : TypeOf(w[i].header) = Msg}

(***************************************************************************)
(* What the program sends through a connection that is open - of any size, *)
(* deflated or not, alone or to many - the other end hears as it was, once *)
(* and in order, and nothing else, from nobody else: whatever is not heard *)
(* yet is on its way, until the connection breaks or the end has closed.   *)
(***************************************************************************)
ArrivesWhole ==
    \A c \in Clients, d \in Dirs :
        /\ IsPrefix(heard[c][d], said[c][d])
        /\ c \notin broken =>
              Len(said[c][d]) - Len(heard[c][d]) = Cardinality(OnTheWay(Way(c, d)))

(***************************************************************************)
(* The tick that a client reckons for the server is never ahead of it, and *)
(* behind by no more than the latency that the client has measured,        *)
(* whatever its own clock says and however long the answer was on its way. *)
(***************************************************************************)
ClockIsBehind ==
    \A c \in Clients :
        shaken[c] => /\ ServerTick(c) <= now
                     /\ now <= ServerTick(c) + clock[c].latency

(***************************************************************************)
(* natrium_client.connect: a client whose socket is open gets its          *)
(* shakehand, if the connection lasts - as long as the server's tick fits  *)
(* four bytes.                                                             *)
(***************************************************************************)
Answered ==
    \A c \in Clients :
        cli[c] = "open" ~> \/ shaken[c] \/ cli[c] = "ended" \/ c \in broken
                           \/ ~Writable(now)
=============================================================================
