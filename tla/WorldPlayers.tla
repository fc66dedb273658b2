---------------------------- MODULE WorldPlayers ----------------------------
(***************************************************************************)
(* The players of the world workers: a session logs in, enters the game,   *)
(* walks from map to map, on one worker or to another, and closes; what    *)
(* its player changes is in the worker's memory, is read from Redis when   *)
(* the player is created and flushed from time to time and at the end.     *)
(*                                                                         *)
(* Every worker has a Redis connection of its own, on which its commands   *)
(* stay in order; the commands of two workers reach Redis in any order.    *)
(* A map numbers the players that are on it and tells each of them who     *)
(* else is there.                                                          *)
(*                                                                         *)
(* Messages between the threads are in SessionRouting; here a step of the  *)
(* main thread and what the worker does on its message are one.  Login and *)
(* the tables it checks are in UserLogin; here a user that is bound cannot *)
(* log in.                                                                 *)
(***************************************************************************)
EXTENDS Naturals, Sequences, FiniteSets, SequencesExt

CONSTANTS
    Users, Sids, NoSid,
    UserOf,      \* UserOf[s]: who logs in with session s
    Maps, NoMap,
    Workers,     \* world workers
    Out,         \* the outgame worker
    WorkerOf,    \* WorkerOf[m]: map id % service_count
    FirstMap,    \* FirstMap[u]: where u was last
    Overtaken,   \* a connection may close while its player is created
    MaxVer,      \* bound: MaxVer[u] changes of u's player
    MaxExits     \* bound: ends of the process

ASSUME WorldAssumption ==
    /\ NoSid \notin Sids /\ NoMap \notin Maps /\ Out \notin Workers
    /\ UserOf \in [Sids -> Users]
    /\ WorkerOf \in [Maps -> Workers]
    /\ FirstMap \in [Users -> Maps]
    /\ Overtaken \in BOOLEAN
    /\ MaxVer \in [Users -> Nat] /\ MaxExits \in Nat

VARIABLES
    at,       \* where a session is on its way
    worker,   \* the worker that has it
    gone,     \* its connection is closed
    asked,    \* _changingservice_sids: where it asked to go
    mem,      \* the player's documents in the worker's memory
    zone,     \* the maps, who is on them, and what the clients have been told
    wire,     \* commands of a worker that have not reached Redis
    db,       \* the documents in Redis
    bound,    \* Redis session db: __bindsid_<uid>
    latest,   \* history: how often a user's player was changed
    exits

vars == <<at, worker, gone, asked, mem, zone, wire, db, bound, latest, exits>>

Services == Workers \cup {Out}
NoWorker == Out    \* nobody asks to go back to the outgame worker

\* "out", "firstin", "in" and "lost" have a player object in memory; "leaving"
\* and "closing" have it no more than in the flush they await
Places == {"new", "out", "leaving", "entering", "reading", "firstin", "in",
           "lost", "closing", "clearing", "closed"}
Doc == [map : Maps, ver : Nat]
NoDoc == [map |-> NoMap, ver |-> 0]
Cmd(kind, s, doc) == [kind |-> kind, sid |-> s, doc |-> doc]
Send(w, cmd) == wire' = [wire EXCEPT ![w] = Append(@, cmd)]

-----------------------------------------------------------------------------
(***************************************************************************)
(* A zone: of each map who is on it by player id, whose sessions are told, *)
(* the instance ids to be used again and the next new one; of each session *)
(* its map, its instance id, the version of its looks, and whom its client *)
(* has been told of, in which version, once all that was sent has arrived. *)
(***************************************************************************)
NewMap == [players |-> [u \in Users |-> NoSid], sids |-> {}, free |-> <<>>, seed |-> 1]
NewZone == [maps |-> [m \in Maps |-> NewMap],
            on |-> [s \in Sids |-> NoMap],
            inst |-> [s \in Sids |-> 0],
            ver |-> [s \in Sids |-> 0],
            view |-> [s \in Sids |-> {}]]

See(i, u, n) == [inst |-> i, user |-> u, ver |-> n]
Forget(view, i) == {e \in view : e.inst # i}

\* Mutant of Instid: the next one is the number of players.
Instid_Count(map) == Cardinality(map.sids) + 1

Instid(map) == IF map.free # <<>> THEN Last(map.free) ELSE map.seed

\* game_map.add_player
Added(z, s, m) ==
    LET map == z.maps[m]
        u == UserOf[s]
        i == Instid(map)
        others == {map.players[v] : v \in Users} \ {NoSid}
        infos == {See(z.inst[t], UserOf[t], z.ver[t]) : t \in others}
    IN  [maps |-> [z.maps EXCEPT ![m] =
            [players |-> [map.players EXCEPT ![u] = s],
             sids |-> map.sids \cup {s},
             free |-> IF map.free # <<>> THEN Front(map.free) ELSE <<>>,
             seed |-> IF map.free # <<>> THEN map.seed ELSE map.seed + 1]],
         on |-> [z.on EXCEPT ![s] = m],
         inst |-> [z.inst EXCEPT ![s] = i],
         ver |-> z.ver,
         view |-> [t \in Sids |->
            IF t = s THEN Forget(infos, i)
            ELSE IF t \in map.sids THEN Forget(z.view[t], i) \cup {See(i, u, z.ver[s])}
            ELSE z.view[t]]]

\* Mutant of Removed: the others are not told.
Removed_Silent(z, s) ==
    IF z.on[s] = NoMap THEN z ELSE
    LET m == z.on[s]
        map == z.maps[m]
    IN  [z EXCEPT !.maps[m] =
            [players |-> [map.players EXCEPT ![UserOf[s]] = NoSid],
             sids |-> map.sids \ {s},
             free |-> Append(map.free, z.inst[s]),
             seed |-> map.seed],
         !.on[s] = NoMap, !.inst[s] = 0, !.view[s] = {}]

\* game_map.rmv_player, of a player that is on a map
Removed(z, s) ==
    IF z.on[s] = NoMap THEN z ELSE
    LET m == z.on[s]
        map == z.maps[m]
        i == z.inst[s]
    IN  [z EXCEPT !.maps[m] =
            [players |-> [map.players EXCEPT ![UserOf[s]] = NoSid],
             sids |-> map.sids \ {s},
             free |-> Append(map.free, i),
             seed |-> map.seed],
         !.on[s] = NoMap, !.inst[s] = 0,
         !.view = [t \in Sids |->
            IF t = s THEN {} ELSE IF t \in map.sids THEN Forget(@[t], i) ELSE @[t]]]

\* ... whose player object goes
Gone(z, s) == [Removed(z, s) EXCEPT !.ver[s] = 0]

\* A player looks different: all on its map are told.
Changed(z, s) ==
    LET n == z.ver[s] + 1
    IN  [z EXCEPT !.ver[s] = n,
         !.view = [t \in Sids |->
            IF t \in z.maps[z.on[s]].sids
            THEN {IF e.user = UserOf[s] THEN [e EXCEPT !.ver = n] ELSE e : e \in @[t]}
            ELSE @[t]]]

-----------------------------------------------------------------------------
Init ==
    /\ at = [s \in Sids |-> "new"]
    /\ worker = [s \in Sids |-> Out]
    /\ gone = [s \in Sids |-> FALSE]
    /\ asked = [s \in Sids |-> NoWorker]
    /\ db = [u \in Users |-> [map |-> FirstMap[u], ver |-> 0]]
    /\ mem = [s \in Sids |-> NoDoc]
    /\ zone = NewZone
    /\ wire = [w \in Services |-> <<>>]
    /\ bound = [u \in Users |-> FALSE]
    /\ latest = [u \in Users |-> 0]
    /\ exits = 0

\* user_login: the outgame worker's player has the documents as they were then
LogIn(s) ==
    /\ at[s] = "new"
    /\ ~bound[UserOf[s]]
    /\ bound' = [bound EXCEPT ![UserOf[s]] = TRUE]
    /\ at' = [at EXCEPT ![s] = "out"]
    /\ mem' = [mem EXCEPT ![s] = db[UserOf[s]]]
    /\ UNCHANGED <<worker, gone, asked, zone, wire, db, latest, exits>>

\* user_entergame: to the worker of the map the player was on last
EnterGame(s) ==
    /\ at[s] = "out"
    /\ asked[s] = NoWorker
    /\ asked' = [asked EXCEPT ![s] = WorkerOf[mem[s].map]]
    /\ UNCHANGED <<at, worker, gone, mem, zone, wire, db, bound, latest, exits>>

\* Mutant of Leave: the flush is not awaited, and the other worker begins.
Leave_Unawaited(s) ==
    /\ at[s] \in {"out", "in"}
    /\ ~gone[s]
    /\ asked[s] # NoWorker
    /\ at' = [at EXCEPT ![s] = IF at[s] = "out" THEN "entering" ELSE "reading"]
    /\ zone' = Gone(zone, s)
    /\ worker' = [worker EXCEPT ![s] = asked[s]]
    /\ asked' = [asked EXCEPT ![s] = NoWorker]
    /\ wire' = [wire EXCEPT ![worker[s]] = Append(@, Cmd("flush", s, mem[s])),
                            ![asked[s]] = Append(@, Cmd("read", s, mem[s]))]
    /\ mem' = [mem EXCEPT ![s] = NoDoc]
    /\ UNCHANGED <<gone, db, bound, latest, exits>>

\* on_remove_session, once the main thread has heard of the change
Leave(s) ==
    /\ at[s] \in {"out", "in"}
    /\ ~gone[s]
    /\ asked[s] # NoWorker
    /\ at' = [at EXCEPT ![s] = "leaving"]
    /\ zone' = Gone(zone, s)
    /\ Send(worker[s], Cmd("leave", s, mem[s]))
    /\ mem' = [mem EXCEPT ![s] = NoDoc]
    /\ UNCHANGED <<worker, gone, asked, db, bound, latest, exits>>

-----------------------------------------------------------------------------
Head1(w, kind) == wire[w] # <<>> /\ Head(wire[w]).kind = kind
Write(c) == db' = [db EXCEPT ![UserOf[c.sid]] = c.doc]

\* A periodic flush reaches Redis; nobody awaits it.
LandFlush(w) ==
    /\ Head1(w, "flush")
    /\ Write(Head(wire[w]))
    /\ wire' = [wire EXCEPT ![w] = Tail(@)]
    /\ UNCHANGED <<at, worker, gone, asked, mem, zone, bound, latest, exits>>

\* The player is flushed: the session goes to the other worker, which begins to
\* read the documents (on_add_session, create_player).
LandLeave(w) ==
    /\ Head1(w, "leave")
    /\ LET c == Head(wire[w])
           s == c.sid
       IN  /\ Write(c)
           /\ at' = [at EXCEPT ![s] = IF w = Out THEN "entering" ELSE "reading"]
           /\ worker' = [worker EXCEPT ![s] = asked[s]]
           /\ asked' = [asked EXCEPT ![s] = NoWorker]
           /\ wire' = [[wire EXCEPT ![w] = Tail(@)]
                             EXCEPT ![asked[s]] = Append(@, Cmd("read", s, c.doc))]
    /\ UNCHANGED <<gone, mem, zone, bound, latest, exits>>

\* The documents are there: the player is put on its map, after firstin is
\* written back if it comes from the outgame worker.  Its map may be another
\* worker's; then it is kicked.
LandRead(w) ==
    /\ Head1(w, "read")
    /\ LET s == Head(wire[w]).sid
           doc == db[UserOf[s]]
       IN  /\ mem' = [mem EXCEPT ![s] = doc]
           /\ \/ /\ WorkerOf[doc.map] # w
                 /\ at' = [at EXCEPT ![s] = "lost"]
                 /\ UNCHANGED zone
              \/ /\ WorkerOf[doc.map] = w
                 /\ at[s] = "entering"
                 /\ at' = [at EXCEPT ![s] = "firstin"]
                 /\ UNCHANGED zone
              \/ /\ WorkerOf[doc.map] = w
                 /\ at[s] = "reading"
                 /\ at' = [at EXCEPT ![s] = "in"]
                 /\ zone' = Added(zone, s, doc.map)
    /\ wire' = [wire EXCEPT ![w] = Tail(@)]
    /\ UNCHANGED <<worker, gone, asked, db, bound, latest, exits>>

FirstIn(s) ==
    /\ at[s] = "firstin"
    /\ at' = [at EXCEPT ![s] = "in"]
    /\ zone' = Added(zone, s, mem[s].map)
    /\ UNCHANGED <<worker, gone, asked, mem, wire, db, bound, latest, exits>>

-----------------------------------------------------------------------------
Plays(s) == at[s] = "in" /\ ~gone[s]

Changes(s, doc) ==
    /\ latest[UserOf[s]] < MaxVer[UserOf[s]]
    /\ latest' = [latest EXCEPT ![UserOf[s]] = @ + 1]
    /\ mem' = [mem EXCEPT ![s] = [doc EXCEPT !.ver = @ + 1]]

\* player_goto, player_stop and the walk: the position in memory
Walk(s) ==
    /\ Plays(s)
    /\ Changes(s, mem[s])
    /\ UNCHANGED <<at, worker, gone, asked, zone, wire, db, bound, exits>>

\* player_change_avatar, player_change_pet: the looks in memory
ChangeLooks(s) ==
    /\ Plays(s)
    /\ Changes(s, mem[s])
    /\ zone' = Changed(zone, s)
    /\ UNCHANGED <<at, worker, gone, asked, wire, db, bound, exits>>

\* player_changemapend, again perhaps before the main thread has heard of it
ChangeMap(s, m) ==
    /\ Plays(s)
    /\ m # zone.on[s]
    /\ Changes(s, [mem[s] EXCEPT !.map = m])
    /\ IF WorkerOf[m] = worker[s]
       THEN /\ zone' = Added(Removed(zone, s), s, m)
            /\ UNCHANGED asked
       ELSE /\ asked' = [asked EXCEPT ![s] = WorkerOf[m]]
            /\ UNCHANGED zone
    /\ UNCHANGED <<at, worker, gone, wire, db, bound, exits>>

\* game_map.on_update reaches the players of its index; a flush is over long
\* before the next one.
Flush(s) ==
    /\ zone.on[s] # NoMap
    /\ zone.maps[zone.on[s]].players[UserOf[s]] = s
    /\ \A w \in Services : \A i \in DOMAIN wire[w] :
          wire[w][i].kind = "flush" => wire[w][i].sid # s
    /\ Send(worker[s], Cmd("flush", s, mem[s]))
    /\ UNCHANGED <<at, worker, gone, asked, mem, zone, db, bound, latest, exits>>

-----------------------------------------------------------------------------
\* Mutant of Close: the flush is not awaited.
Close_Unawaited(s) ==
    /\ at[s] \in {"out", "in", "lost"}
    /\ ~gone[s]
    /\ gone' = [gone EXCEPT ![s] = TRUE]
    /\ at' = [at EXCEPT ![s] = "clearing"]
    /\ zone' = Gone(zone, s)
    /\ Send(worker[s], Cmd("flush", s, mem[s]))
    /\ mem' = [mem EXCEPT ![s] = NoDoc]
    /\ UNCHANGED <<worker, asked, db, bound, latest, exits>>

\* on_session_close: the player is taken off its map and flushed.  While it is
\* being created there is none, or one as it was read and on no map: the session
\* is cleared, and the creation goes on.
Close(s) ==
    /\ \/ at[s] \in {"out", "in", "lost"}
       \/ Overtaken /\ at[s] \in {"entering", "reading", "firstin"}
    /\ ~gone[s]
    /\ gone' = [gone EXCEPT ![s] = TRUE]
    /\ IF at[s] \in {"entering", "reading", "firstin"}
       THEN /\ bound' = [bound EXCEPT ![UserOf[s]] = FALSE]
            /\ UNCHANGED <<at, mem, zone, wire>>
       ELSE /\ at' = [at EXCEPT ![s] = "closing"]
            /\ zone' = Gone(zone, s)
            /\ Send(worker[s], Cmd("close", s, mem[s]))
            /\ mem' = [mem EXCEPT ![s] = NoDoc]
            /\ UNCHANGED bound
    /\ UNCHANGED <<worker, asked, db, latest, exits>>

LandClose(w) ==
    /\ Head1(w, "close")
    /\ Write(Head(wire[w]))
    /\ at' = [at EXCEPT ![Head(wire[w]).sid] = "clearing"]
    /\ wire' = [wire EXCEPT ![w] = Tail(@)]
    /\ UNCHANGED <<worker, gone, asked, mem, zone, bound, latest, exits>>

\* _do_clear_session; what is left of the session in the worker is its mark in
\* _changingservice_sids, which nobody reads again
Clear(s) ==
    /\ at[s] = "clearing"
    /\ at' = [at EXCEPT ![s] = "closed"]
    /\ bound' = [bound EXCEPT ![UserOf[s]] = FALSE]
    /\ worker' = [worker EXCEPT ![s] = Out]
    /\ asked' = [asked EXCEPT ![s] = NoWorker]
    /\ UNCHANGED <<gone, mem, zone, wire, db, latest, exits>>

\* on_disconnected of a session between two services closes nothing.
Disconnect(s) ==
    /\ at[s] = "leaving"
    /\ ~gone[s]
    /\ gone' = [gone EXCEPT ![s] = TRUE]
    /\ UNCHANGED <<at, worker, asked, mem, zone, wire, db, bound, latest, exits>>

-----------------------------------------------------------------------------
Holds(s) == at[s] \in {"out", "firstin", "in", "lost"}
Pending(u) == {c \in UNION {Range(wire[w]) : w \in Services} :
                  c.kind # "read" /\ UserOf[c.sid] = u}
Survives(u) == {db[u]} \cup {c.doc : c \in Pending(u)}
                  \cup {mem[s] : s \in {s \in Sids : UserOf[s] = u /\ Holds(s)}}

\* The process ends, by a signal or a failure.  Commands on their way and the
\* closing of the sessions the workers have begun may still reach Redis, or
\* not: the main thread does not wait.  The next start clears the session db.
Exit ==
    /\ exits < MaxExits
    /\ exits' = exits + 1
    /\ db' \in [Users -> UNION {Survives(u) : u \in Users}]
    /\ \A u \in Users : db'[u] \in Survives(u)
    /\ latest' = [u \in Users |-> db'[u].ver]
    /\ at' = [s \in Sids |-> IF at[s] = "new" THEN "new" ELSE "closed"]
    /\ gone' = [s \in Sids |-> at[s] # "new"]
    /\ asked' = [s \in Sids |-> NoWorker]
    /\ zone' = NewZone
    /\ wire' = [w \in Services |-> <<>>]
    /\ bound' = [u \in Users |-> FALSE]
    /\ worker' = [s \in Sids |-> Out]
    /\ mem' = [s \in Sids |-> NoDoc]

Next ==
    \/ \E s \in Sids :
          \/ LogIn(s) \/ EnterGame(s) \/ Leave(s) \/ FirstIn(s)
          \/ Walk(s) \/ ChangeLooks(s) \/ Flush(s)
          \/ Close(s) \/ Clear(s) \/ Disconnect(s)
          \/ \E m \in Maps : ChangeMap(s, m)
    \/ \E w \in Services : LandFlush(w) \/ LandLeave(w) \/ LandRead(w) \/ LandClose(w)
    \/ Exit

Spec == Init /\ [][Next]_vars

-----------------------------------------------------------------------------
TypeOK ==
    /\ at \in [Sids -> Places]
    /\ worker \in [Sids -> Services]
    /\ gone \in [Sids -> BOOLEAN]
    /\ asked \in [Sids -> Services]
    /\ mem \in [Sids -> Doc \cup {NoDoc}]
    /\ \A s \in Sids : Holds(s) <=> mem[s] # NoDoc
    /\ db \in [Users -> Doc]
    /\ bound \in [Users -> BOOLEAN]
    /\ latest \in [Users -> Nat]
    /\ exits \in Nat
    /\ zone.on \in [Sids -> Maps \cup {NoMap}]
    /\ zone.inst \in [Sids -> Nat]
    /\ \A w \in Services : wire[w] \in
          Seq([kind : {"flush", "leave", "read", "close"}, sid : Sids, doc : Doc])

\* A player is in one place, and there with every change that was ever made to
\* it: no worker begins with documents another one has yet to write
\* (servicebase.ts:128, the flush that on_remove_session awaits).
NothingLost ==
    \A s \in Sids : Holds(s) => mem[s].ver = latest[UserOf[s]]

\* Nor does a late flush put an older document in the place of a newer one
\* (player.ts:211, "TO DO : await?").
NeverOlder == [][\A u \in Users : db'[u].ver >= db[u].ver]_db

OnMap(m) == {s \in Sids : zone.on[s] = m}

\* A map's index names its players, each of whom plays on that map's worker and has
\* an instance id of its own, which is not waiting to be given away again
\* (game_map.ts:71).
OnTheirMap ==
    \A m \in Maps :
        LET map == zone.maps[m] IN
        /\ map.sids = OnMap(m)
        /\ \A u \in Users :
              LET s == map.players[u]
              IN  s # NoSid => zone.on[s] = m /\ UserOf[s] = u
        /\ \A s \in OnMap(m) :
              /\ map.players[UserOf[s]] = s
              /\ at[s] = "in" /\ worker[s] = WorkerOf[m]
              /\ zone.inst[s] < map.seed /\ zone.inst[s] \notin Range(map.free)
              /\ \A t \in OnMap(m) : s # t => zone.inst[s] # zone.inst[t]
        /\ \A i, j \in DOMAIN map.free : i # j => map.free[i] # map.free[j]

\* Who is on a map has been told of everybody else on it, as they look now, and
\* of nobody who is not, whatever the order they came and went in and whichever
\* instance ids they were given (game_map.ts:104-128, 147).
ZoneIsSeen ==
    \A m \in Maps : \A s \in OnMap(m) :
        zone.view[s] = {See(zone.inst[t], UserOf[t], zone.ver[t]) : t \in OnMap(m) \ {s}}
=============================================================================
