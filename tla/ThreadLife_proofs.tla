-------------------------- MODULE ThreadLife_proofs --------------------------
(***************************************************************************)
(* ThreadLife, for any workers, users and connections, any number of       *)
(* failing threads and of ends of the process: the types, that nobody is   *)
(* bound to a session that is not there, and that a worker which says that *)
(* it is done has closed its sessions.                                     *)
(***************************************************************************)
EXTENDS ThreadLife, FiniteSetTheorems, TLAPS

MainAt == {"down", "starting", "open", "stuck", "ending"}
ThreadAt == {"none", "loading", "ready", "ending", "ended", "dead"}
Msg == [kind : {"add", "close", "exit"}, sid : 0..MaxSid]
Out == {"started", "exit", "died"}
Ses == [at : {"none", "sent", "in", "gone", "lost"}, user : Users \cup {NoUser}]
Call == [sid : Sids, by : {"message", "end"}]

\* A worker is told of its own sessions.
Addressed(w) == \A k \in DOMAIN inbox[w] :
    inbox[w][k].kind \in {"add", "close"} => inbox[w][k].sid \in Of(w)

\* The types in parts, by who changes them.
MainOK ==
    /\ main \in MainAt /\ begun \subseteq Workers /\ online \subseteq Sids
    /\ deaths \in 0..MaxDeaths /\ ends \in 0..MaxEnds
PortsOK ==
    /\ thread \in [Workers -> ThreadAt]
    /\ inbox \in [Workers -> Seq(Msg)] /\ \A w \in Workers : Addressed(w)
    /\ outbox \in [Workers -> Seq(Out)]
SesOK ==
    /\ ses \in [Sids -> Ses] /\ closing \subseteq Call /\ wiping \subseteq Sids
EndOK ==
    /\ left \in [Workers -> Seq(Sids)] /\ had \in [Workers -> SUBSET Sids]
RedisOK ==
    /\ clearing \in BOOLEAN /\ bound \in [Users -> 0..MaxSid]
    /\ base \in [Sids -> Users \cup {NoUser}]

TInv == MainOK /\ PortsOK /\ SesOK /\ EndOK /\ RedisOK

LEMMA TypesOf == TInv => TypeOK
BY DEF TInv, MainOK, PortsOK, SesOK, EndOK, RedisOK, TypeOK, MainAt, ThreadAt, Msg, Out, Ses, Call

LEMMA Facts ==
    /\ MaxSid \in Nat /\ MaxEnds \in Nat /\ MaxDeaths \in Nat
    /\ Sids = 1..MaxSid /\ Sids \subseteq 0..MaxSid /\ 0 \notin Sids /\ 0 \in 0..MaxSid
    /\ Entry \in [Sids -> Workers] /\ NoUser \notin Users
    /\ NoSes \in Ses /\ NoSes.at = "none" /\ NoSes.user = NoUser
    /\ \A w \in Workers : Of(w) \subseteq Sids /\ \A s \in Sids : s \in Of(w) <=> Entry[s] = w
BY LifeAssumption DEF Sids, NoSes, Ses, Of

LEMMA Empty ==
    /\ Nothing \in [Workers -> Seq(Msg)] /\ Nothing \in [Workers -> Seq(Out)]
    /\ Nothing \in [Workers -> Seq(Sids)]
    /\ \A w \in Workers : Nothing[w] = <<>>
BY DEF Nothing

LEMMA InitTypes == Init => TInv
<1> SUFFICES ASSUME Init PROVE TInv
    OBVIOUS
<1>1. MainOK
    BY Facts DEF Init, MainOK, MainAt
<1>2. PortsOK
    BY Empty DEF Init, PortsOK, ThreadAt, Addressed
<1>3. SesOK /\ EndOK
    BY Facts, Empty DEF Init, SesOK, EndOK
<1>4. RedisOK
    BY Facts DEF Init, RedisOK
<1> QED BY <1>1, <1>2, <1>3, <1>4 DEF TInv

-----------------------------------------------------------------------------
\* What happens to the ports: something is said, heard, told or taken.
LEMMA SaysType ==
    ASSUME TInv, NEW w \in Workers, NEW kind \in Out, Says(w, kind)
    PROVE  outbox' \in [Workers -> Seq(Out)]
BY DEF Says, TInv, PortsOK

LEMMA HeardType ==
    ASSUME TInv, NEW w \in Workers, NEW kind, Hears(w, kind), Heard(w)
    PROVE  outbox' \in [Workers -> Seq(Out)]
<1>1. outbox[w] \in Seq(Out) /\ outbox[w] # <<>>
    BY DEF Hears, TInv, PortsOK
<1>2. Tail(outbox[w]) \in Seq(Out)
    BY <1>1
<1> QED BY <1>2 DEF Heard, TInv, PortsOK

LEMMA TellsType ==
    ASSUME TInv, NEW s \in Sids, NEW kind \in {"add", "close"}, Tells(Entry[s], kind, s)
    PROVE  /\ inbox' \in [Workers -> Seq(Msg)] /\ \A w \in Workers : Addressed(w)'
           /\ inbox'[Entry[s]] = Append(inbox[Entry[s]], [kind |-> kind, sid |-> s])
           /\ \A w \in Workers \ {Entry[s]} : inbox'[w] = inbox[w]
<1> DEFINE m == [kind |-> kind, sid |-> s]
           e == Entry[s]
<1>1. m \in Msg /\ m.kind = kind /\ m.sid = s /\ e \in Workers /\ s \in Of(e)
    BY Facts DEF Msg
<1>2. inbox' = [inbox EXCEPT ![e] = Append(inbox[e], m)]
    BY DEF Tells
<1>3. inbox \in [Workers -> Seq(Msg)] /\ \A w \in Workers : Addressed(w)
    BY DEF TInv, PortsOK
<1> HIDE DEF m, e
<1>4. inbox' \in [Workers -> Seq(Msg)] /\ inbox'[e] = Append(inbox[e], m)
      /\ \A w \in Workers \ {e} : inbox'[w] = inbox[w]
    BY <1>1, <1>2, <1>3
<1>5. \A w \in Workers \ {e} : Addressed(w)'
    BY <1>3, <1>4 DEF Addressed
<1>6. Addressed(e)'
    <2>1. \A k \in DOMAIN inbox'[e] :
              (k \in DOMAIN inbox[e] /\ inbox'[e][k] = inbox[e][k]) \/ inbox'[e][k] = m
        BY <1>1, <1>3, <1>4
    <2> QED BY <1>1, <1>3, <2>1 DEF Addressed
<1> QED BY <1>4, <1>5, <1>6 DEF m, e

LEMMA RestType ==
    ASSUME TInv, NEW w \in Workers, NEW kind, Took(w, kind), Rest(w)
    PROVE  /\ inbox' \in [Workers -> Seq(Msg)] /\ \A v \in Workers : Addressed(v)'
           /\ inbox'[w] = Tail(inbox[w]) /\ \A v \in Workers \ {w} : inbox'[v] = inbox[v]
           /\ inbox[w] # <<>> /\ inbox[w] \in Seq(Msg) /\ Head(inbox[w]).kind = kind
           /\ kind \in {"add", "close"} => Head(inbox[w]).sid \in Of(w)
           /\ \A k \in DOMAIN inbox'[w] : k + 1 \in DOMAIN inbox[w] /\ inbox'[w][k] = inbox[w][k + 1]
<1>1. inbox[w] # <<>> /\ inbox[w] \in Seq(Msg) /\ Head(inbox[w]).kind = kind
    BY DEF Took, TInv, PortsOK
<1>2. inbox \in [Workers -> Seq(Msg)] /\ \A v \in Workers : Addressed(v)
    BY DEF TInv, PortsOK
<1>3. inbox' = [inbox EXCEPT ![w] = Tail(inbox[w])]
    BY DEF Rest
<1>4. Tail(inbox[w]) \in Seq(Msg)
      /\ \A k \in DOMAIN Tail(inbox[w]) : k + 1 \in DOMAIN inbox[w] /\ Tail(inbox[w])[k] = inbox[w][k + 1]
    BY <1>1
<1>5. inbox' \in [Workers -> Seq(Msg)] /\ inbox'[w] = Tail(inbox[w])
      /\ \A v \in Workers \ {w} : inbox'[v] = inbox[v]
    BY <1>2, <1>3, <1>4
<1>6. \A v \in Workers : Addressed(v)'
    <2>1. \A v \in Workers \ {w} : Addressed(v)'
        BY <1>2, <1>5 DEF Addressed
    <2>2. Addressed(w)'
        BY <1>2, <1>4, <1>5 DEF Addressed
    <2> QED BY <2>1, <2>2
<1>7. kind \in {"add", "close"} => Head(inbox[w]).sid \in Of(w)
    <2>1. 1 \in DOMAIN inbox[w] /\ Head(inbox[w]) = inbox[w][1]
        BY <1>1
    <2> QED BY <1>1, <1>2, <2>1 DEF Addressed
<1> QED BY <1>1, <1>4, <1>5, <1>6, <1>7

\* A session is set to another stage.
LEMMA OneSes ==
    ASSUME TInv, NEW s \in Sids, NEW at \in {"none", "sent", "in", "gone", "lost"},
           ses' = [ses EXCEPT ![s].at = at]
    PROVE  /\ ses' \in [Sids -> Ses] /\ ses'[s].at = at /\ ses'[s].user = ses[s].user
           /\ \A r \in Sids \ {s} : ses'[r] = ses[r]
<1>1. ses[s] \in Ses /\ ses' = [ses EXCEPT ![s] = [ses[s] EXCEPT !.at = at]]
    BY DEF TInv, SesOK
<1> DEFINE r == [ses[s] EXCEPT !.at = at]
<1>2. r \in Ses /\ r.at = at /\ r.user = ses[s].user
    BY <1>1 DEF Ses
<1> HIDE DEF r
<1> QED BY <1>1, <1>2 DEF r, TInv, SesOK

\* A close is at its flush, or has deleted the session and goes on to its data.
LEMMA ClosesType ==
    ASSUME TInv, NEW s \in Sids, NEW by \in {"message", "end"}, Closes(s, by)
    PROVE  /\ SesOK'
           /\ \/ /\ ses[s].at = "in" /\ UNCHANGED <<ses, wiping>>
                 /\ closing' = closing \cup {[sid |-> s, by |-> by]}
              \/ /\ ses'[s].at = "gone" /\ ses'[s].user = ses[s].user
                 /\ \A r \in Sids \ {s} : ses'[r] = ses[r]
                 /\ wiping' = wiping \cup {s} /\ closing' = closing
BY OneSes DEF Closes, TInv, SesOK, Call

LEMMA GoneType ==
    ASSUME TInv, NEW w \in Workers, Gone(w)
    PROVE  /\ SesOK' /\ EndOK' /\ thread' \in [Workers -> ThreadAt]
           /\ thread' = [thread EXCEPT ![w] = "dead"]
           /\ left' = [left EXCEPT ![w] = <<>>] /\ UNCHANGED <<online, had>>
           /\ \A s \in Sids : ses'[s].user = ses[s].user
           /\ \A s \in Met(w) : ses'[s].at = "lost"
           /\ \A s \in Sids \ Met(w) : ses'[s] = ses[s]
           /\ closing' = {c \in closing : c.sid \notin Of(w)} /\ wiping' = wiping \ Of(w)
<1>1. \A s \in Sids : ses[s] \in Ses
    BY DEF TInv, SesOK
<1>2. \A s \in Sids : /\ [ses[s] EXCEPT !.at = "lost"] \in Ses
                      /\ [ses[s] EXCEPT !.at = "lost"].at = "lost"
                      /\ [ses[s] EXCEPT !.at = "lost"].user = ses[s].user
    BY <1>1 DEF Ses
<1>3. /\ ses' = [s \in Sids |-> IF s \in Met(w) THEN [ses[s] EXCEPT !.at = "lost"] ELSE ses[s]]
      /\ thread' = [thread EXCEPT ![w] = "dead"]
      /\ closing' = {c \in closing : c.sid \notin Of(w)} /\ wiping' = wiping \ Of(w)
      /\ left' = [left EXCEPT ![w] = <<>>] /\ UNCHANGED <<online, had>>
    BY DEF Gone
<1>4. SesOK'
    BY <1>1, <1>2, <1>3 DEF TInv, SesOK
<1>5. EndOK' /\ thread' \in [Workers -> ThreadAt]
    BY <1>3 DEF TInv, EndOK, PortsOK, ThreadAt
<1> QED BY <1>2, <1>3, <1>4, <1>5 DEF Met, Of

\* The end of the process: everything in memory is as at the start.
LEMMA EndsType ==
    ASSUME TInv, Ends, deaths' = deaths, ends' \in 0..MaxEnds
    PROVE  TInv' /\ main' = "down"
<1>1. MainOK'
    BY DEF Ends, TInv, MainOK, MainAt
<1>2. PortsOK'
    BY Empty DEF Ends, PortsOK, ThreadAt, Addressed
<1>3. SesOK' /\ EndOK'
    BY Facts, Empty DEF Ends, SesOK, EndOK
<1>4. RedisOK'
    <2>1. CASE Cleared /\ clearing' = FALSE
        BY <2>1, Facts DEF Cleared, RedisOK
    <2>2. CASE bound' = bound /\ base' = base /\ clearing' = FALSE
        BY <2>2 DEF TInv, RedisOK
    <2> QED BY <2>1, <2>2 DEF Ends
<1> QED BY <1>1, <1>2, <1>3, <1>4 DEF TInv, Ends

-----------------------------------------------------------------------------
\* What main does alone.
LEMMA MainTypes ==
    ASSUME TInv, Boot \/ Clear \/ Open \/ Interrupt \/ ProcessEnds
    PROVE  TInv'
<1> USE DEF TInv
<1>1. CASE Boot
    BY <1>1 DEF Boot, MainOK, MainAt, PortsOK, ports, ThreadAt, Addressed, SesOK, EndOK, inside, RedisOK
<1>2. CASE Clear
    <2>1. RedisOK'
        BY <1>2, Facts DEF Clear, Cleared, RedisOK
    <2> QED BY <1>2, <2>1 DEF Clear, MainOK, PortsOK, ports, Addressed, SesOK, EndOK, inside
<1>3. CASE Open
    BY <1>3 DEF Open, MainOK, MainAt, PortsOK, ports, Addressed, SesOK, EndOK, inside, RedisOK, redis
<1>4. CASE Interrupt
    <2> DEFINE m == [kind |-> "exit", sid |-> 0]
    <2>1. m \in Msg /\ m.kind = "exit"
        BY Facts DEF Msg
    <2>2. inbox' = [w \in Workers |-> Append(inbox[w], m)]
        BY <1>4 DEF Interrupt
    <2> HIDE DEF m
    <2>3. inbox' \in [Workers -> Seq(Msg)]
        BY <2>1, <2>2 DEF PortsOK
    <2>4. \A w \in Workers : Addressed(w)'
        <3> SUFFICES ASSUME NEW w \in Workers PROVE Addressed(w)'
            OBVIOUS
        <3>1. inbox[w] \in Seq(Msg) /\ inbox'[w] = Append(inbox[w], m) /\ Addressed(w)
            BY <2>2 DEF PortsOK
        <3>2. \A k \in DOMAIN inbox'[w] :
                  (k \in DOMAIN inbox[w] /\ inbox'[w][k] = inbox[w][k]) \/ inbox'[w][k] = m
            BY <3>1, <2>1
        <3> QED BY <3>1, <3>2, <2>1 DEF Addressed
    <2>5. PortsOK'
        BY <1>4, <2>3, <2>4 DEF Interrupt, PortsOK
    <2> QED BY <1>4, <2>5 DEF Interrupt, MainOK, MainAt, SesOK, EndOK, inside, RedisOK, redis
<1>5. CASE ProcessEnds
    BY <1>5, EndsType, Facts DEF ProcessEnds, MainOK
<1> QED BY <1>1, <1>2, <1>3, <1>4, <1>5

\* What a worker's thread says, and what main hears of it.
LEMMA ThreadTypes ==
    ASSUME TInv, NEW w \in Workers, Load(w) \/ Dies(w) \/ Hear(w)
    PROVE  TInv'
<1>1. CASE Load(w)
    <2>1. outbox' \in [Workers -> Seq(Out)]
        BY <1>1, SaysType DEF Load, Out
    <2> QED BY <1>1, <2>1 DEF Load, TInv, MainOK, PortsOK, ThreadAt, Addressed, SesOK, EndOK,
                inside, RedisOK, redis
<1>2. CASE Dies(w)
    <2>1. outbox' \in [Workers -> Seq(Out)]
        BY <1>2, SaysType DEF Dies, Out
    <2>2. PortsOK'
        BY <1>2, <2>1, GoneType DEF Dies, TInv, PortsOK, Addressed
    <2>3. SesOK' /\ EndOK' /\ online' = online
        BY <1>2, GoneType DEF Dies
    <2>4. MainOK'
        BY <1>2, <2>3, Facts DEF Dies, TInv, MainOK
    <2> QED BY <1>2, <2>2, <2>3, <2>4 DEF Dies, TInv, RedisOK, redis
<1>3. CASE Started(w)
    <2>1. outbox' \in [Workers -> Seq(Out)]
        BY <1>3, HeardType DEF Started
    <2> QED BY <1>3, <2>1 DEF Started, TInv, MainOK, PortsOK, Addressed, SesOK, EndOK,
                inside, RedisOK, redis
<1>4. CASE Died(w)
    <2>1. CASE w \in begun
        <3>1. outbox' \in [Workers -> Seq(Out)]
            BY <1>4, <2>1, HeardType DEF Died
        <3> QED BY <1>4, <2>1, <3>1 DEF Died, TInv, MainOK, PortsOK, Addressed, SesOK, EndOK,
                    inside, RedisOK, redis
    <2>2. CASE w \notin begun
        BY <1>4, <2>2, EndsType DEF Died, TInv, MainOK
    <2> QED BY <2>1, <2>2
<1>5. CASE Finished(w)
    <2>1. outbox[w] \in Seq(Out) /\ outbox[w] # <<>>
        BY <1>5 DEF Finished, Hears, TInv, PortsOK
    <2>2. Append(Tail(outbox[w]), "died") \in Seq(Out)
        BY <2>1 DEF Out
    <2>3. outbox' \in [Workers -> Seq(Out)]
        BY <1>5, <2>2 DEF Finished, TInv, PortsOK
    <2>4. PortsOK'
        BY <1>5, <2>3, GoneType DEF Finished, TInv, PortsOK, Addressed
    <2>5. SesOK' /\ EndOK' /\ online' = online
        BY <1>5, GoneType DEF Finished
    <2>6. MainOK'
        BY <1>5, <2>5 DEF Finished, TInv, MainOK
    <2> QED BY <1>5, <2>4, <2>5, <2>6 DEF Finished, TInv, RedisOK, redis
<1> QED BY <1>1, <1>2, <1>3, <1>4, <1>5 DEF Hear

-----------------------------------------------------------------------------
\* What main tells a worker of a session.
LEMMA TellTypes ==
    ASSUME TInv, NEW s \in Sids, Connect(s) \/ Disconnect(s)
    PROVE  TInv'
<1>1. CASE Connect(s)
    <2>1. PortsOK'
        BY <1>1, TellsType DEF Connect, TInv, PortsOK
    <2>2. SesOK'
        BY <1>1, OneSes DEF Connect, TInv, SesOK
    <2> QED BY <1>1, <2>1, <2>2 DEF Connect, TInv, MainOK, EndOK, RedisOK, redis
<1>2. CASE Disconnect(s)
    <2>1. PortsOK'
        BY <1>2, TellsType DEF Disconnect, TInv, PortsOK
    <2> QED BY <1>2, <2>1 DEF Disconnect, TInv, MainOK, SesOK, EndOK, RedisOK, redis
<1> QED BY <1>1, <1>2

LEMMA LogInType ==
    ASSUME TInv, NEW s \in Sids, NEW u \in Users, LogIn(s, u)
    PROVE  /\ TInv'
           /\ bound' = [bound EXCEPT ![u] = s] /\ base' = [base EXCEPT ![s] = u]
           /\ ses'[s].user = u /\ ses'[s].at = "in" /\ \A r \in Sids \ {s} : ses'[r] = ses[r]
<1> DEFINE r == [ses[s] EXCEPT !.user = u]
<1>1. ses[s] \in Ses /\ ses[s].at = "in" /\ ses' = [ses EXCEPT ![s] = r]
    BY DEF TInv, SesOK, LogIn
<1>2. r \in Ses /\ r.user = u /\ r.at = "in"
    BY <1>1 DEF Ses
<1> HIDE DEF r
<1>3. /\ ses' \in [Sids -> Ses] /\ ses'[s].user = u /\ ses'[s].at = "in"
      /\ \A q \in Sids \ {s} : ses'[q] = ses[q]
    BY <1>1, <1>2 DEF TInv, SesOK
<1>4. bound' = [bound EXCEPT ![u] = s] /\ base' = [base EXCEPT ![s] = u]
    BY DEF LogIn
<1>5. RedisOK'
    BY <1>4, Facts DEF LogIn, TInv, RedisOK
<1> QED BY <1>3, <1>4, <1>5 DEF LogIn, TInv, MainOK, PortsOK, ports, Addressed, SesOK, EndOK

\* The names of those that are there, one by one, are a sequence of sessions.
LEMMA ExitType ==
    ASSUME TInv, NEW w \in Workers, Exit(w)
    PROVE  EndOK' /\ left'[w] \in Seq(There(w)) /\ \A s \in There(w) : \E k \in DOMAIN left'[w] : left'[w][k] = s
<1>1. IsFiniteSet(There(w)) /\ There(w) \subseteq Sids
    BY FS_Interval, FS_Subset, Facts DEF There, Of, Sids
<1>2. Cardinality(There(w)) \in Nat
    BY <1>1, FS_CardinalityType
<1>3. PICK q \in [1..Cardinality(There(w)) -> There(w)] :
          /\ \A s \in There(w) : \E k \in DOMAIN q : q[k] = s
          /\ left' = [left EXCEPT ![w] = q]
    BY DEF Exit
<1>4. q \in Seq(There(w)) /\ q \in Seq(Sids)
    BY <1>1, <1>2, <1>3
<1>5. had' = [had EXCEPT ![w] = There(w)] /\ There(w) \in SUBSET Sids
    BY <1>1 DEF Exit
<1> HIDE DEF There
<1> QED BY <1>3, <1>4, <1>5 DEF TInv, EndOK

\* What a worker takes, and what it does of itself.
LEMMA WorkerTypes ==
    ASSUME TInv, NEW w \in Workers, Take(w) \/ CloseNext(w) \/ Ended(w)
    PROVE  TInv'
<1>1. CASE Add(w)
    <2>1. PortsOK' /\ Head(inbox[w]).sid \in Sids
        BY <1>1, RestType, Facts, SMTT(40) DEF Add, TInv, PortsOK
    <2>2. SesOK'
        BY <1>1, <2>1, OneSes DEF Add, TInv, SesOK
    <2> QED BY <1>1, <2>1, <2>2 DEF Add, TInv, MainOK, EndOK, RedisOK, redis
<1>2. CASE Close(w)
    <2>1. PortsOK' /\ Head(inbox[w]).sid \in Sids
        BY <1>2, RestType, Facts DEF Close, TInv, PortsOK
    <2>2. SesOK'
        BY <1>2, <2>1, ClosesType DEF Close
    <2> QED BY <1>2, <2>1, <2>2 DEF Close, TInv, MainOK, EndOK, RedisOK, redis
<1>3. CASE Exit(w)
    <2>1. PortsOK'
        BY <1>3, RestType DEF Exit, TInv, PortsOK, ThreadAt
    <2> QED BY <1>3, <2>1, ExitType DEF Exit, TInv, MainOK, SesOK, RedisOK, redis
<1>4. CASE CloseNext(w)
    <2>1. left[w] \in Seq(Sids) /\ left[w] # <<>>
        BY <1>4 DEF CloseNext, TInv, EndOK
    <2>2. Head(left[w]) \in Sids /\ Tail(left[w]) \in Seq(Sids)
        BY <2>1
    <2>3. SesOK' /\ EndOK'
        BY <1>4, <2>2, ClosesType DEF CloseNext, TInv, EndOK
    <2> QED BY <1>4, <2>3 DEF CloseNext, TInv, MainOK, PortsOK, ports, Addressed, RedisOK, redis
<1>5. CASE Ended(w)
    <2>1. outbox' \in [Workers -> Seq(Out)]
        BY <1>5, SaysType DEF Ended, Out
    <2> QED BY <1>5, <2>1 DEF Ended, TInv, MainOK, PortsOK, ThreadAt, Addressed, SesOK, EndOK,
                inside, RedisOK, redis
<1> QED BY <1>1, <1>2, <1>3, <1>4, <1>5 DEF Take

\* What Redis answers.
LEMMA ReplyTypes ==
    ASSUME TInv, Replies
    PROVE  TInv'
<1>1. ASSUME NEW c \in closing, Flushed(c) PROVE TInv'
    <2>1. c.sid \in Sids
        BY DEF TInv, SesOK, Call
    <2>2. SesOK'
        BY <1>1, <2>1, OneSes DEF Flushed, TInv, SesOK
    <2> QED BY <1>1, <2>2 DEF Flushed, TInv, MainOK, PortsOK, ports, Addressed, EndOK, RedisOK, redis
<1>2. ASSUME NEW s \in wiping, Wipe(s) PROVE TInv'
    <2>1. RedisOK'
        BY <1>2, Facts DEF Wipe, TInv, RedisOK
    <2> QED BY <1>2, <2>1 DEF Wipe, TInv, MainOK, PortsOK, ports, Addressed, SesOK, EndOK
<1> QED BY <1>1, <1>2 DEF Replies

LEMMA StepTypes ==
    ASSUME TInv, [Next]_vars
    PROVE  TInv'
<1>1. CASE UNCHANGED vars
    BY <1>1 DEF vars, TInv, MainOK, PortsOK, ports, Addressed, SesOK, EndOK, inside, RedisOK, redis
<1>2. CASE Next
    BY <1>2, MainTypes, ThreadTypes, TellTypes, LogInType, WorkerTypes, ReplyTypes DEF Next
<1> QED BY <1>1, <1>2

\* Type correctness, with the addressees of what main tells (_on_m2w_add_session,
\* _on_m2w_remove_session).
THEOREM TypeCorrect == Spec => []TypeOK
<1>1. Spec => []TInv
    BY InitTypes, StepTypes, PTL DEF Spec
<1> QED BY <1>1, TypesOf, PTL

-----------------------------------------------------------------------------
\* Once the start has cleared the sessions, a binding has its base data, its player
\* in the worker, and a session that is there, is being removed or has been lost.
Placed(u) ==
    /\ base[bound[u]] = u /\ ses[bound[u]].user = u
    /\ \/ ses[bound[u]].at \in {"in", "lost"}
       \/ ses[bound[u]].at = "gone" /\ bound[u] \in wiping

Serves == main \in {"starting", "open", "ending"} /\ ~clearing

Bindings == Serves => \A u \in Users : bound[u] # 0 => Placed(u)

LEMMA BoundSid == TInv => \A u \in Users : bound[u] # 0 => bound[u] \in Sids
BY Facts DEF TInv, RedisOK

\* Steps that leave Redis alone, and no bound session is worse off.
LEMMA KeepsBindings ==
    ASSUME TInv, Bindings, bound' = bound, base' = base, Serves' => Serves,
           \A s \in Sids : ses'[s].user = ses[s].user,
           \A s \in Sids : \/ ses'[s] = ses[s] /\ (s \in wiping => s \in wiping')
                           \/ ses'[s].at \in {"in", "lost"}
                           \/ ses'[s].at = "gone" /\ s \in wiping'
                           \/ ses[s].at = "none"
    PROVE  Bindings'
<1> SUFFICES ASSUME Serves', NEW u \in Users, bound'[u] # 0 PROVE Placed(u)'
    BY DEF Bindings
<1>1. bound[u] \in Sids /\ Placed(u)
    BY BoundSid DEF Bindings
<1> QED BY <1>1 DEF Placed

LEMMA StepBindings ==
    ASSUME TInv, Bindings, Next
    PROVE  Bindings'
<1> USE DEF Serves
<1>1. CASE Boot
    BY <1>1 DEF Boot, Bindings
<1>2. CASE Clear
    BY <1>2 DEF Clear, Cleared, Bindings
<1>3. CASE Open
    BY <1>3, KeepsBindings DEF Open, redis, inside
<1>4. CASE Interrupt
    BY <1>4, KeepsBindings DEF Interrupt, redis, inside
<1>5. CASE ProcessEnds
    BY <1>5 DEF ProcessEnds, Ends, Bindings
<1>6. ASSUME NEW w \in Workers, Load(w) PROVE Bindings'
    BY <1>6, KeepsBindings DEF Load, redis, inside
<1>7. ASSUME NEW w \in Workers, Dies(w) \/ Finished(w) PROVE Bindings'
    <2>1. Gone(w) /\ main' = main /\ UNCHANGED redis
        BY <1>7 DEF Dies, Finished
    <2>2. \A s \in Sids : ses'[s].at = "lost" \/ (ses'[s] = ses[s] /\ (s \in wiping => s \in wiping'))
                          \/ ses[s].at = "none"
        BY <2>1, GoneType DEF Met
    <2>3. \A s \in Sids : ses'[s].user = ses[s].user
        BY <2>1, GoneType
    <2> QED BY <2>1, <2>2, <2>3, KeepsBindings DEF redis
<1>8. ASSUME NEW w \in Workers, Started(w) PROVE Bindings'
    BY <1>8, KeepsBindings DEF Started, redis, inside
<1>9. ASSUME NEW w \in Workers, Died(w) PROVE Bindings'
    <2>1. CASE w \in begun
        BY <1>9, <2>1, KeepsBindings DEF Died, redis, inside
    <2>2. CASE w \notin begun
        BY <1>9, <2>2 DEF Died, Ends, Bindings
    <2> QED BY <2>1, <2>2
<1>10. ASSUME NEW w \in Workers, Add(w) PROVE Bindings'
    <2>1. Head(inbox[w]).sid \in Sids
        BY <1>10, RestType, Facts DEF Add
    <2> QED BY <1>10, <2>1, OneSes, KeepsBindings DEF Add, redis
<1>11. ASSUME NEW w \in Workers, Close(w) PROVE Bindings'
    <2>1. Head(inbox[w]).sid \in Sids
        BY <1>11, RestType, Facts DEF Close
    <2> QED BY <1>11, <2>1, ClosesType, KeepsBindings DEF Close, redis
<1>12. ASSUME NEW w \in Workers, CloseNext(w) PROVE Bindings'
    <2>1. left[w] \in Seq(Sids) /\ left[w] # <<>>
        BY <1>12 DEF CloseNext, TInv, EndOK
    <2>2. Head(left[w]) \in Sids
        BY <2>1
    <2> QED BY <1>12, <2>2, ClosesType, KeepsBindings DEF CloseNext, redis
<1>13. ASSUME NEW w \in Workers, Exit(w) \/ Ended(w) PROVE Bindings'
    BY <1>13, KeepsBindings DEF Exit, Ended, redis, inside
<1>14. ASSUME NEW s \in Sids, Connect(s) PROVE Bindings'
    BY <1>14, OneSes, KeepsBindings DEF Connect, redis
<1>15. ASSUME NEW s \in Sids, Disconnect(s) PROVE Bindings'
    BY <1>15, KeepsBindings DEF Disconnect, redis
<1>16. ASSUME NEW s \in Sids, NEW u \in Users, LogIn(s, u) PROVE Bindings'
    <2> SUFFICES ASSUME Serves, NEW v \in Users, bound'[v] # 0 PROVE Placed(v)'
        BY <1>16 DEF Bindings, LogIn
    <2>1. CASE v = u
        BY <1>16, <2>1, LogInType DEF Placed, TInv, RedisOK
    <2>2. CASE v # u
        <3>1. bound'[v] = bound[v] /\ bound[v] \in Sids /\ Placed(v)
            BY <1>16, <2>2, BoundSid, LogInType DEF Bindings, TInv, RedisOK
        <3>2. bound[v] # s
            BY <1>16, <3>1, Facts DEF LogIn, Placed
        <3> QED BY <1>16, <3>1, <3>2, LogInType DEF Placed, TInv, RedisOK, LogIn
    <2> QED BY <2>1, <2>2
<1>17. ASSUME NEW c \in closing, Flushed(c) PROVE Bindings'
    <2>1. c.sid \in Sids
        BY DEF TInv, SesOK, Call
    <2> QED BY <1>17, <2>1, OneSes, KeepsBindings DEF Flushed, redis
<1>18. ASSUME NEW s \in wiping, Wipe(s) PROVE Bindings'
    <2> SUFFICES ASSUME Serves, NEW v \in Users, bound'[v] # 0 PROVE Placed(v)'
        BY <1>18 DEF Bindings, Wipe
    <2>1. base[s] # v /\ bound'[v] = bound[v] /\ bound[v] \in Sids /\ Placed(v)
        BY <1>18, BoundSid DEF Wipe, Bindings
    <2>2. bound[v] # s
        BY <2>1 DEF Placed
    <2> QED BY <1>18, <2>1, <2>2 DEF Wipe, Placed, TInv, RedisOK
<1> QED BY <1>1, <1>2, <1>3, <1>4, <1>5, <1>6, <1>7, <1>8, <1>9, <1>10, <1>11, <1>12, <1>13, <1>14,
           <1>15, <1>16, <1>17, <1>18 DEF Next, Hear, Take, Replies

\* Whom Redis has bound is there, is being removed, or has lost its worker, for any
\* number of ends of the process before (natrium_server.ts:64).
THEOREM NoneIsShutOut == Spec => []BoundIsPresent
<1>1. Init => Bindings
    BY DEF Init, Bindings, Serves
<1>2. TInv /\ Bindings /\ [Next]_vars => Bindings'
    <2>1. TInv /\ Bindings /\ UNCHANGED vars => Bindings'
        BY DEF vars, inside, redis, Bindings, Serves, Placed
    <2> QED BY <2>1, StepBindings
<1>3. Bindings => BoundIsPresent
    BY DEF Bindings, Serves, Placed, BoundIsPresent
<1> QED BY <1>1, <1>2, <1>3, InitTypes, StepTypes, PTL DEF Spec

-----------------------------------------------------------------------------
\* A worker that lives takes the adding of a session once, and before its close.
Waits(w, k) == LET m == inbox[w][k] IN
    /\ m.kind \in {"add", "close"} => ses[m.sid].at # "none"
    /\ m.kind = "add" =>
          /\ ses[m.sid].at = "sent"
          /\ \A j \in DOMAIN inbox[w] : inbox[w][j].kind \in {"add", "close"}
                                        /\ inbox[w][j].sid = m.sid => k <= j
InOrder == \A w \in Workers : thread[w] # "dead" => \A k \in DOMAIN inbox[w] : Waits(w, k)

\* What is known of a session by where it stands.
Known ==
    /\ main = "down" => \A w \in Workers : inbox[w] = <<>>
    /\ \A s \in online : ses[s].at # "none"
    /\ \A w \in Workers : \A s \in had[w] : s \in Of(w) /\ ses[s].at \notin {"none", "sent"}
    /\ \A w \in Workers : \A k \in DOMAIN left[w] : left[w][k] \in had[w]
    /\ \A c \in closing : ses[c.sid].at \in {"in", "gone"}

\* What a worker had when it was told to end is closed, at its close, or to be closed.
InHand(w, s) ==
    \/ ses[s].at = "gone"
    \/ [sid |-> s, by |-> "end"] \in closing
    \/ \E k \in DOMAIN left[w] : left[w][k] = s
Taken == \A w \in Workers : thread[w] \in {"ending", "ended"} => \A s \in had[w] : InHand(w, s)

ToldInv == InOrder /\ Known /\ Taken /\ ToldIsClosed

LEMMA InitTold == Init => ToldInv
BY Empty DEF Init, ToldInv, InOrder, Known, Taken, ToldIsClosed

LEMMA EndsTold ==
    ASSUME TInv, Ends
    PROVE  ToldInv'
BY Empty DEF Ends, ToldInv, InOrder, Known, Taken, ToldIsClosed

\* A step that changes nothing of this, but for threads that are yet to be told.
LEMMA QuietTold ==
    ASSUME ToldInv, UNCHANGED <<inbox, online, ses, closing, left, had>>,
           main' # "down" \/ main' = main,
           \A w \in Workers : thread'[w] \in {"none", "loading", "ready"} \/ thread'[w] = thread[w],
           \A w \in Workers : thread[w] = "dead" /\ thread'[w] # "dead" => inbox[w] = <<>>
    PROVE  ToldInv'
<1>1. InOrder'
    <2> SUFFICES ASSUME NEW w \in Workers, thread'[w] # "dead", NEW k \in DOMAIN inbox[w]
                 PROVE  Waits(w, k)'
        BY DEF InOrder
    <2>1. thread[w] # "dead"
        OBVIOUS
    <2> QED BY <2>1 DEF ToldInv, InOrder, Waits
<1>2. Known'
    BY DEF ToldInv, Known
<1>3. Taken' /\ ToldIsClosed'
    BY DEF ToldInv, Taken, ToldIsClosed, InHand
<1> QED BY <1>1, <1>2, <1>3 DEF ToldInv

\* A message behind the others: it adds a session that no message is about, or it is
\* another one.
LEMMA BehindOthers ==
    ASSUME TInv, NEW w \in Workers, NEW m \in Msg,
           \A k \in DOMAIN inbox[w] : Waits(w, k),
           inbox'[w] = Append(inbox[w], m),
           m.kind = "add" => ses[m.sid].at = "none" /\ ses'[m.sid].at = "sent",
           m.kind = "close" => ses'[m.sid].at # "none",
           \A k \in DOMAIN inbox[w] :
               inbox[w][k].kind \in {"add", "close"} => ses'[inbox[w][k].sid] = ses[inbox[w][k].sid]
    PROVE  \A k \in DOMAIN inbox'[w] : Waits(w, k)'
<1>1. inbox[w] \in Seq(Msg)
    BY DEF TInv, PortsOK
<1> DEFINE n == Len(inbox[w])
<1>2. /\ n \in Nat /\ DOMAIN inbox[w] = 1..n /\ DOMAIN inbox'[w] = 1..(n + 1)
      /\ \A k \in 1..n : inbox'[w][k] = inbox[w][k]
      /\ inbox'[w][n + 1] = m
    BY <1>1
<1>3. \A k \in 1..n : inbox[w][k].kind \in {"add", "close"} => ses[inbox[w][k].sid].at # "none"
    BY <1>2 DEF Waits
<1> SUFFICES ASSUME NEW k \in 1..(n + 1) PROVE Waits(w, k)'
    BY <1>2
<1> HIDE DEF n
<1>4. CASE k \in 1..n
    <2>1. \A j \in 1..(n + 1) : j \in 1..n \/ (j = n + 1 /\ k <= j)
        BY <1>2, <1>4
    <2> QED BY <1>2, <1>4, <2>1 DEF Waits
<1>5. CASE k = n + 1
    <2>1. m.kind \in {"add", "close"} => ses'[m.sid].at # "none"
        OBVIOUS
    <2>2. m.kind = "add" => \A j \in 1..(n + 1) :
              inbox'[w][j].kind \in {"add", "close"} /\ inbox'[w][j].sid = m.sid => k <= j
        <3> SUFFICES ASSUME m.kind = "add", NEW j \in 1..(n + 1), k > j,
                            inbox'[w][j].kind \in {"add", "close"}, inbox'[w][j].sid = m.sid
                     PROVE  FALSE
            BY <1>2, <1>5
        <3>1. j \in 1..n
            BY <1>2, <1>5
        <3> QED BY <1>2, <1>3, <3>1
    <2> QED BY <1>2, <1>5, <2>1, <2>2 DEF Waits
<1> QED BY <1>2, <1>4, <1>5

\* The first message is taken: the others are one nearer, and of the session that it
\* is about none is an adding.
LEMMA FirstTaken ==
    ASSUME TInv, NEW w \in Workers, NEW kind, Took(w, kind), Rest(w),
           \A k \in DOMAIN inbox[w] : Waits(w, k),
           \A s \in Sids : ses'[s].at = ses[s].at
                           \/ (s = Head(inbox[w]).sid /\ kind \in {"add", "close"} /\ ses'[s].at # "none")
    PROVE  \A k \in DOMAIN inbox'[w] : Waits(w, k)'
<1> SUFFICES ASSUME NEW k \in DOMAIN inbox'[w] PROVE Waits(w, k)'
    OBVIOUS
<1>1. /\ inbox[w] \in Seq(Msg) /\ inbox[w] # <<>> /\ inbox[w][1].kind = kind
      /\ Head(inbox[w]) = inbox[w][1] /\ DOMAIN inbox[w] \subseteq Nat /\ 1 \in DOMAIN inbox[w]
    BY RestType
<1>2. /\ \A j \in DOMAIN inbox'[w] : j + 1 \in DOMAIN inbox[w] /\ inbox'[w][j] = inbox[w][j + 1]
      /\ DOMAIN inbox'[w] \subseteq Nat \ {0}
    BY RestType, <1>1
<1> DEFINE m == inbox[w][k + 1]
<1>3. m \in Msg /\ inbox'[w][k] = m /\ k \in Nat \ {0} /\ k + 1 \in DOMAIN inbox[w]
    BY <1>1, <1>2
<1>4. m.kind \in {"add", "close"} => m.sid \in Sids
    BY <1>3, Facts DEF TInv, PortsOK, Addressed
<1>5. Waits(w, k + 1)
    BY <1>3
<1>6. m.kind = "add" /\ kind \in {"add", "close"} => inbox[w][1].sid # m.sid
    <2> SUFFICES ASSUME m.kind = "add", kind \in {"add", "close"}, inbox[w][1].sid = m.sid PROVE FALSE
        OBVIOUS
    <2>1. k + 1 <= 1
        BY <1>1, <1>5 DEF Waits
    <2> QED BY <1>3, <2>1
<1>7. m.kind = "add" => \A j \in DOMAIN inbox'[w] :
          inbox'[w][j].kind \in {"add", "close"} /\ inbox'[w][j].sid = m.sid => k <= j
    <2> SUFFICES ASSUME m.kind = "add", NEW j \in DOMAIN inbox'[w],
                        inbox'[w][j].kind \in {"add", "close"}, inbox'[w][j].sid = m.sid
                 PROVE  k <= j
        OBVIOUS
    <2>1. k + 1 <= j + 1
        BY <1>2, <1>5 DEF Waits
    <2> QED BY <1>2, <1>3, <2>1
<1>8. m.kind \in {"add", "close"} => ses'[m.sid].at # "none"
    BY <1>4, <1>5 DEF Waits
<1>9. m.kind = "add" => ses'[m.sid].at = "sent"
    BY <1>1, <1>4, <1>5, <1>6 DEF Waits
<1> HIDE DEF m
<1> QED BY <1>3, <1>7, <1>8, <1>9 DEF Waits

\* Sessions go on, and none of them is to be added or not there.
LEMMA SesGoOn ==
    ASSUME TInv, ToldInv, UNCHANGED <<thread, inbox>>,
           \A s \in Sids : ses'[s].at = ses[s].at
                           \/ (ses[s].at \notin {"none", "sent"} /\ ses'[s].at # "none")
    PROVE  InOrder'
<1> SUFFICES ASSUME NEW w \in Workers, thread[w] # "dead", NEW k \in DOMAIN inbox[w]
             PROVE  Waits(w, k)'
    BY DEF InOrder
<1>1. Waits(w, k) /\ (inbox[w][k].kind \in {"add", "close"} => inbox[w][k].sid \in Sids)
    BY Facts DEF ToldInv, InOrder, TInv, PortsOK, Addressed
<1> QED BY <1>1 DEF Waits

\* The messages of the other workers are about other sessions.
LEMMA OthersWait ==
    ASSUME TInv, ToldInv, NEW w \in Workers, NEW v \in Workers \ {w},
           thread[v] # "dead", inbox'[v] = inbox[v],
           \A s \in Sids : s \notin Of(w) => ses'[s].at = ses[s].at
    PROVE  \A k \in DOMAIN inbox'[v] : Waits(v, k)'
<1> SUFFICES ASSUME NEW k \in DOMAIN inbox[v] PROVE Waits(v, k)'
    OBVIOUS
<1>1. Waits(v, k) /\ (inbox[v][k].kind \in {"add", "close"} => inbox[v][k].sid \in Of(v))
    BY DEF ToldInv, InOrder, TInv, PortsOK, Addressed
<1>2. \A s \in Of(v) : s \in Sids /\ s \notin Of(w)
    BY Facts
<1> QED BY <1>1, <1>2 DEF Waits

LEMMA GoneTold ==
    ASSUME TInv, ToldInv, NEW w \in Workers, Gone(w), UNCHANGED <<main, inbox>>
    PROVE  ToldInv'
<1>1. /\ \A s \in Met(w) : ses'[s].at = "lost"
      /\ \A s \in Sids \ Met(w) : ses'[s] = ses[s]
      /\ thread' = [thread EXCEPT ![w] = "dead"] /\ thread \in [Workers -> ThreadAt]
      /\ left' = [left EXCEPT ![w] = <<>>] /\ left \in [Workers -> Seq(Sids)]
      /\ UNCHANGED <<online, had>>
      /\ closing' = {c \in closing : c.sid \notin Of(w)}
    BY GoneType DEF TInv, PortsOK, EndOK
<1>2. Met(w) \subseteq Of(w) /\ had \in [Workers -> SUBSET Sids] /\ closing \subseteq Call
    BY DEF Met, TInv, EndOK, SesOK
<1>3. InOrder'
    <2> SUFFICES ASSUME NEW v \in Workers \ {w}, thread[v] # "dead" PROVE \A k \in DOMAIN inbox'[v] : Waits(v, k)'
        BY <1>1 DEF InOrder
    <2> QED BY <1>1, <1>2, OthersWait
<1>4. Known'
    <2>1. \A c \in closing' : ses'[c.sid] = ses[c.sid] /\ c \in closing
        BY <1>1, <1>2 DEF Call
    <2>2. \A s \in Sids : ses'[s].at = "lost" \/ ses'[s] = ses[s]
        BY <1>1
    <2>3. \A v \in Workers : \A k \in DOMAIN left'[v] : left'[v][k] \in had[v]
        BY <1>1 DEF ToldInv, Known
    <2>4. online \subseteq Sids
        BY DEF TInv, MainOK
    <2> QED BY <1>1, <1>2, <2>1, <2>2, <2>3, <2>4 DEF ToldInv, Known
<1>5. \A v \in Workers \ {w} : \A s \in had[v] : s \in Sids /\ s \notin Of(w) /\ ses'[s] = ses[s]
    BY <1>1, <1>2, Facts DEF ToldInv, Known
<1>6. \A v \in Workers \ {w} : \A s \in had[v] : InHand(v, s) => InHand(v, s)'
    BY <1>1, <1>5 DEF InHand
<1>7. Taken'
    <2> SUFFICES ASSUME NEW v \in Workers, thread'[v] \in {"ending", "ended"}, NEW s \in had'[v]
                 PROVE  InHand(v, s)'
        BY DEF Taken
    <2> QED BY <1>1, <1>6 DEF ToldInv, Taken
<1>8. ToldIsClosed'
    BY <1>1, <1>5 DEF ToldInv, ToldIsClosed
<1> QED BY <1>3, <1>4, <1>7, <1>8 DEF ToldInv

LEMMA ClosesTold ==
    ASSUME TInv, ToldInv, NEW s \in Sids, NEW by \in {"message", "end"}, Closes(s, by)
    PROVE  /\ \A r \in Sids : ses'[r].at = ses[r].at \/ (r = s /\ ses'[r].at = "gone")
           /\ closing \subseteq closing'
           /\ by = "end" => ses'[s].at = "gone" \/ [sid |-> s, by |-> "end"] \in closing'
           /\ \A c \in closing' : ses'[c.sid].at \in {"in", "gone"}
<1>1. \A c \in closing : c.sid \in Sids /\ ses[c.sid].at \in {"in", "gone"}
    BY DEF TInv, SesOK, Call, ToldInv, Known
<1>2. CASE ses[s].at = "in" /\ UNCHANGED <<ses, wiping>> /\ closing' = closing \cup {[sid |-> s, by |-> by]}
    BY <1>1, <1>2
<1>3. CASE ses'[s].at = "gone" /\ (\A r \in Sids \ {s} : ses'[r] = ses[r]) /\ closing' = closing
    BY <1>1, <1>3
<1> QED BY <1>2, <1>3, ClosesType

\* Sessions go on, some are gone: what is known of the others is still so.
LEMMA GoOnKnown ==
    ASSUME TInv, ToldInv, main' # "down", UNCHANGED <<online, had>>,
           \A w \in Workers : \A k \in DOMAIN left'[w] : left'[w][k] \in had[w],
           \A c \in closing' : ses'[c.sid].at \in {"in", "gone"},
           \A s \in Sids : ses'[s].at = ses[s].at \/ ses'[s].at \in {"in", "gone"}
    PROVE  Known'
BY DEF ToldInv, Known, TInv, MainOK, EndOK

\* Whatever is open to a worker's steps is so while the process runs.
LEMMA NotDown == ToldInv => \A w \in Workers : inbox[w] # <<>> => main # "down"
BY DEF ToldInv, Known

LEMMA KeepsInHand ==
    ASSUME ToldInv, UNCHANGED <<thread, left, had>>, closing \subseteq closing',
           \A w \in Workers : \A s \in had[w] : ses[s].at = "gone" => ses'[s].at = "gone"
    PROVE  Taken' /\ ToldIsClosed'
<1>1. \A w \in Workers : \A s \in had[w] : InHand(w, s) => InHand(w, s)'
    BY DEF InHand
<1>2. Taken'
    BY <1>1 DEF ToldInv, Taken
<1>3. ToldIsClosed'
    BY DEF ToldInv, ToldIsClosed
<1> QED BY <1>2, <1>3

LEMMA StepTold ==
    ASSUME TInv, ToldInv, Next
    PROVE  ToldInv'
<1>t. /\ thread \in [Workers -> ThreadAt] /\ left \in [Workers -> Seq(Sids)]
      /\ had \in [Workers -> SUBSET Sids] /\ closing \subseteq Call /\ online \subseteq Sids
    BY DEF TInv, PortsOK, EndOK, SesOK, MainOK
<1>1. CASE Boot
    BY <1>1, QuietTold DEF Boot, inside, ports, ToldInv, Known
<1>2. CASE Clear \/ Open
    BY <1>2, QuietTold DEF Clear, Open, inside, ports
<1>3. CASE Interrupt
    <2> DEFINE m == [kind |-> "exit", sid |-> 0]
    <2>1. m \in Msg /\ m.kind = "exit"
        BY Facts DEF Msg
    <2>2. /\ \A w \in Workers : inbox'[w] = Append(inbox[w], m)
          /\ UNCHANGED <<thread, ses, closing, online, left, had>> /\ main' # "down"
        BY <1>3 DEF Interrupt, inside
    <2> HIDE DEF m
    <2>3. InOrder'
        BY <2>1, <2>2, BehindOthers DEF ToldInv, InOrder
    <2> QED BY <2>2, <2>3 DEF ToldInv, Known, Taken, InHand, ToldIsClosed
<1>4. CASE ProcessEnds
    BY <1>4, EndsTold DEF ProcessEnds
<1>5. ASSUME NEW w \in Workers, Load(w) PROVE ToldInv'
    BY <1>5, <1>t, QuietTold DEF Load, inside
<1>6. ASSUME NEW w \in Workers, Dies(w) \/ Finished(w) PROVE ToldInv'
    BY <1>6, GoneTold DEF Dies, Finished
<1>7. ASSUME NEW w \in Workers, Started(w) PROVE ToldInv'
    BY <1>7, QuietTold DEF Started, inside
<1>8. ASSUME NEW w \in Workers, Died(w) PROVE ToldInv'
    <2>1. CASE w \in begun
        BY <1>8, <2>1, QuietTold DEF Died, inside
    <2>2. CASE w \notin begun
        BY <1>8, <2>2, EndsTold DEF Died
    <2> QED BY <2>1, <2>2
<1>9. ASSUME NEW w \in Workers, Add(w) PROVE ToldInv'
    <2> DEFINE s == Head(inbox[w]).sid
    <2>1. /\ s \in Of(w) /\ s \in Sids /\ inbox[w] \in Seq(Msg) /\ inbox[w] # <<>>
          /\ Head(inbox[w]).kind = "add" /\ \A v \in Workers \ {w} : inbox'[v] = inbox[v]
        BY <1>9, RestType, Facts DEF Add
    <2>2. /\ ses'[s].at = "in" /\ \A r \in Sids \ {s} : ses'[r] = ses[r]
          /\ thread[w] # "dead" /\ UNCHANGED <<main, thread, online, closing, left, had>>
        BY <1>9, <2>1, OneSes DEF Add, Took, Runs
    <2>3. ses[s].at = "sent"
        <3>1. 1 \in DOMAIN inbox[w] /\ Head(inbox[w]) = inbox[w][1]
            BY <2>1
        <3> QED BY <2>1, <2>2, <3>1 DEF ToldInv, InOrder, Waits
    <2> HIDE DEF s
    <2>4. \A k \in DOMAIN inbox'[w] : Waits(w, k)'
        BY <1>9, <2>2, FirstTaken DEF Add, ToldInv, InOrder, s
    <2>5. InOrder'
        <3>1. \A v \in Workers \ {w} : thread[v] # "dead" => \A k \in DOMAIN inbox'[v] : Waits(v, k)'
            BY <2>1, <2>2, OthersWait
        <3> QED BY <2>2, <2>4, <3>1 DEF InOrder
    <2>6. \A v \in Workers : s \notin had[v]
        BY <2>3 DEF ToldInv, Known
    <2>7. \A c \in closing : c.sid # s
        BY <2>3 DEF ToldInv, Known
    <2>8. Known'
        BY <2>1, <2>2, <2>7, <1>t, NotDown, GoOnKnown DEF Call, ToldInv, Known
    <2>9. Taken' /\ ToldIsClosed'
        BY <2>2, <2>6, <1>t, KeepsInHand
    <2> QED BY <2>5, <2>8, <2>9 DEF ToldInv
<1>10. ASSUME NEW w \in Workers, Close(w) PROVE ToldInv'
    <2> DEFINE s == Head(inbox[w]).sid
    <2>1. /\ s \in Of(w) /\ s \in Sids /\ inbox[w] # <<>>
          /\ \A v \in Workers \ {w} : inbox'[v] = inbox[v]
          /\ UNCHANGED <<main, thread, online, left, had>> /\ Closes(s, "message")
          /\ thread[w] # "dead"
        BY <1>10, RestType, Facts DEF Close, Took, Runs
    <2> HIDE DEF s
    <2>2. /\ \A r \in Sids : ses'[r].at = ses[r].at \/ (r = s /\ ses'[r].at = "gone")
          /\ closing \subseteq closing'
          /\ \A c \in closing' : ses'[c.sid].at \in {"in", "gone"}
        BY <2>1, ClosesTold
    <2>3. \A k \in DOMAIN inbox'[w] : Waits(w, k)'
        BY <1>10, <2>1, <2>2, FirstTaken DEF Close, ToldInv, InOrder, s
    <2>4. InOrder'
        <3>1. \A v \in Workers \ {w} : thread[v] # "dead" => \A k \in DOMAIN inbox'[v] : Waits(v, k)'
            BY <2>1, <2>2, OthersWait
        <3> QED BY <2>1, <2>3, <3>1 DEF InOrder
    <2>5. Known'
        BY <2>1, <2>2, NotDown, GoOnKnown DEF ToldInv, Known
    <2>6. \A v \in Workers : \A r \in had[v] : ses[r].at = "gone" => ses'[r].at = "gone"
        BY <2>2, <1>t
    <2>7. Taken' /\ ToldIsClosed'
        BY <2>1, <2>2, <2>6, KeepsInHand
    <2> QED BY <2>4, <2>5, <2>7 DEF ToldInv
<1>11. ASSUME NEW w \in Workers, Exit(w) PROVE ToldInv'
    <2>1. /\ thread' = [thread EXCEPT ![w] = "ending"] /\ had' = [had EXCEPT ![w] = There(w)]
          /\ UNCHANGED <<main, online, ses, closing>> /\ Took(w, "exit") /\ Rest(w)
          /\ \A v \in Workers \ {w} : left'[v] = left[v] /\ inbox'[v] = inbox[v]
          /\ inbox[w] # <<>> /\ thread[w] # "dead"
        BY <1>11, <1>t, RestType DEF Exit, Took, Runs
    <2>2. /\ left'[w] \in Seq(There(w))
          /\ \A s \in There(w) : \E k \in DOMAIN left'[w] : left'[w][k] = s
        BY <1>11, ExitType
    <2>3. InOrder'
        <3>1. \A k \in DOMAIN inbox'[w] : Waits(w, k)'
            BY <2>1, FirstTaken DEF ToldInv, InOrder
        <3>2. \A v \in Workers \ {w} : thread[v] # "dead" => \A k \in DOMAIN inbox'[v] : Waits(v, k)'
            BY <2>1, OthersWait
        <3> QED BY <2>1, <3>1, <3>2, <1>t DEF InOrder
    <2>4. \A s \in There(w) : s \in Of(w) /\ ses[s].at = "in"
        BY DEF There
    <2>5. \A k \in DOMAIN left'[w] : left'[w][k] \in There(w)
        BY <2>2
    <2> HIDE DEF There
    <2>6. Known'
        BY <2>1, <2>4, <2>5, <1>t, NotDown DEF ToldInv, Known
    <2>7. Taken' /\ ToldIsClosed'
        BY <2>1, <2>2, <1>t DEF ToldInv, Taken, InHand, ToldIsClosed
    <2> QED BY <2>3, <2>6, <2>7 DEF ToldInv
<1>12. ASSUME NEW w \in Workers, CloseNext(w) PROVE ToldInv'
    <2> DEFINE s == Head(left[w])
    <2>1. /\ left[w] \in Seq(Sids) /\ left[w] # <<>> /\ left' = [left EXCEPT ![w] = Tail(left[w])]
          /\ UNCHANGED <<main, thread, inbox, online, had>> /\ Closes(s, "end")
        BY <1>12, <1>t DEF CloseNext, ports
    <2>2. /\ s = left[w][1] /\ 1 \in DOMAIN left[w] /\ s \in Sids
          /\ \A k \in DOMAIN Tail(left[w]) : k + 1 \in DOMAIN left[w] /\ Tail(left[w])[k] = left[w][k + 1]
          /\ \A k \in DOMAIN left[w] : k = 1 \/ (k - 1 \in DOMAIN Tail(left[w]) /\ Tail(left[w])[k - 1] = left[w][k])
        BY <2>1
    <2> HIDE DEF s
    <2>3. s \in had[w] /\ ses[s].at \notin {"none", "sent"}
        BY <2>2 DEF ToldInv, Known
    <2>4. /\ \A r \in Sids : ses'[r].at = ses[r].at \/ (r = s /\ ses'[r].at = "gone")
          /\ closing \subseteq closing'
          /\ ses'[s].at = "gone" \/ [sid |-> s, by |-> "end"] \in closing'
          /\ \A c \in closing' : ses'[c.sid].at \in {"in", "gone"}
        BY <2>1, <2>2, ClosesTold
    <2>5. InOrder'
        BY <2>1, <2>3, <2>4, SesGoOn
    <2>6. \A v \in Workers : \A k \in DOMAIN left'[v] : left'[v][k] \in had[v]
        BY <2>1, <2>2, <1>t DEF ToldInv, Known
    <2>7. Known'
        <3>1. main # "down" => Known'
            BY <2>1, <2>4, <2>6, GoOnKnown
        <3>2. main = "down" => Known'
            BY <2>1, <2>4, <2>6, <1>t DEF ToldInv, Known
        <3> QED BY <3>1, <3>2
    <2>8. \A v \in Workers : \A r \in had[v] : InHand(v, r) => InHand(v, r)'
        <3> SUFFICES ASSUME NEW v \in Workers, NEW r \in had[v], InHand(v, r) PROVE InHand(v, r)'
            BY <2>1
        <3>1. CASE ses[r].at = "gone"
            BY <3>1, <2>4, <1>t DEF InHand
        <3>2. CASE [sid |-> r, by |-> "end"] \in closing
            BY <3>2, <2>4 DEF InHand
        <3>3. ASSUME NEW k \in DOMAIN left[v], left[v][k] = r PROVE InHand(v, r)'
            <4>1. CASE v = w
                BY <3>3, <4>1, <2>1, <2>2, <2>4, <1>t DEF InHand
            <4>2. CASE v # w
                BY <3>3, <4>2, <2>1, <1>t DEF InHand
            <4> QED BY <4>1, <4>2
        <3> QED BY <3>1, <3>2, <3>3 DEF InHand
    <2>9. Taken' /\ ToldIsClosed'
        BY <2>1, <2>4, <2>8, <1>t DEF ToldInv, Taken, ToldIsClosed
    <2> QED BY <2>5, <2>7, <2>9 DEF ToldInv
<1>13. ASSUME NEW w \in Workers, Ended(w) PROVE ToldInv'
    <2>1. /\ thread[w] = "ending" /\ thread' = [thread EXCEPT ![w] = "ended"] /\ left[w] = <<>>
          /\ \A c \in closing : c.sid \in Of(w) => c.by # "end"
          /\ UNCHANGED <<main, inbox, online, ses, closing, left, had>>
        BY <1>13 DEF Ended, InTurn, inside
    <2>2. \A s \in had[w] : ses[s].at = "gone"
        <3> SUFFICES ASSUME NEW s \in had[w] PROVE ses[s].at = "gone"
            OBVIOUS
        <3>1. InHand(w, s) /\ s \in Of(w)
            BY <2>1 DEF ToldInv, Taken, Known
        <3>2. DOMAIN left[w] = {}
            BY <2>1
        <3> QED BY <2>1, <3>1, <3>2 DEF InHand
    <2>3. InOrder'
        BY <2>1, <1>t DEF ToldInv, InOrder, Waits
    <2> QED BY <2>1, <2>2, <2>3, <1>t DEF ToldInv, Known, Taken, InHand, ToldIsClosed
<1>14. ASSUME NEW s \in Sids, Connect(s) PROVE ToldInv'
    <2> DEFINE w == Entry[s]
               m == [kind |-> "add", sid |-> s]
    <2>1. /\ w \in Workers /\ s \in Of(w) /\ m \in Msg /\ m.kind = "add" /\ m.sid = s
          /\ inbox'[w] = Append(inbox[w], m) /\ \A v \in Workers \ {w} : inbox'[v] = inbox[v]
        BY <1>14, TellsType, Facts DEF Connect, Msg
    <2>2. /\ ses[s].at = "none" /\ ses'[s].at = "sent" /\ \A r \in Sids \ {s} : ses'[r] = ses[r]
          /\ online' = online \cup {s} /\ main' = "open"
          /\ UNCHANGED <<thread, closing, left, had>>
        BY <1>14, OneSes DEF Connect
    <2> HIDE DEF w, m
    <2>3. thread[w] # "dead" => \A k \in DOMAIN inbox'[w] : Waits(w, k)'
        <3> SUFFICES ASSUME thread[w] # "dead" PROVE \A k \in DOMAIN inbox'[w] : Waits(w, k)'
            OBVIOUS
        <3>1. \A k \in DOMAIN inbox[w] : Waits(w, k)
            BY <2>1 DEF ToldInv, InOrder
        <3>2. \A k \in DOMAIN inbox[w] : inbox[w][k].kind \in {"add", "close"} =>
                  inbox[w][k].sid \in Sids /\ inbox[w][k].sid # s
            BY <2>1, <2>2, <3>1, Facts DEF Waits, TInv, PortsOK, Addressed
        <3> QED BY <2>1, <2>2, <3>1, <3>2, BehindOthers
    <2>4. InOrder'
        <3>1. \A r \in Sids : r \notin Of(w) => ses'[r].at = ses[r].at
            BY <2>1, <2>2
        <3>2. \A v \in Workers \ {w} : thread[v] # "dead" => \A k \in DOMAIN inbox'[v] : Waits(v, k)'
            BY <2>1, <3>1, OthersWait
        <3> QED BY <2>2, <2>3, <3>2 DEF InOrder
    <2>5. (\A v \in Workers : s \notin had[v]) /\ (\A c \in closing : c.sid # s)
        BY <2>2 DEF ToldInv, Known
    <2>6. \A r \in Sids : ses[r].at # "none" => ses'[r] = ses[r]
        BY <2>2
    <2>7. \A r \in online' : ses'[r].at # "none"
        BY <2>2, <2>6, <1>t DEF ToldInv, Known
    <2>8. \A v \in Workers : \A r \in had[v] : ses'[r] = ses[r]
        BY <2>2, <2>5, <1>t
    <2>9. \A c \in closing : ses'[c.sid] = ses[c.sid]
        BY <2>2, <2>5, <1>t DEF Call
    <2>10. Known'
        BY <2>2, <2>7, <2>8, <2>9 DEF ToldInv, Known
    <2>11. Taken' /\ ToldIsClosed'
        BY <2>2, <2>8, KeepsInHand
    <2> QED BY <2>4, <2>10, <2>11 DEF ToldInv
<1>15. ASSUME NEW s \in Sids, Disconnect(s) PROVE ToldInv'
    <2> DEFINE w == Entry[s]
               m == [kind |-> "close", sid |-> s]
    <2>1. /\ w \in Workers /\ m \in Msg /\ m.kind = "close" /\ m.sid = s
          /\ inbox'[w] = Append(inbox[w], m) /\ \A v \in Workers \ {w} : inbox'[v] = inbox[v]
        BY <1>15, TellsType, Facts DEF Disconnect, Msg
    <2>2. /\ ses[s].at # "none" /\ online' = online \ {s} /\ main' = "open"
          /\ UNCHANGED <<thread, ses, closing, left, had>>
        BY <1>15 DEF Disconnect, ToldInv, Known
    <2> HIDE DEF w, m
    <2>3. thread[w] # "dead" => \A k \in DOMAIN inbox'[w] : Waits(w, k)'
        BY <2>1, <2>2, BehindOthers DEF ToldInv, InOrder
    <2>4. InOrder'
        <3>1. \A v \in Workers \ {w} : thread[v] # "dead" => \A k \in DOMAIN inbox'[v] : Waits(v, k)'
            BY <2>1, <2>2, OthersWait
        <3> QED BY <2>2, <2>3, <3>1 DEF InOrder
    <2> QED BY <2>2, <2>4 DEF ToldInv, Known, Taken, InHand, ToldIsClosed
<1>16. ASSUME NEW s \in Sids, NEW u \in Users, LogIn(s, u) PROVE ToldInv'
    <2>1. /\ \A r \in Sids : ses'[r].at = ses[r].at
          /\ UNCHANGED <<main, thread, inbox, online, closing, left, had>>
        BY <1>16, LogInType DEF LogIn, ports
    <2>2. InOrder'
        BY <2>1, SesGoOn
    <2>3. Known'
        BY <2>1, <1>t DEF ToldInv, Known, Call
    <2>4. Taken' /\ ToldIsClosed'
        BY <2>1, <1>t, KeepsInHand
    <2> QED BY <2>2, <2>3, <2>4 DEF ToldInv
<1>17. ASSUME NEW c \in closing, Flushed(c) PROVE ToldInv'
    <2>1. /\ c.sid \in Sids /\ ses[c.sid].at \in {"in", "gone"} /\ closing' = closing \ {c}
          /\ ses'[c.sid].at = "gone" /\ \A r \in Sids \ {c.sid} : ses'[r] = ses[r]
          /\ UNCHANGED <<main, thread, inbox, online, left, had>>
        BY <1>17, <1>t, OneSes DEF Flushed, ports, Call, ToldInv, Known
    <2>2. InOrder'
        BY <2>1, SesGoOn
    <2>3. Known'
        BY <2>1, <1>t DEF ToldInv, Known, Call
    <2>4. \A w \in Workers : \A s \in had[w] : InHand(w, s) => InHand(w, s)'
        BY <2>1, <1>t DEF InHand
    <2> QED BY <2>1, <2>2, <2>3, <2>4, <1>t DEF ToldInv, Taken, ToldIsClosed
<1>18. ASSUME NEW s \in wiping, Wipe(s) PROVE ToldInv'
    BY <1>18, QuietTold DEF Wipe, ports
<1> QED BY <1>1, <1>2, <1>3, <1>4, <1>5, <1>6, <1>7, <1>8, <1>9, <1>10, <1>11, <1>12, <1>13, <1>14,
           <1>15, <1>16, <1>17, <1>18 DEF Next, Hear, Take, Replies

\* A worker that says that it is done has closed all that it had when it was told to
\* end, whatever closes meanwhile and whichever threads fail (servicebase.ts:75).
THEOREM DoneIsClosed == Spec => []ToldIsClosed
<1>1. TInv /\ ToldInv /\ [Next]_vars => ToldInv'
    <2>1. ToldInv /\ UNCHANGED vars => ToldInv'
        BY DEF vars, inside, ports, ToldInv, InOrder, Waits, Known, Taken, InHand, ToldIsClosed
    <2> QED BY <2>1, StepTold
<1>2. ToldInv => ToldIsClosed
    BY DEF ToldInv
<1> QED BY <1>1, <1>2, InitTypes, StepTypes, InitTold, PTL DEF Spec
=============================================================================
