--------------------------- MODULE ChainSync_proofs ---------------------------
(***************************************************************************)
(* Proofs about ChainSync, for every chain, batch size and number of       *)
(* faults and outages: types, that nothing is skipped, the record is true  *)
(* and the order of the chain is kept until the watcher's Redis clients    *)
(* lose Redis for the first time, that monitor and watcher implement       *)
(* ChainFeed, and that a fault or an outage costs one repetition of a      *)
(* transaction at most.                                                    *)
(***************************************************************************)
EXTENDS ChainSync, SequenceTheorems, FiniteSetTheorems, TLAPS

Stages == {"check", "apply", "insert", "ok", "error"}
Busy == {"check", "apply", "insert"}
Handlers == [id : Nat, at : Stages, left : Seq(Watched), heard : BOOLEAN]
WellTyped(H) == H \subseteq Handlers /\ \A h \in H : h.at \in Busy => h.left # <<>>

\* One handler at most is listened to, and only while the monitor waits.
Listening ==
    \A g \in handlers : g.heard =>
        sync.at = "wait" /\ \A h \in handlers : h.heard => g = h

\* A non-empty sequence is its head and its tail.
LEMMA Split ==
    ASSUME NEW s \in Seq(Watched), s # <<>>
    PROVE  /\ Head(s) \in Watched
           /\ Tail(s) \in Seq(Watched)
           /\ \A i \in 1..Len(s) :
                 s[i] = Head(s) \/ \E j \in 1..Len(Tail(s)) : Tail(s)[j] = s[i]
<1>1. /\ Head(s) \in Watched
      /\ Tail(s) \in Seq(Watched)
      /\ Len(Tail(s)) = Len(s) - 1
      /\ \A j \in 1..Len(Tail(s)) : Tail(s)[j] = s[j + 1]
      /\ Head(s) = s[1]
  BY HeadTailProperties
<1>2. Len(s) \in Nat
  BY LenProperties
<1>3. ASSUME NEW i \in 1..Len(s), i # 1
      PROVE  i - 1 \in 1..Len(Tail(s)) /\ Tail(s)[i - 1] = s[i]
  BY <1>1, <1>2, <1>3
<1>. QED
  BY <1>1, <1>3

-----------------------------------------------------------------------------
\* Steps that several actions share keep the handlers' type.

LEMMA BecomesType ==
    ASSUME WellTyped(handlers), NEW h \in handlers,
           NEW at \in Stages, NEW left \in Seq(Watched),
           at \in Busy => left # <<>>,
           Becomes(h, at, left)
    PROVE  WellTyped(handlers')
  BY DEF WellTyped, Becomes, Handlers

LEMMA GoOnType ==
    ASSUME WellTyped(handlers), NEW h \in handlers, h.at \in Busy, GoOn(h)
    PROVE  WellTyped(handlers')
<1>1. h.left \in Seq(Watched) /\ h.left # <<>>
  BY DEF WellTyped, Handlers
<1>2. Tail(h.left) \in Seq(Watched)
  BY <1>1, Split
<1>. QED
  BY <1>2, BecomesType DEF GoOn, Stages, Busy

LEMMA UnheardType ==
    ASSUME WellTyped(handlers)
    PROVE  WellTyped(Unheard)
  BY DEF WellTyped, Unheard, Handlers

LEMMA HeadType ==
    ASSUME WellTyped(handlers), NEW h \in handlers, h.at \in Busy
    PROVE  Head(h.left) \in Watched
  BY Split DEF WellTyped, Handlers

\* TypeOK, with the handlers' part named.
LEMMA TypeParts ==
    TypeOK <=> /\ {tip, height, stored} \subseteq (First - 1)..Last
               /\ sync \in [at : {"idle", "post", "wait"}, batch : Seq(Watched),
                            last : (First - 1)..Last, tries : 0..(MaxTries - 1)]
               /\ sync.at # "idle" => sync.batch # <<>>
               /\ WellTyped(handlers)
               /\ recorded \subseteq Watched
               /\ applied \in [Blocks -> Nat]
               /\ ready \in BOOLEAN
               /\ faults \in 0..MaxFaults
               /\ outages \in 0..MaxOutages
  BY DEF TypeOK, WellTyped, Handlers, Stages, Busy

\* The batch of a fetch holds the watched blocks it is sorted from.
LEMMA Batch ==
    ASSUME NEW S \in SUBSET Watched, S # {}, NEW q \in Sorted(S)
    PROVE  /\ q \in Seq(Watched) /\ q # <<>>
           /\ \A n \in S : \E i \in 1..Len(q) : q[i] = n
<1>1. IsFiniteSet(Blocks)
  BY FS_Interval, SyncAssumption DEF Blocks
<1>2. IsFiniteSet(S)
  BY <1>1, FS_Subset DEF Watched
<1>3. Cardinality(S) \in Nat
  BY <1>2, FS_CardinalityType
<1>4. q \in [1..Cardinality(S) -> S] /\ \A n \in S : \E i \in DOMAIN q : q[i] = n
  BY DEF Sorted
<1>5. q \in Seq(Watched) /\ DOMAIN q = 1..Len(q)
  <2>1. q \in [1..Cardinality(S) -> Watched]
    BY <1>4
  <2>. QED
    BY <2>1, <1>3, SeqDef, LenProperties
<1>6. q # <<>>
  BY <1>4, <1>5
<1>. QED
  BY <1>4, <1>5, <1>6

LEMMA Numbers ==
    First \in Int /\ Last \in Int /\ First - 1 <= Last /\ MaxTries \in Nat \ {0} /\ MaxFaults \in Nat
  BY SyncAssumption

LEMMA FetchType ==
    ASSUME TypeOK, Fetch
    PROVE  TypeOK'
<1>1. PICK last \in Got :
         IF Got \cap Watched = {}
         THEN height' = last /\ UNCHANGED sync
         ELSE /\ \E q \in Sorted(Got \cap Watched) :
                     sync' = [at |-> "post", batch |-> q, last |-> last, tries |-> 0]
              /\ UNCHANGED height
  BY DEF Fetch
<1>2. last \in (First - 1)..Last
  BY Numbers DEF Got, Blocks
<1>3. height' \in (First - 1)..Last
  BY <1>1, <1>2, TypeParts
<1>4. /\ sync' \in [at : {"idle", "post", "wait"}, batch : Seq(Watched),
                    last : (First - 1)..Last, tries : 0..(MaxTries - 1)]
      /\ sync'.at # "idle" => sync'.batch # <<>>
  <2>1. CASE Got \cap Watched = {}
    BY <2>1, <1>1, TypeParts
  <2>2. CASE Got \cap Watched # {}
    <3>1. PICK q \in Sorted(Got \cap Watched) :
             sync' = [at |-> "post", batch |-> q, last |-> last, tries |-> 0]
      BY <2>2, <1>1
    <3>2. q \in Seq(Watched) /\ q # <<>>
      BY <2>2, <3>1, Batch
    <3>3. 0 \in 0..(MaxTries - 1)
      BY Numbers
    <3>. QED
      BY <3>1, <3>2, <3>3, <1>2
  <2>. QED
    BY <2>1, <2>2
<1>. QED
  BY <1>3, <1>4 DEF Fetch, TypeOK

LEMMA IdleType ==
    Idle \in [at : {"idle", "post", "wait"}, batch : Seq(Watched),
              last : (First - 1)..Last, tries : 0..(MaxTries - 1)]
  BY Numbers, EmptySeq DEF Idle

LEMMA PostType ==
    ASSUME TypeOK, Post
    PROVE  TypeOK'
<1>1. PICK id \in 0..Cardinality(handlers) :
         handlers' = handlers \cup
            {[id |-> id, at |-> "check", left |-> sync.batch, heard |-> TRUE]}
  BY DEF Post
<1>2. WellTyped(handlers')
  <2>1. WellTyped(handlers)
    BY TypeParts
  <2>2. sync.batch \in Seq(Watched) /\ sync.batch # <<>> /\ id \in Nat
    BY DEF Post, TypeOK
  <2>3. PICK r : r = [id |-> id, at |-> "check", left |-> sync.batch, heard |-> TRUE]
    OBVIOUS
  <2>4. r \in Handlers /\ r.left # <<>>
    BY <2>2, <2>3 DEF Handlers, Stages
  <2>. QED
    BY <1>1, <2>1, <2>3, <2>4 DEF WellTyped
<1>3. sync' \in [at : {"idle", "post", "wait"}, batch : Seq(Watched),
                 last : (First - 1)..Last, tries : 0..(MaxTries - 1)]
      /\ sync'.batch # <<>>
  BY DEF Post, TypeOK
<1>. QED
  BY <1>2, <1>3, TypeParts DEF TypeOK, WellTyped, Handlers, Stages, Busy, Post

\* Rejected, MonitorRestart and WatcherRestart leave nobody listening.
LEMMA FaultType ==
    ASSUME TypeOK, Fault, faults \in 0..MaxFaults
    PROVE  faults' \in 0..MaxFaults
<1>1. outages \in Nat
  BY SyncAssumption DEF TypeOK
<1>. QED
  BY <1>1, Numbers DEF Fault

LEMMA RejectedType ==
    ASSUME TypeOK, Rejected
    PROVE  TypeOK'
<1>1. WellTyped(handlers')
  BY UnheardType, TypeParts DEF Rejected
<1>2. faults' \in 0..MaxFaults
  BY FaultType, TypeParts DEF Rejected
<1>3. sync' = Idle /\ Idle.at = "idle"
  BY DEF Rejected, Idle
<1>. QED
  BY <1>1, <1>2, <1>3, IdleType, TypeParts DEF TypeOK, WellTyped, Handlers, Stages, Busy, Rejected

LEMMA MonitorRestartType ==
    ASSUME TypeOK, MonitorRestart
    PROVE  TypeOK'
<1>1. WellTyped(handlers')
  BY UnheardType, TypeParts DEF MonitorRestart
<1>2. faults' \in 0..MaxFaults
  BY FaultType, TypeParts DEF MonitorRestart
<1>3. sync' = Idle /\ Idle.at = "idle"
  BY DEF MonitorRestart, Idle
<1>. QED
  BY <1>1, <1>2, <1>3, IdleType, TypeParts DEF TypeOK, WellTyped, Handlers, Stages, Busy, MonitorRestart

LEMMA WatcherRestartType ==
    ASSUME TypeOK, WatcherRestart
    PROVE  TypeOK'
<1>1. WellTyped(handlers')
  BY DEF WatcherRestart, WellTyped
<1>2. faults' \in 0..MaxFaults
  BY FaultType, TypeParts DEF WatcherRestart
<1>3. sync' = Idle \/ sync' = sync
  BY DEF WatcherRestart
<1>4. Idle.at = "idle"
  BY DEF Idle
<1>. QED
  BY <1>1, <1>2, <1>3, <1>4, IdleType, TypeParts DEF TypeOK, WellTyped, Handlers, Stages, Busy, WatcherRestart

LEMMA AnsweredType ==
    ASSUME TypeOK, Listening, NEW h \in handlers, Answered(h)
    PROVE  TypeOK'
<1>1. WellTyped(handlers')
  BY TypeParts DEF Answered, WellTyped
<1>2. height' \in (First - 1)..Last
  BY TypeParts DEF Answered
<1>3. /\ sync' \in [at : {"idle", "post", "wait"}, batch : Seq(Watched),
                    last : (First - 1)..Last, tries : 0..(MaxTries - 1)]
      /\ sync'.at # "idle" => sync'.batch # <<>>
  <2>1. CASE sync' = sync
    BY <2>1, TypeParts
  <2>2. CASE sync' = Idle
    BY <2>2, IdleType DEF Idle
  <2>3. CASE h.heard /\ h.at = "error" /\ sync.tries + 1 < MaxTries
    <3>1. sync' = [sync EXCEPT !.at = "post", !.tries = @ + 1]
      BY <2>3 DEF Answered
    <3>2. sync.batch # <<>>
      BY <2>3 DEF TypeOK, Listening
    <3>3. sync.tries + 1 \in 0..(MaxTries - 1)
      BY <2>3, TypeParts, Numbers
    <3>. QED
      BY <3>1, <3>2, <3>3, TypeParts
  <2>. QED
    BY <2>1, <2>2, <2>3 DEF Answered
<1>. QED
  BY <1>1, <1>2, <1>3, TypeParts DEF TypeOK, WellTyped, Handlers, Stages, Busy, Answered

\* The handlers' own steps: what they do to the handlers, then the rest.
LEMMA CheckType ==
    ASSUME TypeOK, NEW h \in handlers, Check(h)
    PROVE  TypeOK'
<1>1. WellTyped(handlers)
  BY TypeParts
<1>2. h.left \in Seq(Watched) /\ h.left # <<>>
  BY <1>1 DEF Check, WellTyped, Handlers, Busy
<1>3. WellTyped(handlers')
  BY <1>1, <1>2, GoOnType, BecomesType DEF Check, Stages, Busy
<1>. QED
  BY <1>3, TypeParts DEF TypeOK, WellTyped, Handlers, Stages, Busy, Check, monitor

LEMMA ApplyType ==
    ASSUME TypeOK, NEW h \in handlers, Apply(h)
    PROVE  TypeOK'
<1>1. WellTyped(handlers)
  BY TypeParts
<1>2. h.left \in Seq(Watched) /\ h.left # <<>>
  BY <1>1 DEF Apply, WellTyped, Handlers, Busy
<1>3. WellTyped(handlers')
  BY <1>1, <1>2, BecomesType DEF Apply, Stages, Busy
<1>4. Head(h.left) \in Blocks /\ applied \in [Blocks -> Nat]
  BY <1>1, HeadType, TypeParts DEF Apply, Busy, Watched
<1>5. applied' \in [Blocks -> Nat]
  BY <1>4 DEF Apply
<1>. QED
  BY <1>3, <1>5, TypeParts DEF TypeOK, WellTyped, Handlers, Stages, Busy, Apply, monitor

LEMMA InsertType ==
    ASSUME TypeOK, NEW h \in handlers, Insert(h)
    PROVE  TypeOK'
<1>1. WellTyped(handlers)
  BY TypeParts
<1>2. h.at \in Busy
  BY DEF Insert, Busy
<1>3. WellTyped(handlers')
  BY <1>1, <1>2, GoOnType DEF Insert
<1>4. recorded' \subseteq Watched
  BY <1>1, <1>2, HeadType, TypeParts DEF Insert
<1>. QED
  BY <1>3, <1>4, TypeParts DEF TypeOK, WellTyped, Handlers, Stages, Busy, Insert, monitor

LEMMA FailsType ==
    ASSUME TypeOK, NEW h \in handlers, Fails(h)
    PROVE  TypeOK'
<1>1. WellTyped(handlers)
  BY TypeParts
<1>2. h.left \in Seq(Watched)
  BY <1>1 DEF WellTyped, Handlers
<1>3. WellTyped(handlers')
  BY <1>1, <1>2, BecomesType DEF Fails, Stages, Busy
<1>4. faults' \in 0..MaxFaults
  BY FaultType, TypeParts DEF Fails
<1>. QED
  BY <1>3, <1>4, TypeParts DEF TypeOK, WellTyped, Handlers, Stages, Busy, Fails, monitor

LEMMA RestType ==
    ASSUME TypeOK, Save \/ Grow \/ Disconnected \/ Reconnected \/ UNCHANGED vars
    PROVE  TypeOK'
<1>1. CASE Save
  BY <1>1, TypeParts DEF TypeOK, Save
<1>2. CASE Grow
  BY <1>2, TypeParts, Numbers DEF TypeOK, Grow, monitor
<1>3. CASE Disconnected
  <2>1. MaxOutages \in Nat /\ outages \in 0..MaxOutages
    BY SyncAssumption, TypeParts
  <2>2. outages' \in 0..MaxOutages
    BY <1>3, <2>1 DEF Disconnected
  <2>. QED
    BY <1>3, <2>2, TypeParts DEF TypeOK, Disconnected, monitor
<1>4. CASE Reconnected
  BY <1>4, TypeParts DEF TypeOK, Reconnected, monitor
<1>5. CASE UNCHANGED vars
  BY <1>5 DEF TypeOK, vars
<1>. QED
  BY <1>1, <1>2, <1>3, <1>4, <1>5

-----------------------------------------------------------------------------
\* Who is listened to.

LEMMA BecomesListening ==
    ASSUME TypeOK, Listening, NEW h \in handlers, NEW at, NEW left,
           Becomes(h, at, left), UNCHANGED sync
    PROVE  Listening'
<1>1. PICK r : r = [h EXCEPT !.at = at, !.left = left]
  OBVIOUS
<1>2. r.heard = h.heard
  BY <1>1 DEF TypeOK
<1>3. handlers' = (handlers \ {h}) \cup {r}
  BY <1>1 DEF Becomes
<1>. QED
  BY <1>2, <1>3 DEF Listening

LEMMA NobodyListening ==
    ASSUME TypeOK, handlers' = Unheard
    PROVE  Listening'
<1>1. \A g \in Unheard : g.heard = FALSE
  BY DEF Unheard, TypeOK
<1>. QED
  BY <1>1 DEF Listening

LEMMA StepListening ==
    ASSUME TypeOK, Listening, Next
    PROVE  Listening'
<1>1. CASE Fetch
  BY <1>1 DEF Fetch, Listening
<1>2. CASE Post
  <2>1. PICK id : handlers' = handlers \cup
             {[id |-> id, at |-> "check", left |-> sync.batch, heard |-> TRUE]}
    BY <1>2 DEF Post
  <2>2. \A g \in handlers : ~g.heard
    BY <1>2 DEF Post, Listening
  <2>3. sync'.at = "wait"
    BY <1>2 DEF Post, TypeOK
  <2>. QED
    BY <2>1, <2>2, <2>3 DEF Listening
<1>3. CASE Rejected \/ MonitorRestart
  BY <1>3, NobodyListening DEF Rejected, MonitorRestart
<1>4. CASE WatcherRestart
  BY <1>4 DEF WatcherRestart, Listening
<1>5. CASE Save \/ Grow \/ Disconnected \/ Reconnected
  BY <1>5 DEF Save, Grow, Disconnected, Reconnected, monitor, Listening
<1>6. ASSUME NEW h \in handlers, Check(h) \/ Apply(h) \/ Insert(h) \/ Fails(h)
      PROVE  Listening'
  <2>1. UNCHANGED sync
    BY <1>6 DEF Check, Apply, Insert, Fails, monitor
  <2>. QED
    BY <1>6, <2>1, BecomesListening DEF Check, Apply, Insert, Fails, GoOn
<1>7. ASSUME NEW h \in handlers, Answered(h)
      PROVE  Listening'
  BY <1>7 DEF Answered, Listening
<1>. QED
  BY <1>1, <1>2, <1>3, <1>4, <1>5, <1>6, <1>7 DEF Next, Handle

-----------------------------------------------------------------------------
\* TypeCorrect: every variable keeps its type (TypeOK).
THEOREM TypeCorrect == Spec => [](TypeOK /\ Listening)
<1>1. Init => TypeOK /\ Listening
  BY Numbers, SyncAssumption, IdleType, EmptySeq DEF Init, TypeOK, Listening, Idle
<1>2. TypeOK /\ Listening /\ [Next]_vars => TypeOK' /\ Listening'
  <2>1. ASSUME TypeOK, Listening, Next
        PROVE  TypeOK'
    BY <2>1, FetchType, PostType, RejectedType, MonitorRestartType, WatcherRestartType,
       AnsweredType, CheckType, ApplyType, InsertType, FailsType, RestType DEF Next, Handle
  <2>2. ASSUME TypeOK, Listening, UNCHANGED vars
        PROVE  TypeOK' /\ Listening'
    BY <2>2, RestType DEF Listening, vars
  <2>. QED
    BY <2>1, <2>2, StepListening
<1>. QED
  BY <1>1, <1>2, PTL DEF Spec

-----------------------------------------------------------------------------
(***************************************************************************)
(* Nothing is skipped.  What the monitor is about to move past was sent;   *)
(* what was sent is recorded or still in the hands of the handler it       *)
(* listens to; and that handler has nothing left when it answers OK.  CInv *)
(* says so of a state no outage led to; the heights are in order always.   *)
(***************************************************************************)
In(n, s) == \E i \in 1..Len(s) : s[i] = n

Connected == ready = TRUE
Heights == stored <= height /\ (sync.at # "idle" => height < sync.last)
Covered == \A n \in Watched : n <= height => n \in recorded
Sent == sync.at # "idle" =>
    \A n \in Watched : height < n /\ n <= sync.last => In(n, sync.batch)
Replying ==
    \A h \in handlers :
        /\ h.heard /\ h.at # "error" =>
              \A n \in Watched : In(n, sync.batch) => n \in recorded \/ In(n, h.left)
        /\ h.at = "ok" => h.left = <<>>
Applied == \A h \in handlers : h.at = "insert" => applied[Head(h.left)] > 0

CInv == /\ outages = 0 /\ TypeOK /\ Listening
        /\ Connected /\ Heights /\ Covered /\ Sent /\ Replying
        /\ RecordedIsApplied /\ Applied

LEMMA FetchSafe ==
    ASSUME CInv, Fetch
    PROVE  Heights' /\ Covered' /\ Sent' /\ Replying'
<1>1. PICK last \in Got :
         /\ IF Got \cap Watched = {}
            THEN height' = last /\ UNCHANGED sync
            ELSE /\ \E q \in Sorted(Got \cap Watched) :
                        sync' = [at |-> "post", batch |-> q, last |-> last, tries |-> 0]
                 /\ UNCHANGED height
  BY DEF Fetch
<1>2. /\ last \in Int /\ height \in Int /\ stored \in Int /\ height < last
      /\ \A n \in Watched : height < n /\ n <= last => n \in Got
  <2>1. tip \in Int /\ height \in Int /\ stored \in Int /\ MaxBatch \in Int
    BY Numbers, SyncAssumption, TypeParts DEF CInv
  <2>2. last \in Int /\ height < last /\ last <= tip /\ last <= height + MaxBatch
    BY Numbers DEF Got, Blocks
  <2>3. \A n \in Watched : n \in Int /\ n \in Blocks /\ Kind[n] # "empty"
    BY Numbers DEF Watched, Blocks
  <2>4. \A n \in Watched : height < n /\ n <= last => n \in Got
    BY <2>1, <2>2, <2>3 DEF Got
  <2>. QED
    BY <2>1, <2>2, <2>4
<1>3. sync.at = "idle" /\ UNCHANGED <<stored, handlers, recorded>>
  BY DEF Fetch
<1>4. \A h \in handlers : ~h.heard
  BY <1>3 DEF CInv, Listening
<1>5. Replying'
  BY <1>3, <1>4 DEF CInv, Replying
<1>6. CASE Got \cap Watched = {}
  <2>1. height' = last /\ sync' = sync
    BY <1>1, <1>6
  <2>2. Heights' /\ Sent'
    BY <2>1, <1>2, <1>3 DEF Heights, Sent, CInv
  <2>3. \A n \in Watched : n <= last => n <= height
    BY <1>2, <1>6, Numbers DEF Watched, Blocks
  <2>4. Covered'
    BY <2>1, <2>3, <1>3 DEF Covered, CInv
  <2>. QED
    BY <2>2, <2>4, <1>5
<1>7. CASE Got \cap Watched # {}
  <2>1. PICK q \in Sorted(Got \cap Watched) :
           sync' = [at |-> "post", batch |-> q, last |-> last, tries |-> 0]
    BY <1>1, <1>7
  <2>2. height' = height /\ sync'.last = last /\ sync'.batch = q
    BY <1>1, <1>7, <2>1
  <2>3. \A n \in Got \cap Watched : In(n, q)
    BY <1>7, Batch DEF In
  <2>4. Sent'
    BY <2>2, <2>3, <1>2 DEF Sent
  <2>5. Heights' /\ Covered'
    BY <2>2, <1>2, <1>3 DEF CInv, Heights, Covered
  <2>. QED
    BY <2>4, <2>5, <1>5
<1>. QED
  BY <1>6, <1>7

LEMMA PostSafe ==
    ASSUME CInv, Post
    PROVE  Heights' /\ Covered' /\ Sent' /\ Replying' /\ Applied'
<1>1. PICK id, r :
         /\ r = [id |-> id, at |-> "check", left |-> sync.batch, heard |-> TRUE]
         /\ handlers' = handlers \cup {r}
  BY DEF Post
<1>2. /\ sync'.at = "wait" /\ sync'.batch = sync.batch /\ sync'.last = sync.last
      /\ sync.at = "post"
      /\ UNCHANGED <<height, stored, recorded, applied>>
  BY DEF Post, CInv, TypeOK
<1>3. r.at = "check" /\ r.left = sync.batch
  BY <1>1
<1>4. Heights' /\ Covered' /\ Sent'
  BY <1>2 DEF CInv, Heights, Covered, Sent
<1>5. Replying' /\ Applied'
  BY <1>1, <1>2, <1>3 DEF CInv, Replying, Applied
<1>. QED
  BY <1>4, <1>5

\* Nobody is listened to any more, and the monitor begins anew.
LEMMA DeafSafe ==
    ASSUME CInv, handlers' = Unheard, sync' = Idle,
           height' \in {height, stored}, UNCHANGED <<stored, recorded, applied>>
    PROVE  Heights' /\ Covered' /\ Sent' /\ Replying' /\ Applied'
<1>1. height \in Int /\ stored \in Int /\ \A n \in Watched : n \in Int
  BY TypeParts, Numbers DEF CInv, Watched, Blocks
<1>2. sync'.at = "idle"
  BY DEF Idle
<1>3. Heights' /\ Covered' /\ Sent'
  BY <1>1, <1>2 DEF CInv, Heights, Covered, Sent
<1>4. \A g \in Unheard : /\ g.heard = FALSE
                        /\ \E h \in handlers : g.at = h.at /\ g.left = h.left
  BY DEF CInv, TypeOK, Unheard
<1>5. Replying' /\ Applied'
  BY <1>4 DEF CInv, Replying, Applied
<1>. QED
  BY <1>3, <1>5

LEMMA AnsweredSafe ==
    ASSUME CInv, NEW h \in handlers, Answered(h)
    PROVE  Heights' /\ Covered' /\ Sent' /\ Replying' /\ Applied'
<1>1. handlers' = handlers \ {h} /\ UNCHANGED <<stored, recorded, applied>>
  BY DEF Answered
<1>2. Applied'
  BY <1>1 DEF CInv, Applied
<1>3. height \in Int /\ stored \in Int /\ sync.last \in Int
      /\ \A n \in Watched : n \in Int
  BY TypeParts, Numbers DEF CInv, Watched, Blocks
<1>4. CASE ~h.heard
  <2>1. UNCHANGED <<height, sync>>
    BY <1>4 DEF Answered
  <2>. QED
    BY <1>1, <1>2, <2>1 DEF CInv, Heights, Covered, Sent, Replying
<1>5. CASE h.heard
  <2>1. sync.at = "wait" /\ \A g \in handlers' : ~g.heard
    BY <1>1, <1>5 DEF CInv, Listening
  <2>2. Replying'
    BY <1>1, <2>1 DEF CInv, Replying
  <2>3. CASE h.at = "ok"
    <3>1. height' = sync.last /\ sync'.at = "idle"
      BY <1>5, <2>3 DEF Answered, Idle
    <3>2. h.left = <<>>
      BY <2>3 DEF CInv, Replying
    <3>3. \A n \in Watched : ~In(n, h.left)
      BY <3>2 DEF In
    <3>4. \A n \in Watched : In(n, sync.batch) => n \in recorded
      BY <1>5, <2>3, <3>3 DEF CInv, Replying
    <3>5. \A n \in Watched : n <= sync.last => n \in recorded
      BY <1>3, <2>1, <3>4 DEF CInv, Covered, Sent
    <3>6. stored <= sync.last
      BY <1>3, <2>1 DEF CInv, Heights
    <3>. QED
      BY <1>1, <1>2, <2>2, <3>1, <3>5, <3>6 DEF Heights, Covered, Sent
  <2>4. CASE h.at # "ok"
    <3>1. height' = height
      BY <1>5, <2>4 DEF Answered
    <3>2. sync'.at = "idle" \/ (sync'.last = sync.last /\ sync'.batch = sync.batch)
      <4>1. sync' = [sync EXCEPT !.at = "post", !.tries = @ + 1] \/ sync' = Idle
        BY <1>5, <2>4 DEF Answered
      <4>2. CASE sync' = Idle
        BY <4>2 DEF Idle
      <4>3. CASE sync' = [sync EXCEPT !.at = "post", !.tries = @ + 1]
        BY <4>3 DEF CInv, TypeOK
      <4>. QED
        BY <4>1, <4>2, <4>3
    <3>. QED
      BY <1>1, <1>2, <2>1, <2>2, <3>1, <3>2 DEF CInv, Heights, Covered, Sent
  <2>. QED
    BY <2>3, <2>4
<1>. QED
  BY <1>4, <1>5

\* A step of handler h: r is what it becomes.
LEMMA HandlerSafe ==
    ASSUME CInv, NEW h \in handlers, NEW at \in Stages, NEW left, Becomes(h, at, left),
           UNCHANGED sync, UNCHANGED height,
           recorded \subseteq recorded',
           h.heard /\ at # "error" => h.at # "error",
           \A n \in Watched : In(n, h.left) => n \in recorded' \/ In(n, left),
           at = "ok" => left = <<>>
    PROVE  Replying'
<1>1. PICK r : r = [h EXCEPT !.at = at, !.left = left]
  OBVIOUS
<1>2. r.heard = h.heard /\ r.at = at /\ r.left = left
  BY <1>1 DEF CInv, TypeOK
<1>3. handlers' = (handlers \ {h}) \cup {r}
  BY <1>1 DEF Becomes
<1>4. ASSUME NEW g \in handlers', g # r
      PROVE  g \in handlers
  BY <1>3, <1>4
<1>5. ASSUME NEW g \in handlers', g.heard, g.at # "error",
             NEW n \in Watched, In(n, sync'.batch)
      PROVE  n \in recorded' \/ In(n, g.left)
  <2>1. CASE g = r
    <3>1. n \in recorded \/ In(n, h.left)
      BY <1>2, <1>5, <2>1 DEF CInv, Replying
    <3>. QED
      BY <3>1, <2>1, <1>2
  <2>2. CASE g # r
    BY <1>4, <1>5, <2>2 DEF CInv, Replying
  <2>. QED
    BY <2>1, <2>2
<1>6. ASSUME NEW g \in handlers', g.at = "ok"
      PROVE  g.left = <<>>
  BY <1>2, <1>4, <1>6 DEF CInv, Replying
<1>. QED
  BY <1>5, <1>6 DEF Replying

LEMMA GoOnSafe ==
    ASSUME CInv, NEW h \in handlers, h.at \in Busy, GoOn(h), UNCHANGED sync, UNCHANGED height,
           recorded \subseteq recorded', Head(h.left) \in recorded'
    PROVE  Replying'
<1>1. h.left \in Seq(Watched) /\ h.left # <<>>
  BY DEF CInv, TypeOK, Busy
<1>2. \A n \in Watched : In(n, h.left) => n = Head(h.left) \/ In(n, Tail(h.left))
  BY <1>1, Split DEF In
<1>. QED
  BY <1>2, HandlerSafe DEF GoOn, Busy, Stages

LEMMA BecomesApplied ==
    ASSUME CInv, NEW h \in handlers, NEW at, NEW left, Becomes(h, at, left),
           applied' \in [Blocks -> Nat], \A n \in Blocks : applied'[n] >= applied[n],
           at = "insert" => applied'[Head(left)] > 0
    PROVE  Applied'
<1>1. PICK r : r = [h EXCEPT !.at = at, !.left = left]
  OBVIOUS
<1>2. r.at = at /\ r.left = left
  BY <1>1 DEF CInv, TypeOK
<1>3. handlers' = (handlers \ {h}) \cup {r}
  BY <1>1 DEF Becomes
<1>4. ASSUME NEW g \in handlers, g.at = "insert"
      PROVE  applied'[Head(g.left)] > 0
  <2>1. Head(g.left) \in Blocks
    BY <1>4, HeadType, TypeParts DEF CInv, Busy, Watched
  <2>2. applied[Head(g.left)] > 0 /\ applied[Head(g.left)] \in Nat
    BY <1>4, <2>1 DEF CInv, Applied, TypeOK
  <2>. QED
    BY <2>1, <2>2
<1>. QED
  BY <1>2, <1>3, <1>4 DEF Applied

LEMMA CheckSafe ==
    ASSUME CInv, NEW h \in handlers, Check(h)
    PROVE  Replying' /\ Applied'
<1>1. h.at = "check" /\ ready = TRUE /\ UNCHANGED <<height, sync, recorded, applied>>
  BY DEF Check, CInv, Connected, monitor
<1>2. applied' \in [Blocks -> Nat] /\ \A n \in Blocks : applied'[n] >= applied[n]
  BY <1>1 DEF CInv, TypeOK
<1>3. CASE Head(h.left) \in recorded
  <2>1. GoOn(h)
    BY <1>1, <1>3 DEF Check
  <2>. QED
    BY <1>1, <1>2, <1>3, <2>1, GoOnSafe, BecomesApplied DEF GoOn, Busy
<1>4. CASE Head(h.left) \notin recorded
  <2>1. Becomes(h, "apply", h.left)
    BY <1>4 DEF Check
  <2>. QED
    BY <1>1, <1>2, <2>1, HandlerSafe, BecomesApplied DEF Stages
<1>. QED
  BY <1>3, <1>4

LEMMA ApplySafe ==
    ASSUME CInv, NEW h \in handlers, Apply(h)
    PROVE  Replying' /\ Applied' /\ RecordedIsApplied'
<1>1. h.at = "apply" /\ Becomes(h, "insert", h.left) /\ UNCHANGED <<height, sync, recorded>>
  BY DEF Apply, monitor
<1>2. Head(h.left) \in Blocks /\ applied \in [Blocks -> Nat]
  BY <1>1, HeadType, TypeParts DEF CInv, Busy, Watched
<1>3. applied' = [applied EXCEPT ![Head(h.left)] = @ + 1]
  BY DEF Apply, CInv, Connected
<1>4. /\ applied' \in [Blocks -> Nat]
      /\ \A n \in Blocks : applied'[n] >= applied[n]
      /\ applied'[Head(h.left)] > 0
  BY <1>2, <1>3
<1>5. Applied'
  BY <1>1, <1>4, BecomesApplied
<1>6. Replying'
  BY <1>1, HandlerSafe DEF Stages
<1>7. RecordedIsApplied'
  <2>1. \A n \in recorded : n \in Blocks /\ applied[n] \in Nat /\ applied[n] > 0
    BY <1>2 DEF CInv, TypeOK, RecordedIsApplied, Watched
  <2>. QED
    BY <1>1, <1>4, <2>1 DEF RecordedIsApplied
<1>. QED
  BY <1>5, <1>6, <1>7

LEMMA InsertSafe ==
    ASSUME CInv, NEW h \in handlers, Insert(h)
    PROVE  Replying' /\ Applied' /\ RecordedIsApplied'
<1>1. h.at = "insert" /\ GoOn(h) /\ UNCHANGED <<height, sync, applied>>
      /\ recorded' = recorded \cup {Head(h.left)}
  BY DEF Insert, monitor, CInv, Connected
<1>2. applied' \in [Blocks -> Nat] /\ \A n \in Blocks : applied'[n] >= applied[n]
  BY <1>1 DEF CInv, TypeOK
<1>3. Replying'
  BY <1>1, GoOnSafe DEF Busy
<1>4. Applied'
  BY <1>1, <1>2, BecomesApplied DEF GoOn
<1>5. RecordedIsApplied'
  BY <1>1 DEF CInv, RecordedIsApplied, Applied
<1>. QED
  BY <1>3, <1>4, <1>5

LEMMA FailsSafe ==
    ASSUME CInv, NEW h \in handlers, Fails(h)
    PROVE  Replying' /\ Applied'
<1>1. Becomes(h, "error", h.left) /\ UNCHANGED <<height, sync, recorded, applied>>
  BY DEF Fails, monitor
<1>2. applied' \in [Blocks -> Nat] /\ \A n \in Blocks : applied'[n] >= applied[n]
  BY <1>1 DEF CInv, TypeOK
<1>. QED
  BY <1>1, <1>2, HandlerSafe, BecomesApplied DEF Stages

\* The steps of the handlers leave the monitor alone and forget no record.
LEMMA MonitorKept ==
    ASSUME CInv, UNCHANGED <<height, stored, sync>>, recorded \subseteq recorded'
    PROVE  Heights' /\ Covered' /\ Sent'
  BY DEF CInv, Heights, Covered, Sent

LEMMA StepSafe ==
    ASSUME CInv, Next, outages' = 0
    PROVE  /\ Connected' /\ Heights' /\ Covered' /\ Sent' /\ Replying'
           /\ RecordedIsApplied' /\ Applied'
<1>1. ready' = ready
  <2>1. outages = 0 /\ ready = TRUE
    BY DEF CInv, Connected
  <2>2. ~Disconnected /\ ~Reconnected
    BY <2>1 DEF Disconnected, Reconnected
  <2>. QED
    BY <2>2 DEF Next, Handle, Fetch, Post, Rejected, Save, MonitorRestart, WatcherRestart,
                Grow, Check, Apply, Insert, Answered, Fails
<1>2. Connected'
  BY <1>1 DEF CInv, Connected
<1>3. CASE Fetch
  <2>1. UNCHANGED <<handlers, recorded, applied>>
    BY <1>3 DEF Fetch
  <2>. QED
    BY <1>2, <1>3, <2>1, FetchSafe DEF CInv, RecordedIsApplied, Applied
<1>4. CASE Post
  <2>1. UNCHANGED <<recorded, applied>>
    BY <1>4 DEF Post
  <2>. QED
    BY <1>2, <1>4, <2>1, PostSafe DEF CInv, RecordedIsApplied
<1>5. CASE Rejected \/ MonitorRestart
  <2>1. /\ handlers' = Unheard /\ sync' = Idle /\ height' \in {height, stored}
        /\ UNCHANGED <<stored, recorded, applied>>
    BY <1>5 DEF Rejected, MonitorRestart
  <2>. QED
    BY <1>2, <2>1, DeafSafe DEF CInv, RecordedIsApplied
<1>6. CASE Save
  <2>1. stored' = height /\ UNCHANGED <<height, sync, handlers, recorded, applied>>
    BY <1>6 DEF Save
  <2>2. height \in Int
    BY TypeParts, Numbers DEF CInv
  <2>. QED
    BY <1>2, <2>1, <2>2
    DEF CInv, Heights, Covered, Sent, Replying, RecordedIsApplied, Applied
<1>7. CASE WatcherRestart
  <2>1. /\ handlers' = {} /\ (sync' = Idle \/ sync' = sync)
        /\ UNCHANGED <<height, stored, recorded, applied>>
    BY <1>7 DEF WatcherRestart
  <2>2. Heights' /\ Covered' /\ Sent'
    BY <2>1 DEF CInv, Heights, Covered, Sent, Idle
  <2>. QED
    BY <1>2, <2>1, <2>2 DEF CInv, Replying, RecordedIsApplied, Applied
<1>8. CASE Grow \/ Disconnected \/ Reconnected
  <2>1. UNCHANGED <<height, stored, sync, handlers, recorded, applied>>
    BY <1>8 DEF Grow, Disconnected, Reconnected, monitor
  <2>. QED
    BY <1>2, <2>1
    DEF CInv, Heights, Covered, Sent, Replying, RecordedIsApplied, Applied
<1>9. ASSUME NEW h \in handlers, Answered(h)
      PROVE  Heights' /\ Covered' /\ Sent' /\ Replying' /\ Applied' /\ RecordedIsApplied'
  <2>1. UNCHANGED <<recorded, applied>>
    BY <1>9 DEF Answered
  <2>. QED
    BY <1>9, <2>1, AnsweredSafe DEF CInv, RecordedIsApplied
<1>10. ASSUME NEW h \in handlers, Check(h) \/ Apply(h) \/ Insert(h) \/ Fails(h)
       PROVE  Heights' /\ Covered' /\ Sent' /\ Replying' /\ Applied' /\ RecordedIsApplied'
  <2>1. UNCHANGED <<height, stored, sync>> /\ recorded \subseteq recorded'
    BY <1>10 DEF Check, Apply, Insert, Fails, monitor
  <2>2. Heights' /\ Covered' /\ Sent'
    BY <2>1, MonitorKept
  <2>3. CASE Check(h) \/ Fails(h)
    <3>1. UNCHANGED <<recorded, applied>>
      BY <2>3 DEF Check, Fails, monitor
    <3>. QED
      BY <2>2, <2>3, <3>1, CheckSafe, FailsSafe DEF CInv, RecordedIsApplied
  <2>4. CASE Apply(h) \/ Insert(h)
    BY <2>2, <2>4, ApplySafe, InsertSafe
  <2>. QED
    BY <1>10, <2>3, <2>4
<1>. QED
  BY <1>2, <1>3, <1>4, <1>5, <1>6, <1>7, <1>8, <1>9, <1>10 DEF Next, Handle

-----------------------------------------------------------------------------
\* Outages are counted and never forgotten.
LEMMA OutagesGrow ==
    ASSUME TypeOK, [Next]_vars
    PROVE  outages' \in {outages, outages + 1} /\ outages \in Nat
<1>1. outages \in Nat
  BY SyncAssumption DEF TypeOK
<1>. QED
  BY <1>1 DEF Next, Handle, vars, Fetch, Post, Rejected, Save, MonitorRestart, WatcherRestart,
              Grow, Disconnected, Reconnected, Check, Apply, Insert, Answered, Fails, Fault

\* With or without Redis the stored height follows the one in memory, and a batch
\* ends beyond it.
LEMMA StepHeights ==
    ASSUME TypeOK, Listening, Heights, [Next]_vars
    PROVE  Heights'
<1>1. height \in Int /\ stored \in Int /\ sync.last \in Int
  BY TypeParts, Numbers
<1>2. CASE Fetch
  <2>1. PICK last \in Got :
           /\ IF Got \cap Watched = {}
              THEN height' = last /\ UNCHANGED sync
              ELSE /\ \E q \in Sorted(Got \cap Watched) :
                          sync' = [at |-> "post", batch |-> q, last |-> last, tries |-> 0]
                   /\ UNCHANGED height
    BY <1>2 DEF Fetch
  <2>2. last \in Int /\ height < last
    BY Numbers DEF Got, Blocks
  <2>3. sync.at = "idle" /\ stored' = stored
    BY <1>2 DEF Fetch
  <2>4. CASE height' = last /\ UNCHANGED sync
    BY <1>1, <2>2, <2>3, <2>4 DEF Heights
  <2>5. CASE height' = height /\ sync'.last = last
    BY <1>1, <2>2, <2>3, <2>5 DEF Heights
  <2>. QED
    BY <2>1, <2>4, <2>5
<1>3. CASE Post
  BY <1>3 DEF Post, Heights, TypeOK
<1>4. CASE Rejected \/ MonitorRestart \/ WatcherRestart
  <2>1. /\ height' \in {height, stored} /\ stored' = stored
        /\ sync' = Idle \/ (sync' = sync /\ height' = height)
    BY <1>4 DEF Rejected, MonitorRestart, WatcherRestart
  <2>2. Idle.at = "idle"
    BY DEF Idle
  <2>. QED
    BY <1>1, <2>1, <2>2 DEF Heights
<1>5. CASE Save
  BY <1>1, <1>5 DEF Save, Heights
<1>6. ASSUME NEW h \in handlers, Answered(h)
      PROVE  Heights'
  <2>1. CASE UNCHANGED <<height, sync>>
    BY <1>6, <2>1 DEF Answered, Heights
  <2>2. CASE ~UNCHANGED <<height, sync>>
    <3>1. sync.at = "wait" /\ stored' = stored /\ h.heard
      BY <1>6, <2>2 DEF Answered, Listening
    <3>2. stored <= height /\ height < sync.last
      BY <3>1 DEF Heights
    <3>3. CASE h.at = "ok"
      BY <1>1, <1>6, <3>1, <3>2, <3>3 DEF Answered, Heights, Idle
    <3>4. CASE h.at # "ok"
      <4>1. height' = height
        BY <1>6, <3>1, <3>4 DEF Answered
      <4>2. sync' = [sync EXCEPT !.at = "post", !.tries = @ + 1] \/ sync' = Idle
        BY <1>6, <3>1, <3>4 DEF Answered
      <4>3. CASE sync' = Idle
        <5>1. sync'.at = "idle"
          BY <4>3 DEF Idle
        <5>. QED
          BY <3>1, <3>2, <4>1, <5>1 DEF Heights
      <4>4. CASE sync' = [sync EXCEPT !.at = "post", !.tries = @ + 1]
        <5>1. sync'.last = sync.last
          BY <4>4 DEF TypeOK
        <5>. QED
          BY <3>1, <3>2, <4>1, <5>1 DEF Heights
      <4>. QED
        BY <4>2, <4>3, <4>4
    <3>. QED
      BY <3>3, <3>4
  <2>. QED
    BY <2>1, <2>2
<1>7. ASSUME UNCHANGED <<height, stored, sync>>
      PROVE  Heights'
  BY <1>7 DEF Heights
<1>. QED
  BY <1>2, <1>3, <1>4, <1>5, <1>6, <1>7
  DEF Next, Handle, vars, monitor, Grow, Disconnected, Reconnected, Check, Apply, Insert, Fails

Safe == Heights /\ (outages = 0 => CInv)

LEMMA Inductive == Spec => [](TypeOK /\ Listening /\ Safe)
<1>1. Init => Connected /\ Heights /\ Covered /\ Sent /\ Replying /\ RecordedIsApplied /\ Applied
  BY Numbers DEF Init, Connected, Heights, Covered, Sent, Replying, RecordedIsApplied, Applied,
                 Idle, Watched, Blocks
<1>2. Safe /\ TypeOK /\ Listening /\ [Next]_vars /\ TypeOK' /\ Listening' => Safe'
  <2>1. ASSUME CInv, UNCHANGED vars
        PROVE  /\ Connected' /\ Heights' /\ Covered' /\ Sent' /\ Replying'
               /\ RecordedIsApplied' /\ Applied'
    BY <2>1 DEF vars, CInv, Connected, Heights, Covered, Sent, Replying, RecordedIsApplied, Applied
  <2>2. SUFFICES ASSUME Safe, TypeOK, Listening, [Next]_vars, TypeOK', Listening', outages' = 0
                 PROVE  CInv'
    BY StepHeights DEF Safe
  <2>3. outages = 0
    BY <2>2, OutagesGrow
  <2>4. CInv
    BY <2>2, <2>3 DEF Safe
  <2>. QED
    BY <2>1, <2>2, <2>4, StepSafe DEF CInv
<1>3. Spec => [](TypeOK /\ Listening)
  BY TypeCorrect
<1>4. Init /\ TypeOK /\ Listening => Safe
  BY <1>1 DEF CInv, Safe
<1>. QED
  BY <1>2, <1>3, <1>4, PTL DEF Spec

\* NoneSkipped: until Redis is lost a height the monitor moved on to, in memory or
\* in Redis, leaves no watched transaction behind that is not recorded
\* (NothingSkipped).
THEOREM NoneSkipped == Spec => []NothingSkipped
<1>1. Safe => NothingSkipped
  <2>1. ASSUME CInv
        PROVE  height \in Int /\ stored \in Int /\ \A n \in Watched : n \in Int
    BY <2>1, TypeParts, Numbers DEF CInv, Watched, Blocks
  <2>. QED
    BY <2>1 DEF Safe, CInv, Heights, Covered, NothingSkipped
<1>. QED
  BY <1>1, Inductive, PTL

\* RecordIsTrue: what the watcher recorded before Redis was lost, it processed
\* (RecordedIsApplied).
THEOREM RecordIsTrue == Spec => []RecordedIsApplied
<1>1. Safe => RecordedIsApplied
  BY DEF Safe, CInv, RecordedIsApplied
<1>. QED
  BY <1>1, Inductive, PTL

\* ImplementsFeed: monitor and watcher together implement ChainFeed (KeepsFeed).
THEOREM ImplementsFeed == Spec => KeepsFeed
<1>1. Init => Feed!Init
  BY DEF Init, Feed!Init
<1>2. Safe /\ TypeOK /\ [Next]_vars => [Feed!Next]_(Feed!vars)
  <2>1. ASSUME Safe, TypeOK, Save
        PROVE  Feed!Next
    <3>1. height \in Int /\ stored \in Int /\ stored < height /\ height \in First..Last
          /\ \A n \in Watched : n \in Int
      BY <2>1, TypeParts, Numbers, SMTT(40) DEF Safe, Heights, Save, Watched, Blocks
    <3>2. Feed!Advance(height)
      BY <2>1, <3>1 DEF Save, Safe, CInv, Covered, Feed!Advance
    <3>. QED
      BY <3>1, <3>2 DEF Feed!Next
  <2>2. ASSUME TypeOK, NEW h \in handlers, Insert(h)
        PROVE  [Feed!Next]_(Feed!vars)
    <3>1. Head(h.left) \in Watched
      BY <2>2, HeadType, TypeParts DEF Insert, Busy
    <3>2. /\ recorded' = recorded \cup {Head(h.left)} \/ recorded' = recorded
          /\ stored' = stored /\ outages' = outages
      BY <2>2 DEF Insert, monitor
    <3>3. CASE recorded' = recorded
      BY <3>2, <3>3 DEF Feed!vars
    <3>4. CASE recorded' # recorded
      BY <3>1, <3>2, <3>4 DEF Feed!Next, Feed!Take
    <3>. QED
      BY <3>3, <3>4
  <2>3. ASSUME TypeOK, Disconnected
        PROVE  [Feed!Next]_(Feed!vars)
    <3>1. outages \in Nat /\ outages' = outages + 1 /\ UNCHANGED <<recorded, stored>>
      BY <2>3, SyncAssumption DEF TypeOK, Disconnected, monitor
    <3>2. outages' # 0
      BY <3>1
    <3>. QED
      BY <3>1, <3>2 DEF Feed!Next, Feed!Distrust, Feed!vars
  <2>4. ASSUME Next, ~Save, ~Disconnected, ~\E h \in handlers : Insert(h)
        PROVE  UNCHANGED Feed!vars
    BY <2>4 DEF Next, Handle, Fetch, Post, Rejected, MonitorRestart, WatcherRestart, Grow,
                Reconnected, Check, Apply, Answered, Fails, monitor, Feed!vars
  <2>5. ASSUME UNCHANGED vars
        PROVE  UNCHANGED Feed!vars
    BY <2>5 DEF vars, Feed!vars
  <2>. QED
    BY <2>1, <2>2, <2>3, <2>4, <2>5
<1>. QED
  BY <1>1, <1>2, Inductive, PTL DEF Spec, KeepsFeed, Feed!Spec

-----------------------------------------------------------------------------
(***************************************************************************)
(* The order of the chain, between blocks whose numbers have equally many  *)
(* digits.  A batch, and what is left of it, has each transaction behind   *)
(* those before it on the chain that are not processed yet.                *)
(***************************************************************************)
Like(m, n) == m < n /\ Width(m) = Width(n)
Follows(s) == \A i \in 1..Len(s), m \in Watched :
    Like(m, s[i]) => applied[m] > 0 \/ \E j \in 1..Len(s) : j < i /\ s[j] = m
InOrder == /\ sync.at # "idle" => Follows(sync.batch)
           /\ \A h \in handlers : Follows(h.left)
FInv == outages = 0 => InOrder /\ OrderKept

LEMMA WatchedNumber == \A n \in Watched : n \in Int /\ n \in Blocks
  BY Numbers DEF Watched, Blocks

\* Processing more leaves less to follow.
LEMMA FollowsStays ==
    ASSUME NEW s, Follows(s), \A n \in Watched : applied[n] > 0 => applied'[n] > 0
    PROVE  Follows(s)'
  BY DEF Follows, Like

\* The sort puts a batch in the order of the chain, and what is not in it was
\* recorded before.
LEMMA FetchOrder ==
    ASSUME CInv, FInv, Fetch
    PROVE  InOrder'
<1>1. /\ sync.at = "idle" /\ UNCHANGED <<handlers, applied>>
      /\ \/ UNCHANGED sync
         \/ /\ Got \cap Watched # {}
            /\ \E q \in Sorted(Got \cap Watched) : sync'.batch = q
  <2>1. PICK last \in Got :
           IF Got \cap Watched = {}
           THEN UNCHANGED sync
           ELSE \E q \in Sorted(Got \cap Watched) :
                    sync' = [at |-> "post", batch |-> q, last |-> last, tries |-> 0]
    BY DEF Fetch
  <2>. QED
    BY <2>1 DEF Fetch
<1>2. \A h \in handlers' : Follows(h.left)'
  BY <1>1, FollowsStays DEF CInv, FInv, InOrder
<1>3. ASSUME Got \cap Watched # {}, NEW q \in Sorted(Got \cap Watched)
      PROVE  Follows(q)
  <2>1. /\ q \in Seq(Watched) /\ Len(q) \in Nat /\ DOMAIN q = 1..Len(q)
        /\ \A n \in Got \cap Watched : \E i \in 1..Len(q) : q[i] = n
        /\ \A i, j \in 1..Len(q) : i < j => TextLess(q[i], q[j])
        /\ \A i \in 1..Len(q) : q[i] \in Got \cap Watched
    <3>1. q \in Seq(Watched) /\ \A n \in Got \cap Watched : \E i \in 1..Len(q) : q[i] = n
      BY <1>3, Batch
    <3>2. Len(q) \in Nat /\ DOMAIN q = 1..Len(q)
      BY <3>1, LenProperties
    <3>. QED
      BY <3>1, <3>2 DEF Sorted
  <2>2. SUFFICES ASSUME NEW i \in 1..Len(q), NEW m \in Watched, Like(m, q[i]), ~(applied[m] > 0)
                 PROVE  \E j \in 1..Len(q) : j < i /\ q[j] = m
    BY DEF Follows
  <2>3. /\ m \in Int /\ q[i] \in Int /\ m < q[i] /\ Width(m) = Width(q[i])
        /\ height \in Int /\ tip \in Int /\ MaxBatch \in Int
    BY <2>1, <2>2, WatchedNumber, SyncAssumption, TypeParts, Numbers DEF Like, CInv
  <2>4. height < m
    <3>1. m \notin recorded
      BY <2>2 DEF CInv, RecordedIsApplied
    <3>. QED
      BY <2>3, <3>1 DEF CInv, Covered
  <2>5. m \in Got
    BY <2>1, <2>3, <2>4, WatchedNumber DEF Got, Watched
  <2>6. PICK j \in 1..Len(q) : q[j] = m
    BY <2>1, <2>5
  <2>7. ~TextLess(q[i], m)
    BY <2>3 DEF TextLess
  <2>. QED
    BY <2>1, <2>3, <2>6, <2>7
<1>4. (sync.at # "idle" => Follows(sync.batch))'
  <2>1. CASE UNCHANGED sync
    BY <1>1, <2>1
  <2>2. CASE /\ Got \cap Watched # {}
             /\ \E q \in Sorted(Got \cap Watched) : sync'.batch = q
    <3>1. PICK q \in Sorted(Got \cap Watched) : sync'.batch = q
      BY <2>2
    <3>2. Follows(q)'
      BY <1>1, <1>3, <2>2, FollowsStays
    <3>. QED
      BY <3>1, <3>2 DEF Follows
  <2>. QED
    BY <1>1, <2>1, <2>2
<1>. QED
  BY <1>2, <1>4 DEF InOrder

\* A step of a handler: what is left of its batch still follows.
LEMMA HandlerOrder ==
    ASSUME CInv, FInv, NEW h \in handlers, NEW at, NEW left, Becomes(h, at, left),
           Follows(left)', UNCHANGED sync,
           \A n \in Watched : applied[n] > 0 => applied'[n] > 0
    PROVE  InOrder'
<1>1. PICK r : r = [h EXCEPT !.at = at, !.left = left]
  OBVIOUS
<1>2. r.left = left
  BY <1>1 DEF CInv, TypeOK
<1>3. handlers' = (handlers \ {h}) \cup {r}
  BY <1>1 DEF Becomes
<1>4. \A g \in handlers : Follows(g.left)'
  BY FollowsStays DEF CInv, FInv, InOrder
<1>5. \A g \in handlers' : Follows(g.left)'
  BY <1>2, <1>3, <1>4
<1>6. sync.at # "idle" => Follows(sync.batch)'
  BY FollowsStays DEF CInv, FInv, InOrder
<1>7. (sync.at # "idle" => Follows(sync.batch))'
  BY <1>6 DEF Follows
<1>. QED
  BY <1>5, <1>7 DEF InOrder

\* A handler goes on from what it has processed.
LEMMA GoOnOrder ==
    ASSUME CInv, FInv, NEW h \in handlers, h.at \in Busy, GoOn(h), UNCHANGED <<sync, applied>>,
           applied[Head(h.left)] > 0
    PROVE  InOrder'
<1>1. h.left \in Seq(Watched) /\ h.left # <<>>
  BY DEF CInv, TypeOK, Busy
<1>2. /\ Tail(h.left) \in Seq(Watched) /\ Len(h.left) \in Nat
      /\ Len(Tail(h.left)) = Len(h.left) - 1
      /\ \A j \in 1..Len(Tail(h.left)) : Tail(h.left)[j] = h.left[j + 1]
      /\ Head(h.left) = h.left[1]
  BY <1>1, HeadTailProperties, LenProperties
<1>3. Follows(h.left)
  BY DEF CInv, FInv, InOrder
<1>4. Follows(Tail(h.left))
  <2> DEFINE s == h.left
             t == Tail(h.left)
  <2>1. SUFFICES ASSUME NEW i \in 1..Len(t), NEW m \in Watched, Like(m, t[i]), ~(applied[m] > 0)
                 PROVE  \E j \in 1..Len(t) : j < i /\ t[j] = m
    BY DEF Follows
  <2>2. i + 1 \in 1..Len(s) /\ t[i] = s[i + 1]
    BY <1>2
  <2>3. PICK k \in 1..Len(s) : k < i + 1 /\ s[k] = m
    BY <1>3, <2>1, <2>2 DEF Follows
  <2>4. k # 1
    BY <1>2, <2>1, <2>3
  <2>5. k - 1 \in 1..Len(t) /\ k - 1 < i /\ t[k - 1] = m
    BY <1>2, <2>3, <2>4
  <2>. QED
    BY <2>5
<1>5. Follows(Tail(h.left))'
  BY <1>4, FollowsStays
<1>. QED
  BY <1>5, HandlerOrder DEF GoOn

\* The first of what is left has nothing before it that is not processed.
LEMMA ApplyOrder ==
    ASSUME CInv, FInv, NEW h \in handlers, Apply(h)
    PROVE  InOrder' /\ OrderKept'
<1>1. h.at = "apply" /\ Becomes(h, "insert", h.left) /\ UNCHANGED <<sync, outages>>
  BY DEF Apply, monitor
<1>2. /\ h.left \in Seq(Watched) /\ h.left # <<>> /\ applied \in [Blocks -> Nat]
      /\ Head(h.left) \in Blocks
  BY <1>1, HeadType, TypeParts DEF CInv, TypeOK, Busy, Watched
<1>3. applied' = [applied EXCEPT ![Head(h.left)] = @ + 1]
  BY DEF Apply, CInv, Connected
<1>4. /\ \A n \in Watched : applied[n] > 0 => applied'[n] > 0
      /\ \A n \in Watched : applied'[n] > 0 => applied[n] > 0 \/ n = Head(h.left)
  BY <1>2, <1>3, WatchedNumber
<1>5. Follows(h.left)'
  BY <1>4, FollowsStays DEF CInv, FInv, InOrder
<1>6. InOrder'
  BY <1>1, <1>4, <1>5, HandlerOrder
<1>7. ASSUME NEW m \in Watched, Like(m, Head(h.left)) PROVE applied[m] > 0
  <2>1. Follows(h.left)
    BY DEF CInv, FInv, InOrder
  <2>2. Head(h.left) = h.left[1] /\ Len(h.left) \in Nat /\ Len(h.left) # 0
    BY <1>2, HeadTailProperties, LenProperties, EmptySeq
  <2>3. 1 \in 1..Len(h.left) /\ ~\E j \in 1..Len(h.left) : j < 1
    BY <2>2
  <2>. QED
    BY <1>7, <2>1, <2>2, <2>3 DEF Follows
<1>8. OrderKept'
  <2>1. SUFFICES ASSUME NEW m \in Watched, NEW n \in Watched, m < n, Width(m) = Width(n),
                        applied'[n] > 0
                 PROVE  applied'[m] > 0
    BY DEF OrderKept
  <2>2. CASE applied[n] > 0
    BY <1>4, <2>1, <2>2 DEF CInv, FInv, OrderKept
  <2>3. CASE n = Head(h.left)
    BY <1>4, <1>7, <2>1, <2>3 DEF Like
  <2>. QED
    BY <1>4, <2>1, <2>2, <2>3
<1>. QED
  BY <1>6, <1>8

LEMMA StepOrder ==
    ASSUME CInv, FInv, [Next]_vars, outages' = 0
    PROVE  InOrder' /\ OrderKept'
<1>1. outages = 0 /\ InOrder /\ OrderKept
  BY DEF CInv, FInv
<1>2. UNCHANGED applied => OrderKept'
  BY <1>1 DEF OrderKept
<1>3. ASSUME UNCHANGED applied,
             sync'.at = "idle" \/ sync' = sync \/ (sync.at # "idle" /\ sync'.batch = sync.batch),
             \A g \in handlers' :
                (\E h \in handlers : g.left = h.left) \/ (sync.at # "idle" /\ g.left = sync.batch)
      PROVE  InOrder'
  <2>1. \A s : Follows(s) => Follows(s)'
    BY <1>3, FollowsStays
  <2>2. \A g \in handlers' : Follows(g.left)'
    BY <1>1, <1>3, <2>1 DEF InOrder
  <2>3. sync'.at # "idle" => Follows(sync'.batch)
    BY <1>1, <1>3 DEF InOrder
  <2>4. (sync.at # "idle" => Follows(sync.batch))'
    BY <1>3, <2>3 DEF Follows
  <2>. QED
    BY <2>2, <2>4 DEF InOrder
<1>4. CASE Fetch
  BY <1>2, <1>4, FetchOrder DEF Fetch
<1>5. CASE Post
  <2>1. sync.at = "post" /\ sync'.batch = sync.batch /\ UNCHANGED applied
    BY <1>5 DEF Post, CInv, TypeOK
  <2>2. \A g \in handlers' : g \in handlers \/ g.left = sync.batch
    BY <1>5 DEF Post
  <2>. QED
    BY <1>2, <1>3, <2>1, <2>2
<1>6. CASE Rejected \/ MonitorRestart
  <2>1. handlers' = Unheard /\ sync'.at = "idle" /\ UNCHANGED applied
    BY <1>6 DEF Rejected, MonitorRestart, Idle
  <2>2. \A g \in handlers' : \E h \in handlers : g.left = h.left
    BY <2>1 DEF Unheard, CInv, TypeOK
  <2>. QED
    BY <1>2, <1>3, <2>1, <2>2
<1>7. CASE Save \/ WatcherRestart \/ Grow \/ Disconnected \/ Reconnected \/ UNCHANGED vars
  <2>1. /\ UNCHANGED applied /\ (sync' = sync \/ sync'.at = "idle")
        /\ \A g \in handlers' : g \in handlers
    BY <1>7 DEF Save, WatcherRestart, Grow, Disconnected, Reconnected, vars, monitor, Idle
  <2>. QED
    BY <1>2, <1>3, <2>1
<1>8. ASSUME NEW h \in handlers, Answered(h) PROVE InOrder' /\ OrderKept'
  <2>1. UNCHANGED applied /\ \A g \in handlers' : g \in handlers
    BY <1>8 DEF Answered
  <2>2. \/ sync'.at = "idle" \/ sync' = sync
        \/ sync.at # "idle" /\ sync'.batch = sync.batch
    <3>1. h.heard => sync.at = "wait"
      BY DEF CInv, Listening
    <3>2. Idle.at = "idle"
      BY DEF Idle
    <3>3. ASSUME sync' = [sync EXCEPT !.at = "post", !.tries = @ + 1]
          PROVE  sync'.batch = sync.batch
      BY <3>3 DEF CInv, TypeOK
    <3>. QED
      BY <1>8, <3>1, <3>2, <3>3 DEF Answered
  <2>. QED
    BY <1>2, <1>3, <2>1, <2>2
<1>9. ASSUME NEW h \in handlers, Check(h) PROVE InOrder' /\ OrderKept'
  <2>1. h.at = "check" /\ UNCHANGED <<sync, recorded, applied>>
    BY <1>9 DEF Check, monitor
  <2>2. CASE Head(h.left) \in recorded
    <3>1. applied[Head(h.left)] > 0 /\ GoOn(h)
      BY <1>9, <2>2 DEF Check, CInv, RecordedIsApplied, Connected
    <3>. QED
      BY <1>2, <2>1, <3>1, GoOnOrder DEF Busy
  <2>3. CASE Head(h.left) \notin recorded
    <3>1. Becomes(h, "apply", h.left) /\ Follows(h.left)'
      BY <1>1, <1>9, <2>1, <2>3, FollowsStays DEF Check, InOrder
    <3>. QED
      BY <1>2, <2>1, <3>1, HandlerOrder
  <2>. QED
    BY <2>2, <2>3
<1>10. ASSUME NEW h \in handlers, Insert(h) PROVE InOrder' /\ OrderKept'
  <2>1. h.at = "insert" /\ UNCHANGED <<sync, applied>> /\ GoOn(h)
    BY <1>10 DEF Insert, monitor
  <2>2. applied[Head(h.left)] > 0
    BY <2>1 DEF CInv, Applied
  <2>. QED
    BY <1>2, <2>1, <2>2, GoOnOrder DEF Busy
<1>11. ASSUME NEW h \in handlers, Fails(h) PROVE InOrder' /\ OrderKept'
  <2>1. Becomes(h, "error", h.left) /\ UNCHANGED <<sync, applied>>
    BY <1>11 DEF Fails, monitor
  <2>2. Follows(h.left)'
    BY <1>1, <2>1, FollowsStays DEF InOrder
  <2>. QED
    BY <1>2, <2>1, <2>2, HandlerOrder
<1>. QED
  BY <1>4, <1>5, <1>6, <1>7, <1>8, <1>9, <1>10, <1>11, ApplyOrder DEF Next, Handle

\* Until Redis is lost the first processing follows the chain, whichever handlers
\* overlap, between blocks whose numbers have equally many digits
\* (chainmonitor_server.ts:198).
THEOREM OrderIsKept == Spec => []OrderKept
<1>1. Init => FInv
  <2> SUFFICES ASSUME Init PROVE InOrder /\ OrderKept
    BY DEF FInv
  <2>1. \A n \in Watched : applied[n] = 0
    BY WatchedNumber DEF Init
  <2>. QED
    BY <2>1 DEF Init, InOrder, OrderKept, Idle
<1>2. FInv /\ TypeOK /\ Safe /\ [Next]_vars => FInv'
  <2> SUFFICES ASSUME FInv, TypeOK, Safe, [Next]_vars, outages' = 0 PROVE InOrder' /\ OrderKept'
    BY DEF FInv
  <2>1. outages = 0
    BY OutagesGrow
  <2>. QED
    BY <2>1, StepOrder DEF Safe
<1>3. FInv => OrderKept
  BY DEF FInv, OrderKept
<1>. QED
  BY <1>1, <1>2, <1>3, Inductive, PTL DEF Spec

-----------------------------------------------------------------------------
(***************************************************************************)
(* Every repetition is paid for.  A handler nobody listens to any more may *)
(* process a transaction once; one that is listened to, or one to come,    *)
(* may too, unless the transaction is recorded already, or processed by it *)
(* and about to be.  A lost connection lets one more pass.                 *)
(***************************************************************************)
\* A batch names a transaction once, and so does what is left of it.
Once(s) == \A i, j \in 1..Len(s) : s[i] = s[j] => i = j
Singles ==
    /\ sync.at # "idle" => Once(sync.batch)
    /\ \A h \in handlers : Once(h.left)

MayAs(at, left, n) ==
    \/ at \in {"check", "apply"} /\ In(n, left)
    \/ at = "insert" /\ In(n, Tail(left))
May(h, n) == MayAs(h.at, h.left, n)
Deaf(n) == {h \in handlers : ~h.heard /\ May(h, n)}
At(stage, n) == \E h \in handlers : h.heard /\ h.at = stage /\ Head(h.left) = n
Open(n) == ~ready \/ (n \notin recorded /\ ~At("insert", n)) \/ At("apply", n)
Paid(n) ==
    applied[n] + Cardinality(Deaf(n)) + (IF Open(n) THEN 1 ELSE 0) <= 1 + faults + outages

OInv == IsFiniteSet(handlers) /\ Singles /\ \A n \in Watched : Paid(n)

LEMMA OnceTail ==
    ASSUME NEW s \in Seq(Watched), s # <<>>, Once(s)
    PROVE  /\ Once(Tail(s))
           /\ ~In(Head(s), Tail(s))
           /\ \A n : In(n, Tail(s)) => In(n, s)
<1>1. /\ Tail(s) \in Seq(Watched) /\ Len(s) \in Nat
      /\ Len(Tail(s)) = Len(s) - 1
      /\ \A j \in 1..Len(Tail(s)) : Tail(s)[j] = s[j + 1]
      /\ Head(s) = s[1]
  BY HeadTailProperties, LenProperties
<1>2. \A j \in 1..Len(Tail(s)) : j + 1 \in 1..Len(s) /\ j + 1 # 1 /\ 1 \in 1..Len(s)
  BY <1>1
<1>3. Once(Tail(s))
  <2> SUFFICES ASSUME NEW i \in 1..Len(Tail(s)), NEW j \in 1..Len(Tail(s)), Tail(s)[i] = Tail(s)[j]
               PROVE  i = j
    BY DEF Once
  <2>1. s[i + 1] = s[j + 1] /\ i + 1 \in 1..Len(s) /\ j + 1 \in 1..Len(s)
    BY <1>1, <1>2
  <2>2. i + 1 = j + 1
    BY <2>1 DEF Once
  <2>. QED
    BY <2>2, <1>1
<1>. QED
  BY <1>1, <1>2, <1>3 DEF Once, In

LEMMA OnceBatch ==
    ASSUME NEW S \in SUBSET Watched, NEW q \in Sorted(S)
    PROVE  Once(q)
<1>1. IsFiniteSet(S)
  <2>1. IsFiniteSet(First..Last)
    BY FS_Interval, SyncAssumption
  <2>2. S \in SUBSET (First..Last)
    BY DEF Watched, Blocks
  <2>. QED
    BY <2>1, <2>2, FS_Subset
<1>2. Cardinality(S) \in Nat
  BY <1>1, FS_CardinalityType
<1>3. DEFINE k == Cardinality(S)
<1>4. q \in [1..k -> S] /\ \A n \in S : \E i \in DOMAIN q : q[i] = n
  BY DEF Sorted
<1>5. q \in Surjection(1..k, S)
  BY <1>4 DEF Surjection
<1>6. IsFiniteSet(1..k) /\ Cardinality(1..k) = k
  BY <1>2, FS_Interval
<1>7. q \in Injection(1..k, S)
  BY <1>1, <1>5, <1>6, FS_SurjSameCardinalityImpliesInj
<1>8. q \in Seq(S) /\ Len(q) = k
  BY <1>2, <1>4
<1>. QED
  BY <1>4, <1>7, <1>8 DEF Injection, IsInjective, Once

LEMMA Counts ==
    ASSUME TypeOK
    PROVE  /\ faults \in Nat /\ outages \in Nat /\ \A n \in Watched : applied[n] \in Nat
           /\ \A h \in handlers : h.left \in Seq(Watched) /\ (h.at \in Busy => h.left # <<>>)
                                  /\ h.at \in Stages /\ h.heard \in BOOLEAN
           /\ ready \in BOOLEAN
<1>1. faults \in Nat /\ outages \in Nat
  BY SyncAssumption, TypeParts
<1>2. ready \in BOOLEAN /\ \A n \in Watched : applied[n] \in Nat
  BY TypeParts DEF Watched
<1>3. WellTyped(handlers)
  BY TypeParts
<1>. QED
  BY <1>1, <1>2, <1>3 DEF WellTyped, Handlers

\* A step that makes nothing possible that was not, or is paid for.
LEMMA PaidStays ==
    ASSUME TypeOK, TypeOK', IsFiniteSet(handlers), NEW n \in Watched, Paid(n),
           NEW d \in Nat, faults' + outages' = faults + outages + d,
           applied'[n] = applied[n],
           \/ Deaf(n)' \subseteq Deaf(n) /\ (Open(n)' => Open(n) \/ d >= 1)
           \/ (\E g : Deaf(n)' \subseteq Deaf(n) \cup {g}) /\ (Open(n)' => Open(n)) /\ d >= 1
           \/ /\ \E h \in Deaf(n) : \E g : Deaf(n)' \subseteq (Deaf(n) \ {h}) \cup {g}
              /\ Open(n)' => Open(n) \/ d >= 1
    PROVE  Paid(n)'
<1>1. Deaf(n) \subseteq handlers
  BY DEF Deaf
<1>2. IsFiniteSet(Deaf(n)) /\ Cardinality(Deaf(n)) \in Nat
  BY <1>1, FS_Subset, FS_CardinalityType
<1>3. ASSUME NEW S, IsFiniteSet(S), Deaf(n)' \subseteq S
      PROVE  Cardinality(Deaf(n)') \in Nat /\ Cardinality(Deaf(n)') <= Cardinality(S)
  <2>1. IsFiniteSet(Deaf(n)')
    BY <1>3, FS_Subset
  <2>. QED
    BY <1>3, <2>1, FS_Subset, FS_CardinalityType
<1>4. /\ faults \in Nat /\ outages \in Nat /\ applied[n] \in Nat
      /\ faults' \in Nat /\ outages' \in Nat
  <2>1. faults' \in 0..MaxFaults /\ outages' \in 0..MaxOutages
    BY DEF TypeOK
  <2>. QED
    BY <2>1, Counts, SyncAssumption
<1>8. PICK o \in {0, 1}, p \in {0, 1} :
          o = (IF Open(n) THEN 1 ELSE 0) /\ p = (IF Open(n)' THEN 1 ELSE 0)
  OBVIOUS
<1>9. /\ (Open(n)' => Open(n)) => p <= o
      /\ (Open(n)' => Open(n) \/ d >= 1) => p <= o + d
  BY <1>8
<1>10. applied[n] + Cardinality(Deaf(n)) + o <= 1 + faults + outages
  BY <1>8 DEF Paid
<1>11. ASSUME Cardinality(Deaf(n)') \in Nat,
              Cardinality(Deaf(n)') + p <= Cardinality(Deaf(n)) + o + d
       PROVE  Paid(n)'
  <2>1. PICK a, b, k, j, f, g :
            /\ a = applied[n] /\ b = applied'[n] /\ k = Cardinality(Deaf(n)) /\ j = Cardinality(Deaf(n)')
            /\ f = faults + outages /\ g = faults' + outages'
    OBVIOUS
  <2>2. a \in Nat /\ b = a /\ k \in Nat /\ j \in Nat /\ f \in Nat /\ g \in Nat
    <3>1. a \in Nat /\ f \in Nat /\ g \in Nat
      <4>1. applied[n] \in Nat /\ faults + outages \in Nat
        BY <1>4
      <4>2. faults' + outages' \in Nat
        BY <4>1
      <4>. QED
        BY <2>1, <4>1, <4>2
    <3>2. k \in Nat
      BY <1>2, <2>1
    <3>3. j \in Nat
      BY <1>11, <2>1
    <3>4. b = a
      BY <2>1
    <3>. QED
      BY <3>1, <3>2, <3>3, <3>4
  <2>3. g = f + d /\ j + p <= k + o + d
    BY <1>11, <2>1
  <2>4. a + k + o <= 1 + f
    BY <1>4, <1>10, <2>1
  <2>5. b + j + p <= 1 + g
    BY <2>2, <2>3, <2>4
  <2>6. applied'[n] + Cardinality(Deaf(n)') + p <= 1 + faults' + outages'
    BY <1>4, <2>1, <2>5
  <2>. QED
    BY <1>8, <2>6 DEF Paid
<1>5. CASE Deaf(n)' \subseteq Deaf(n) /\ (Open(n)' => Open(n) \/ d >= 1)
  <2>1. Cardinality(Deaf(n)') \in Nat /\ Cardinality(Deaf(n)') <= Cardinality(Deaf(n))
    BY <1>2, <1>3, <1>5
  <2>. QED
    <3>1. p <= o + d
      BY <1>5, <1>9
    <3>2. Cardinality(Deaf(n)') + p <= Cardinality(Deaf(n)) + o + d
      BY <1>2, <2>1, <3>1
    <3>. QED
      BY <1>11, <2>1, <3>2
<1>6. CASE (\E g : Deaf(n)' \subseteq Deaf(n) \cup {g}) /\ (Open(n)' => Open(n)) /\ d >= 1
  <2>1. PICK g : Deaf(n)' \subseteq Deaf(n) \cup {g}
    BY <1>6
  <2>2. /\ IsFiniteSet(Deaf(n) \cup {g})
        /\ Cardinality(Deaf(n) \cup {g}) <= Cardinality(Deaf(n)) + 1
        /\ Cardinality(Deaf(n) \cup {g}) \in Nat
    <3>1. /\ IsFiniteSet(Deaf(n) \cup {g})
          /\ Cardinality(Deaf(n) \cup {g}) = IF g \in Deaf(n) THEN Cardinality(Deaf(n))
                                             ELSE Cardinality(Deaf(n)) + 1
      BY <1>2, FS_AddElement
    <3>. QED
      BY <1>2, <3>1
  <2>3. Cardinality(Deaf(n)') \in Nat /\ Cardinality(Deaf(n)') <= Cardinality(Deaf(n)) + 1
    BY <1>2, <1>3, <2>1, <2>2
  <2>. QED
    <3>1. p <= o /\ d >= 1
      BY <1>6, <1>9
    <3>2. Cardinality(Deaf(n)') + p <= Cardinality(Deaf(n)) + o + d
      BY <1>2, <2>3, <3>1
    <3>. QED
      BY <1>11, <2>3, <3>2
<1>7. CASE /\ \E h \in Deaf(n) : \E g : Deaf(n)' \subseteq (Deaf(n) \ {h}) \cup {g}
           /\ Open(n)' => Open(n) \/ d >= 1
  <2>1. PICK h \in Deaf(n) : \E g : Deaf(n)' \subseteq (Deaf(n) \ {h}) \cup {g}
    BY <1>7
  <2>6. PICK g : Deaf(n)' \subseteq (Deaf(n) \ {h}) \cup {g}
    BY <2>1
  <2>2. IsFiniteSet(Deaf(n) \ {h}) /\ Cardinality(Deaf(n) \ {h}) = Cardinality(Deaf(n)) - 1
    BY <1>2, FS_RemoveElement
  <2>3. Cardinality(Deaf(n) \ {h}) \in Nat
    BY <2>2, FS_CardinalityType
  <2>4. /\ IsFiniteSet((Deaf(n) \ {h}) \cup {g})
        /\ Cardinality((Deaf(n) \ {h}) \cup {g}) <= Cardinality(Deaf(n))
    <3>1. PICK D : D = Deaf(n) \ {h}
      OBVIOUS
    <3>2. /\ IsFiniteSet(D \cup {g})
          /\ Cardinality(D \cup {g}) = IF g \in D THEN Cardinality(D) ELSE Cardinality(D) + 1
      BY <2>2, <3>1, FS_AddElement
    <3>. QED
      BY <1>2, <2>2, <2>3, <3>1, <3>2
  <2>5. Cardinality(Deaf(n)') \in Nat /\ Cardinality(Deaf(n)') <= Cardinality(Deaf(n))
    <3>1. Cardinality((Deaf(n) \ {h}) \cup {g}) \in Nat
      BY <2>4, FS_CardinalityType
    <3>. QED
      BY <1>2, <1>3, <2>6, <2>4, <3>1
  <2>. QED
    <3>1. p <= o + d
      BY <1>7, <1>9
    <3>2. Cardinality(Deaf(n)') + p <= Cardinality(Deaf(n)) + o + d
      BY <1>2, <2>5, <3>1
    <3>. QED
      BY <1>11, <2>5, <3>2
<1>. QED
  BY <1>5, <1>6, <1>7

\* One of those nobody listens to processes n.
LEMMA PaidByOne ==
    ASSUME TypeOK, TypeOK', IsFiniteSet(handlers), NEW n \in Watched, Paid(n),
           UNCHANGED <<faults, outages>>, applied'[n] = applied[n] + 1,
           \/ Deaf(n)' \subseteq Deaf(n) /\ Open(n) /\ ~Open(n)'
           \/ \E h \in Deaf(n) : Deaf(n)' \subseteq Deaf(n) \ {h} /\ (Open(n)' => Open(n))
    PROVE  Paid(n)'
<1>1. Deaf(n) \subseteq handlers
  BY DEF Deaf
<1>2. IsFiniteSet(Deaf(n)) /\ Cardinality(Deaf(n)) \in Nat
  BY <1>1, FS_Subset, FS_CardinalityType
<1>3. faults \in Nat /\ outages \in Nat /\ applied[n] \in Nat
  BY Counts
<1>4. CASE Deaf(n)' \subseteq Deaf(n) /\ Open(n) /\ ~Open(n)'
  <2>1. IsFiniteSet(Deaf(n)') /\ Cardinality(Deaf(n)') <= Cardinality(Deaf(n))
    BY <1>2, <1>4, FS_Subset
  <2>2. Cardinality(Deaf(n)') \in Nat
    BY <2>1, FS_CardinalityType
  <2>. QED
    BY <1>2, <1>3, <1>4, <2>1, <2>2 DEF Paid
<1>5. CASE \E h \in Deaf(n) : Deaf(n)' \subseteq Deaf(n) \ {h} /\ (Open(n)' => Open(n))
  <2>1. PICK h \in Deaf(n) : Deaf(n)' \subseteq Deaf(n) \ {h} /\ (Open(n)' => Open(n))
    BY <1>5
  <2>2. IsFiniteSet(Deaf(n) \ {h}) /\ Cardinality(Deaf(n) \ {h}) = Cardinality(Deaf(n)) - 1
    BY <1>2, FS_RemoveElement
  <2>3. IsFiniteSet(Deaf(n)') /\ Cardinality(Deaf(n)') <= Cardinality(Deaf(n)) - 1
    BY <2>1, <2>2, FS_Subset
  <2>4. Cardinality(Deaf(n)') \in Nat
    BY <2>3, FS_CardinalityType
  <2>. QED
    BY <1>2, <1>3, <2>1, <2>3, <2>4 DEF Paid
<1>. QED
  BY <1>4, <1>5

\* What a step of handler h changes of this.
LEMMA StepOfOne ==
    ASSUME TypeOK, Listening, NEW h \in handlers, NEW at \in Stages, NEW left, Becomes(h, at, left),
           NEW n \in Watched
    PROVE  /\ h.heard => Deaf(n)' \subseteq Deaf(n)
           /\ ~h.heard /\ ~MayAs(at, left, n) => Deaf(n)' \subseteq Deaf(n) \ {h}
           /\ ~h.heard /\ May(h, n) =>
                 h \in Deaf(n) /\ \E g : Deaf(n)' \subseteq (Deaf(n) \ {h}) \cup {g}
           /\ \A stage : ~h.heard => (At(stage, n)' <=> At(stage, n))
           /\ \A stage : h.heard =>
                 /\ At(stage, n)' <=> (at = stage /\ Head(left) = n)
                 /\ At(stage, n) <=> (h.at = stage /\ Head(h.left) = n)
<1>1. PICK r : r = [h EXCEPT !.at = at, !.left = left]
  OBVIOUS
<1>2. r.heard = h.heard /\ r.at = at /\ r.left = left
  BY <1>1 DEF TypeOK
<1>3. handlers' = (handlers \ {h}) \cup {r}
  BY <1>1 DEF Becomes
<1>4. May(r, n) <=> MayAs(at, left, n)
  BY <1>2 DEF May
<1>5. Deaf(n)' = {g \in handlers' : ~g.heard /\ May(g, n)}
  BY DEF Deaf, May, MayAs, In
<1>6. Deaf(n)' \subseteq (Deaf(n) \ {h}) \cup {r}
      /\ (r \in Deaf(n)' => ~h.heard /\ MayAs(at, left, n))
  BY <1>2, <1>3, <1>4, <1>5 DEF Deaf
<1>7. \A g \in handlers : h.heard /\ g.heard => g = h
  BY DEF Listening
<1>8. \A stage : At(stage, n)' <=> \E g \in handlers' : g.heard /\ g.at = stage /\ Head(g.left) = n
  BY DEF At
<1>9. ASSUME NEW stage, ~h.heard
      PROVE  At(stage, n)' <=> At(stage, n)
  BY <1>2, <1>3, <1>8, <1>9 DEF At
<1>10. ASSUME NEW stage, h.heard
       PROVE  /\ At(stage, n)' <=> (at = stage /\ Head(left) = n)
              /\ At(stage, n) <=> (h.at = stage /\ Head(h.left) = n)
  BY <1>2, <1>3, <1>7, <1>8, <1>10 DEF At
<1>11. ~h.heard /\ May(h, n) => h \in Deaf(n)
  BY DEF Deaf
<1>12. h.heard => Deaf(n)' \subseteq Deaf(n)
  BY <1>6
<1>13. ~MayAs(at, left, n) => Deaf(n)' \subseteq Deaf(n) \ {h}
  BY <1>6
<1>. QED
  BY <1>6, <1>9, <1>10, <1>11, <1>12, <1>13

\* A step of h that processes nothing.
LEMMA PaidPassing ==
    ASSUME TypeOK, TypeOK', IsFiniteSet(handlers), Listening, NEW n \in Watched, Paid(n),
           NEW h \in handlers, NEW at \in Stages, NEW left, Becomes(h, at, left),
           MayAs(at, left, n) => May(h, n),
           UNCHANGED applied,
           \/ UNCHANGED <<faults, outages>> /\ (Open(n)' => Open(n))
           \/ faults' = faults + 1 /\ UNCHANGED outages
    PROVE  Paid(n)'
<1>1. faults \in Nat /\ outages \in Nat
  BY Counts
<1>2. PICK d \in {0, 1} : faults' + outages' = faults + outages + d /\ (Open(n)' => Open(n) \/ d >= 1)
  BY <1>1
<1>3. d \in Nat /\ applied'[n] = applied[n]
  BY <1>2
<1>4. \/ Deaf(n)' \subseteq Deaf(n)
      \/ h \in Deaf(n) /\ \E g : Deaf(n)' \subseteq (Deaf(n) \ {h}) \cup {g}
  BY StepOfOne
<1>. QED
  BY <1>2, <1>3, <1>4, PaidStays

LEMMA PaidCheck ==
    ASSUME TypeOK, TypeOK', IsFiniteSet(handlers), Listening, Singles, NEW n \in Watched, Paid(n),
           NEW h \in handlers, Check(h)
    PROVE  Paid(n)'
<1>1. h.at = "check" /\ UNCHANGED <<recorded, applied, ready, faults, outages>>
  BY DEF Check
<1>2. h.left \in Seq(Watched) /\ h.left # <<>> /\ Once(h.left)
  BY <1>1, Counts DEF Singles, Busy
<1>3. Open(n)' <=> ~ready \/ (n \notin recorded /\ ~At("insert", n)') \/ At("apply", n)'
  BY <1>1 DEF Open
<1>4. CASE ready /\ Head(h.left) \in recorded
  <2>1. PICK at \in {"ok", "check"} : Becomes(h, at, Tail(h.left))
    BY <1>1, <1>4 DEF Check, GoOn
  <2>2. MayAs(at, Tail(h.left), n) => May(h, n)
    BY <1>1, <1>2, OnceTail DEF MayAs, May
  <2>3. /\ ~h.heard => (At("insert", n)' <=> At("insert", n)) /\ (At("apply", n)' <=> At("apply", n))
        /\ h.heard => ~At("insert", n)' /\ ~At("apply", n)' /\ ~At("insert", n)
    BY <1>1, <2>1, StepOfOne DEF Stages
  <2>4. Open(n)' => Open(n)
    BY <1>3, <2>3 DEF Open
  <2>. QED
    BY <1>1, <2>1, <2>2, <2>4, PaidPassing DEF Stages
<1>5. CASE ~(ready /\ Head(h.left) \in recorded)
  <2>1. Becomes(h, "apply", h.left)
    BY <1>5 DEF Check
  <2>2. MayAs("apply", h.left, n) => May(h, n)
    BY <1>1 DEF MayAs, May
  <2>3. /\ ~h.heard => (At("insert", n)' <=> At("insert", n)) /\ (At("apply", n)' <=> At("apply", n))
        /\ h.heard => /\ ~At("insert", n)' /\ ~At("insert", n)
                      /\ At("apply", n)' => Head(h.left) = n
    BY <1>1, <2>1, StepOfOne DEF Stages
  <2>4. Open(n)' => Open(n)
    BY <1>3, <1>5, <2>3 DEF Open
  <2>. QED
    BY <1>1, <2>1, <2>2, <2>4, PaidPassing DEF Stages
<1>. QED
  BY <1>4, <1>5

LEMMA PaidApply ==
    ASSUME TypeOK, TypeOK', IsFiniteSet(handlers), Listening, Singles, NEW n \in Watched, Paid(n),
           NEW h \in handlers, Apply(h)
    PROVE  Paid(n)'
<1>1. /\ h.at = "apply" /\ Becomes(h, "insert", h.left)
      /\ UNCHANGED <<recorded, ready, faults, outages>>
  BY DEF Apply
<1>2. h.left \in Seq(Watched) /\ h.left # <<>> /\ Once(h.left)
  BY <1>1, Counts DEF Singles, Busy
<1>3. Open(n)' <=> ~ready \/ (n \notin recorded /\ ~At("insert", n)') \/ At("apply", n)'
  BY <1>1 DEF Open
<1>4. MayAs("insert", h.left, n) => May(h, n)
  BY <1>1, <1>2, OnceTail DEF MayAs, May
<1>5. /\ ~h.heard => (At("insert", n)' <=> At("insert", n)) /\ (At("apply", n)' <=> At("apply", n))
      /\ h.heard => /\ ~At("apply", n)' /\ ~At("insert", n)
                    /\ At("insert", n)' <=> Head(h.left) = n
                    /\ At("apply", n) <=> Head(h.left) = n
  BY <1>1, StepOfOne DEF Stages
<1>6. Open(n)' => Open(n)
  BY <1>3, <1>5 DEF Open
<1>7. applied \in [Blocks -> Nat] /\ n \in Blocks /\ Head(h.left) \in Blocks
  BY <1>2, TypeParts, Split DEF Watched
<1>8. CASE ready /\ Head(h.left) = n
  <2>1. applied'[n] = applied[n] + 1
    BY <1>7, <1>8 DEF Apply
  <2>2. In(n, h.left)
    <3>1. Len(h.left) \in Nat /\ Len(h.left) >= 1 /\ Head(h.left) = h.left[1]
      BY <1>2
    <3>. QED
      BY <1>8, <3>1 DEF In
  <2>3. ~MayAs("insert", h.left, n) /\ May(h, n)
    BY <1>1, <1>2, <1>8, <2>2, OnceTail DEF MayAs, May
  <2>4. CASE h.heard
    <3>1. Deaf(n)' \subseteq Deaf(n)
      BY <1>1, <2>4, StepOfOne DEF Stages
    <3>2. Open(n) /\ ~Open(n)'
      BY <1>3, <1>5, <1>8, <2>4 DEF Open
    <3>. QED
      BY <1>1, <2>1, <3>1, <3>2, PaidByOne
  <2>5. CASE ~h.heard
    <3>1. h \in Deaf(n) /\ Deaf(n)' \subseteq Deaf(n) \ {h}
      BY <1>1, <2>3, <2>5, StepOfOne DEF Stages
    <3>. QED
      BY <1>1, <1>6, <2>1, <3>1, PaidByOne
  <2>. QED
    BY <2>4, <2>5
<1>9. CASE ~(ready /\ Head(h.left) = n)
  <2>1. applied'[n] = applied[n]
    BY <1>7, <1>9 DEF Apply
  <2>2. \/ Deaf(n)' \subseteq Deaf(n)
        \/ h \in Deaf(n) /\ \E g : Deaf(n)' \subseteq (Deaf(n) \ {h}) \cup {g}
    BY <1>1, <1>4, StepOfOne DEF Stages
  <2>3. faults' + outages' = faults + outages + 0
    BY <1>1, Counts
  <2>. QED
    BY <1>6, <2>1, <2>2, <2>3, PaidStays
<1>. QED
  BY <1>8, <1>9

LEMMA PaidInsert ==
    ASSUME TypeOK, TypeOK', IsFiniteSet(handlers), Listening, Singles, NEW n \in Watched, Paid(n),
           NEW h \in handlers, Insert(h)
    PROVE  Paid(n)'
<1>1. /\ h.at = "insert" /\ UNCHANGED <<applied, ready, faults, outages>>
      /\ recorded' = IF ready THEN recorded \cup {Head(h.left)} ELSE recorded
  BY DEF Insert
<1>2. PICK at \in {"ok", "check"} : Becomes(h, at, Tail(h.left))
  BY DEF Insert, GoOn
<1>3. MayAs(at, Tail(h.left), n) => May(h, n)
  BY <1>1, <1>2 DEF MayAs, May
<1>4. /\ ~h.heard => (At("insert", n)' <=> At("insert", n)) /\ (At("apply", n)' <=> At("apply", n))
      /\ h.heard => /\ ~At("apply", n)' /\ ~At("insert", n)'
                    /\ At("insert", n) <=> Head(h.left) = n
  BY <1>1, <1>2, StepOfOne DEF Stages
<1>5. Open(n)' <=> ~ready \/ (n \notin recorded' /\ ~At("insert", n)') \/ At("apply", n)'
  BY <1>1 DEF Open
<1>6. Open(n)' => Open(n)
  BY <1>1, <1>4, <1>5 DEF Open
<1>. QED
  BY <1>1, <1>2, <1>3, <1>6, PaidPassing DEF Stages

LEMMA PaidFails ==
    ASSUME TypeOK, TypeOK', IsFiniteSet(handlers), Listening, NEW n \in Watched, Paid(n),
           NEW h \in handlers, Fails(h)
    PROVE  Paid(n)'
<1>1. Becomes(h, "error", h.left) /\ UNCHANGED <<applied, outages>> /\ faults' = faults + 1
  BY DEF Fails, Fault
<1>2. ~MayAs("error", h.left, n)
  BY DEF MayAs
<1>. QED
  BY <1>1, <1>2, PaidPassing DEF Stages

\* Nobody is listened to any more: who was may process n once more, and so may who
\* comes next.
LEMMA PaidDeaf ==
    ASSUME TypeOK, TypeOK', IsFiniteSet(handlers), Listening, Singles, NEW n \in Watched, Paid(n),
           handlers' = Unheard, UNCHANGED <<recorded, applied, ready, outages>>, faults' = faults + 1
    PROVE  Paid(n)'
<1>1. faults' + outages' = faults + outages + 1 /\ applied'[n] = applied[n]
  BY Counts
<1>2. Deaf(n)' = {g \in handlers' : ~g.heard /\ May(g, n)}
  BY DEF Deaf, May, MayAs, In
<1>3. \A g \in handlers' : ~g.heard /\ \E h \in handlers :
          /\ g = [h EXCEPT !.heard = FALSE]
          /\ g.at = h.at /\ g.left = h.left
          /\ (~h.heard => g = h)
  <2> SUFFICES ASSUME NEW h \in handlers, NEW g, g = [h EXCEPT !.heard = FALSE]
               PROVE  ~g.heard /\ g.at = h.at /\ g.left = h.left /\ (~h.heard => g = h)
    BY DEF Unheard
  <2>1. h \in Handlers
    BY TypeParts DEF WellTyped
  <2>. QED
    BY <2>1 DEF Handlers
<1>4. ~At("insert", n)' /\ ~At("apply", n)'
  BY <1>3 DEF At
<1>5. Open(n)' <=> ~ready \/ n \notin recorded
  BY <1>4 DEF Open
<1>6. CASE \E h \in handlers : h.heard /\ May(h, n)
  <2>1. PICK h \in handlers : h.heard /\ May(h, n)
    BY <1>6
  <2>2. \A g \in handlers : g.heard => g = h
    BY <2>1 DEF Listening
  <2>3. Deaf(n)' \subseteq Deaf(n) \cup {[h EXCEPT !.heard = FALSE]}
    BY <1>2, <1>3, <2>2 DEF Deaf, May
  <2>4. ~At("insert", n)
    <3>1. SUFFICES ASSUME h.at = "insert", Head(h.left) = n PROVE FALSE
      BY <2>2 DEF At
    <3>2. h.left \in Seq(Watched) /\ h.left # <<>> /\ Once(h.left)
      BY <3>1, Counts DEF Singles, Busy
    <3>. QED
      BY <2>1, <3>1, <3>2, OnceTail DEF May, MayAs
  <2>5. Open(n)' => Open(n)
    BY <1>5, <2>4 DEF Open
  <2>6. \E g : Deaf(n)' \subseteq Deaf(n) \cup {g}
    BY <2>3
  <2>7. PICK d \in Nat : d = 1
    OBVIOUS
  <2>8. faults' + outages' = faults + outages + d /\ d >= 1 /\ applied'[n] = applied[n]
    BY <1>1, <2>7
  <2>9. (\E g : Deaf(n)' \subseteq Deaf(n) \cup {g}) /\ (Open(n)' => Open(n)) /\ d >= 1
    BY <2>5, <2>6, <2>8
  <2>. QED
    BY <2>8, <2>9, PaidStays, ZenonT(30)
<1>7. CASE ~\E h \in handlers : h.heard /\ May(h, n)
  <2>1. Deaf(n)' \subseteq Deaf(n)
    BY <1>2, <1>3, <1>7 DEF Deaf, May
  <2>. QED
    BY <1>1, <2>1, PaidStays
<1>. QED
  BY <1>6, <1>7

\* The other steps: who is listened to comes or goes, or all go.
LEMMA PaidOthers ==
    ASSUME TypeOK, TypeOK', IsFiniteSet(handlers), Listening, NEW n \in Watched, Paid(n),
           Next, ~Rejected, ~MonitorRestart,
           \A h \in handlers : ~Check(h) /\ ~Apply(h) /\ ~Insert(h) /\ ~Fails(h)
    PROVE  Paid(n)'
<1>1. faults \in Nat /\ outages \in Nat
  BY Counts
<1>2. Deaf(n)' = {g \in handlers' : ~g.heard /\ May(g, n)}
  BY DEF Deaf, May, MayAs, In
<1>3. Open(n)' <=> ~ready' \/ (n \notin recorded' /\ ~At("insert", n)') \/ At("apply", n)'
  BY DEF Open
<1>4. \A stage : At(stage, n)' <=> \E g \in handlers' : g.heard /\ g.at = stage /\ Head(g.left) = n
  BY DEF At
<1>5. ASSUME UNCHANGED <<recorded, applied, ready, faults, outages>>,
             \A g \in handlers' \ handlers : g.heard /\ g.at = "check",
             \A g \in handlers \ handlers' : g.at \in {"ok", "error"}
      PROVE  Paid(n)'
  <2>1. Deaf(n)' \subseteq Deaf(n)
    BY <1>2, <1>5 DEF Deaf
  <2>2. \A stage \in {"apply", "insert"} : At(stage, n)' <=> At(stage, n)
    BY <1>4, <1>5 DEF At
  <2>3. Open(n)' => Open(n)
    BY <1>3, <1>5, <2>2 DEF Open
  <2>4. faults' + outages' = faults + outages + 0
    BY <1>1, <1>5
  <2>. QED
    BY <1>5, <2>1, <2>3, <2>4, PaidStays
<1>6. CASE Fetch \/ Save \/ Grow
  BY <1>5, <1>6 DEF Fetch, Save, Grow
<1>7. CASE Post
  <2>1. PICK id : handlers' = handlers \cup
                  {[id |-> id, at |-> "check", left |-> sync.batch, heard |-> TRUE]}
    BY <1>7 DEF Post
  <2>. QED
    BY <1>5, <1>7, <2>1 DEF Post
<1>8. ASSUME NEW h \in handlers, Answered(h) PROVE Paid(n)'
  BY <1>5, <1>8 DEF Answered
<1>9. CASE WatcherRestart
  <2>1. handlers' = {} /\ applied' = applied /\ faults' + outages' = faults + outages + 1
    BY <1>1, <1>9 DEF WatcherRestart, Fault
  <2>2. Deaf(n)' \subseteq Deaf(n)
    BY <1>2, <2>1
  <2>. QED
    BY <2>1, <2>2, PaidStays
<1>10. CASE Disconnected
  <2>1. handlers' = handlers /\ applied' = applied /\ faults' + outages' = faults + outages + 1
    BY <1>1, <1>10 DEF Disconnected
  <2>2. Deaf(n)' \subseteq Deaf(n)
    BY <1>2, <2>1 DEF Deaf
  <2>. QED
    BY <2>1, <2>2, PaidStays
<1>11. CASE Reconnected
  <2>1. handlers' = handlers /\ applied' = applied /\ faults' + outages' = faults + outages + 0
    BY <1>1, <1>11 DEF Reconnected
  <2>2. Deaf(n)' \subseteq Deaf(n)
    BY <1>2, <2>1 DEF Deaf
  <2>3. Open(n)
    BY <1>11 DEF Reconnected, Open
  <2>. QED
    BY <2>1, <2>2, <2>3, PaidStays
<1>. QED
  BY <1>6, <1>7, <1>8, <1>9, <1>10, <1>11 DEF Next, Handle

\* Batches are sent whole and worked off from the front.
LEMMA SinglesStep ==
    ASSUME TypeOK, Listening, Singles, IsFiniteSet(handlers), [Next]_vars
    PROVE  Singles' /\ IsFiniteSet(handlers)'
<1>1. ASSUME NEW h \in handlers, NEW at, NEW left, Becomes(h, at, left), Once(left), UNCHANGED sync
      PROVE  Singles' /\ IsFiniteSet(handlers)'
  <2>1. PICK r : r = [h EXCEPT !.at = at, !.left = left]
    OBVIOUS
  <2>2. r.left = left
    BY <2>1 DEF TypeOK
  <2>3. handlers' = (handlers \ {h}) \cup {r}
    BY <1>1, <2>1 DEF Becomes
  <2>4. IsFiniteSet(handlers')
    BY <2>3, FS_RemoveElement, FS_AddElement
  <2>. QED
    BY <1>1, <2>2, <2>3, <2>4 DEF Singles, Once
<1>2. ASSUME handlers' \subseteq handlers,
             \/ sync'.at = "idle" \/ sync' = sync
             \/ sync'.batch = sync.batch /\ sync.at # "idle"
      PROVE  Singles' /\ IsFiniteSet(handlers)'
  <2>1. IsFiniteSet(handlers')
    BY <1>2, FS_Subset
  <2>. QED
    BY <1>2, <2>1 DEF Singles, Once
<1>3. CASE Fetch
  <2>1. PICK last \in Got :
           IF Got \cap Watched = {}
           THEN UNCHANGED sync
           ELSE \E q \in Sorted(Got \cap Watched) :
                    sync' = [at |-> "post", batch |-> q, last |-> last, tries |-> 0]
    BY <1>3 DEF Fetch
  <2>2. handlers' = handlers /\ sync.at = "idle"
    BY <1>3 DEF Fetch
  <2>3. CASE UNCHANGED sync
    BY <1>2, <2>2, <2>3
  <2>4. CASE \E q \in Sorted(Got \cap Watched) : sync'.batch = q
    <3>1. Once(sync'.batch)
      BY <2>4, OnceBatch
    <3>. QED
      BY <2>2, <3>1 DEF Singles, Once
  <2>. QED
    BY <2>1, <2>3, <2>4
<1>4. CASE Post
  <2>1. PICK r : r.left = sync.batch /\ handlers' = handlers \cup {r}
    <3>1. PICK id : handlers' = handlers \cup
                    {[id |-> id, at |-> "check", left |-> sync.batch, heard |-> TRUE]}
      BY <1>4 DEF Post
    <3>. QED
      BY <3>1
  <2>2. sync.at = "post" /\ sync'.batch = sync.batch
    BY <1>4 DEF Post, TypeOK
  <2>3. IsFiniteSet(handlers')
    BY <2>1, FS_AddElement
  <2>. QED
    BY <2>1, <2>2, <2>3 DEF Singles, Once
<1>5. CASE Rejected \/ MonitorRestart
  <2>1. handlers' = Unheard /\ sync'.at = "idle"
    BY <1>5 DEF Rejected, MonitorRestart, Idle
  <2>2. IsFiniteSet(handlers')
    <3>1. DEFINE f == [h \in handlers |-> [h EXCEPT !.heard = FALSE]]
    <3>2. f \in Surjection(handlers, Unheard)
      BY DEF Surjection, Unheard
    <3>. HIDE DEF f
    <3>. QED
      BY <2>1, <3>2, FS_Surjection
  <2>3. \A g \in handlers' : \E h \in handlers : g.left = h.left
    BY <2>1 DEF Unheard, TypeOK
  <2>. QED
    BY <2>1, <2>2, <2>3 DEF Singles, Once
<1>6. CASE WatcherRestart
  BY <1>2, <1>6 DEF WatcherRestart, Idle
<1>7. CASE Save \/ Grow \/ Disconnected \/ Reconnected \/ UNCHANGED vars
  BY <1>7 DEF Save, Grow, Disconnected, Reconnected, vars, monitor, Singles, Once
<1>8. ASSUME NEW h \in handlers, Answered(h)
      PROVE  Singles' /\ IsFiniteSet(handlers)'
  <2>1. handlers' \subseteq handlers
    BY <1>8 DEF Answered
  <2>2. \/ sync'.at = "idle" \/ sync' = sync
        \/ sync'.batch = sync.batch /\ sync.at # "idle"
    <3>1. sync \in [at : {"idle", "post", "wait"}, batch : Seq(Watched),
                     last : (First - 1)..Last, tries : 0..(MaxTries - 1)]
      BY TypeParts
    <3>2. h.heard => sync.at = "wait"
      BY DEF Listening
    <3>. QED
      <4>1. CASE h.heard /\ h.at = "error" /\ sync.tries + 1 < MaxTries
        <5>1. sync' = [sync EXCEPT !.at = "post", !.tries = @ + 1]
          BY <1>8, <4>1 DEF Answered
        <5>. QED
          BY <3>1, <3>2, <4>1, <5>1
      <4>2. CASE ~(h.heard /\ h.at = "error" /\ sync.tries + 1 < MaxTries)
        <5>1. sync' = sync \/ sync' = Idle
          BY <1>8, <4>2 DEF Answered
        <5>. QED
          BY <5>1 DEF Idle
      <4>. QED
        BY <4>1, <4>2
  <2>. QED
    BY <1>2, <2>1, <2>2
<1>9. ASSUME NEW h \in handlers, Check(h) \/ Apply(h) \/ Insert(h) \/ Fails(h)
      PROVE  Singles' /\ IsFiniteSet(handlers)'
  <2>1. UNCHANGED sync /\ h.left \in Seq(Watched) /\ h.left # <<>> /\ Once(h.left)
    BY <1>9, Counts DEF Check, Apply, Insert, Fails, monitor, Busy, Singles
  <2>2. \E at : Becomes(h, at, h.left) \/ Becomes(h, at, Tail(h.left))
    BY <1>9 DEF Check, Apply, Insert, Fails, GoOn
  <2>3. Once(Tail(h.left))
    BY <2>1, OnceTail
  <2>. QED
    BY <1>1, <2>1, <2>2, <2>3
<1>. QED
  BY <1>3, <1>4, <1>5, <1>6, <1>7, <1>8, <1>9 DEF Next, Handle

\* Whatever overlaps, breaks, fails or starts again, a transaction is processed once,
\* and once more for each fault and each lost connection to Redis at most
\* (_chainwatcher_impl.ts:159).
THEOREM RepetitionIsPaid == Spec => []OnceButForFaults
<1>1. Init => OInv
  <2> SUFFICES ASSUME Init PROVE OInv
    OBVIOUS
  <2>1. handlers = {} /\ sync.at = "idle"
    BY DEF Init, Idle
  <2>2. IsFiniteSet(handlers) /\ Singles
    BY <2>1, FS_EmptySet DEF Singles
  <2>3. ASSUME NEW n \in Watched PROVE Paid(n)
    <3>1. Deaf(n) = {}
      BY <2>1 DEF Deaf
    <3>2. Cardinality(Deaf(n)) = 0 /\ applied[n] = 0 /\ faults = 0 /\ outages = 0
      BY <3>1, FS_EmptySet DEF Init, Watched
    <3>. QED
      BY <3>2 DEF Paid
  <2>. QED
    BY <2>2, <2>3 DEF OInv
<1>2. TypeOK /\ TypeOK' /\ Listening /\ OInv /\ [Next]_vars => OInv'
  <2>1. SUFFICES ASSUME TypeOK, TypeOK', Listening, OInv, [Next]_vars, NEW n \in Watched
                 PROVE  Paid(n)'
    BY SinglesStep DEF OInv
  <2>2. Paid(n) /\ Singles /\ IsFiniteSet(handlers)
    BY <2>1 DEF OInv
  <2>3. CASE UNCHANGED vars
    BY <2>2, <2>3 DEF vars, Paid, Deaf, Open, At, May, MayAs, In
  <2>4. CASE Rejected \/ MonitorRestart
    <3>1. /\ handlers' = Unheard /\ UNCHANGED <<recorded, applied, ready, outages>>
          /\ faults' = faults + 1
      BY <2>4 DEF Rejected, MonitorRestart, Fault
    <3>. QED
      BY <2>1, <2>2, <3>1, PaidDeaf
  <2>. QED
    BY <2>1, <2>2, <2>3, <2>4, PaidCheck, PaidApply, PaidInsert, PaidFails, PaidOthers
<1>3. TypeOK /\ OInv => OnceButForFaults
  <2>1. SUFFICES ASSUME TypeOK, OInv, NEW n \in Watched PROVE applied[n] <= 1 + faults + outages
    BY DEF OnceButForFaults
  <2>2. IsFiniteSet(Deaf(n)) /\ Cardinality(Deaf(n)) \in Nat
    BY <2>1, FS_Subset, FS_CardinalityType DEF OInv, Deaf
  <2>. QED
    BY <2>1, <2>2, Counts DEF OInv, Paid
<1>. QED
  BY <1>1, <1>2, <1>3, TypeCorrect, PTL DEF Spec
=============================================================================
