------------------------------ MODULE ChainSync ------------------------------
(***************************************************************************)
(* How events of the chain reach the game.  The monitor, a process of its  *)
(* own, reads blocks from a node in batches and posts the receipts of the  *)
(* watched contracts to the watcher, in the game server's main thread,     *)
(* until it is answered OK; then its height moves on.  The watcher looks   *)
(* each transaction up in Redis, processes its events and records it.  Its *)
(* handlers overlap: a post whose connection broke is posted again while   *)
(* the first handler still runs.                                           *)
(*                                                                         *)
(* A block has no transaction, none a watched contract logged in, or one:  *)
(* several are handled one after the other, like neighbouring blocks.  A   *)
(* transaction is named by the number of its block.                        *)
(***************************************************************************)
EXTENDS Integers, Sequences, FiniteSets

CONSTANTS
    First, Last,   \* blocks after the configured start height, up to a bound
    Kind,          \* Kind[n]: "empty", "plain" or "watched"
    MaxBatch,      \* blocks of a batch; 100
    MaxTries,      \* posts of a batch before it is read again; 1000
    MaxFaults,     \* bound: broken connections, failures, restarts and outages
    MaxOutages     \* bound: times the watcher's Redis clients lose Redis

ASSUME SyncAssumption ==
    /\ First \in Nat \ {0} /\ Last \in Nat /\ First - 1 <= Last
    /\ Kind \in [First..Last -> {"empty", "plain", "watched"}]
    /\ MaxBatch \in Nat \ {0} /\ MaxTries \in Nat \ {0}
    /\ MaxFaults \in Nat /\ MaxOutages \in Nat

VARIABLES
    tip,        \* the node's block number
    height,     \* monitor: _current_block_height
    stored,     \* Redis: current_height
    sync,       \* monitor: where _sync_block stands
    handlers,   \* watcher: _on_event_cb calls, until they are answered
    recorded,   \* Redis: tx_<hash> is there
    applied,    \* how often the events of a transaction were processed
    ready,      \* the watcher's Redis clients are connected
    faults, outages

vars == <<tip, height, stored, sync, handlers, recorded, applied, ready, faults, outages>>
monitor == <<height, stored, sync>>

Blocks == First..Last
Watched == {n \in Blocks : Kind[n] = "watched"}
Idle == [at |-> "idle", batch |-> <<>>, last |-> First - 1, tries |-> 0]

Init ==
    /\ tip = First - 1
    /\ height = First - 1
    /\ stored = First - 1
    /\ sync = Idle
    /\ handlers = {}
    /\ recorded = {}
    /\ applied = [n \in Blocks |-> 0]
    /\ ready = TRUE
    /\ faults = 0
    /\ outages = 0

\* Faults and outages share one bound.
Fault == faults + outages < MaxFaults /\ faults' = faults + 1

-----------------------------------------------------------------------------
\* The receipts are sorted by blockNumber as the node writes it, hexadecimal
\* text: "0x10" is less than "0xf".
Width(n) == CHOOSE k \in 1..8 : 16^(k - 1) <= n /\ n < 16^k
Digits(n, w) == n * 16^(w - Width(n))
TextLess(a, b) ==
    LET w == Width(IF a > b THEN a ELSE b)
    IN  IF Width(a) = Width(b) THEN a < b
        ELSE \/ Digits(a, w) < Digits(b, w)
             \/ Digits(a, w) = Digits(b, w) /\ Width(a) < Width(b)

Sorted(S) == {q \in [1..Cardinality(S) -> S] :
                /\ \A n \in S : \E i \in DOMAIN q : q[i] = n
                /\ \A i, j \in DOMAIN q : i < j => TextLess(q[i], q[j])}

\* The blocks of the next batch that have receipts.
Got == {n \in Blocks : height < n /\ n <= tip /\ n <= height + MaxBatch /\ Kind[n] # "empty"}

\* Mutant of Fetch: the height moves on when the batch is sent.
Fetch_Forgets ==
    /\ sync.at = "idle"
    /\ \E last \in Got :
          /\ \A n \in Got \ {last} : TextLess(n, last)
          /\ height' = last
          /\ IF Got \cap Watched = {}
             THEN UNCHANGED sync
             ELSE \E q \in Sorted(Got \cap Watched) :
                     sync' = [at |-> "post", batch |-> q, last |-> last, tries |-> 0]
    /\ UNCHANGED <<tip, stored, handlers, recorded, applied, ready, faults, outages>>

\* _sync_block up to its post.  Without a receipt it returns as it began, and
\* so it does when the node answers an error or an incomplete batch.
Fetch ==
    /\ sync.at = "idle"
    /\ \E last \in Got :
          /\ \A n \in Got \ {last} : TextLess(n, last)
          /\ IF Got \cap Watched = {}
             THEN height' = last /\ UNCHANGED sync
             ELSE /\ \E q \in Sorted(Got \cap Watched) :
                        sync' = [at |-> "post", batch |-> q, last |-> last, tries |-> 0]
                  /\ UNCHANGED height
    /\ UNCHANGED <<tip, stored, handlers, recorded, applied, ready, faults, outages>>

Post ==
    /\ sync.at = "post"
    /\ sync' = [sync EXCEPT !.at = "wait"]
    /\ \E id \in 0..Cardinality(handlers) :
          /\ \A h \in handlers : h.id # id
          /\ \A i \in 0..(id - 1) : \E h \in handlers : h.id = i
          /\ handlers' = handlers \cup
                {[id |-> id, at |-> "check", left |-> sync.batch, heard |-> TRUE]}
    /\ UNCHANGED <<tip, height, stored, recorded, applied, ready, faults, outages>>

Unheard == {[h EXCEPT !.heard = FALSE] : h \in handlers}

\* Mutant of Rejected: the promise of the post never settles.
Rejected_Silent ==
    /\ sync.at \in {"post", "wait"}
    /\ Fault
    /\ sync' = [sync EXCEPT !.at = "wait"]
    /\ handlers' = Unheard
    /\ UNCHANGED <<tip, height, stored, recorded, applied, ready, outages>>

\* The connection is refused or breaks: post rejects, start_sync_block begins
\* anew, and the handler runs on.
Rejected ==
    /\ sync.at \in {"post", "wait"}
    /\ Fault
    /\ sync' = Idle
    /\ handlers' = Unheard
    /\ UNCHANGED <<tip, height, stored, recorded, applied, ready, outages>>

\* Mutant of Answered: any answer will do.
Answered_Any(h) ==
    /\ h.at \in {"ok", "error"}
    /\ handlers' = handlers \ {h}
    /\ IF h.heard THEN height' = sync.last /\ sync' = Idle ELSE UNCHANGED <<height, sync>>
    /\ UNCHANGED <<tip, stored, recorded, applied, ready, faults, outages>>

\* res.end(): the monitor moves on, posts again, or begins anew
Answered(h) ==
    /\ h.at \in {"ok", "error"}
    /\ handlers' = handlers \ {h}
    /\ IF ~h.heard
       THEN UNCHANGED <<height, sync>>
       ELSE IF h.at = "ok" THEN height' = sync.last /\ sync' = Idle
       ELSE /\ UNCHANGED height
            /\ sync' = IF sync.tries + 1 < MaxTries
                       THEN [sync EXCEPT !.at = "post", !.tries = @ + 1] ELSE Idle
    /\ UNCHANGED <<tip, stored, recorded, applied, ready, faults, outages>>

\* The set of current_height is not awaited.
Save ==
    /\ stored # height
    /\ stored' = height
    /\ UNCHANGED <<tip, height, sync, handlers, recorded, applied, ready, faults, outages>>

MonitorRestart ==
    /\ Fault
    /\ sync' = Idle
    /\ height' = stored
    /\ handlers' = Unheard
    /\ UNCHANGED <<tip, stored, recorded, applied, ready, outages>>

-----------------------------------------------------------------------------
\* _on_event_cb, for one receipt after the other.
Becomes(h, at, left) ==
    handlers' = (handlers \ {h}) \cup {[h EXCEPT !.at = at, !.left = left]}

GoOn(h) == Becomes(h, IF Tail(h.left) = <<>> THEN "ok" ELSE "check", Tail(h.left))

\* Mutants of Check: the record is written first; nothing is looked up.
Check_Records(h) ==
    /\ h.at = "check"
    /\ IF Head(h.left) \in recorded THEN GoOn(h) /\ UNCHANGED recorded
       ELSE Becomes(h, "apply", h.left) /\ recorded' = recorded \cup {Head(h.left)}
    /\ UNCHANGED <<tip, monitor, applied, ready, faults, outages>>
Check_Blind(h) ==
    /\ h.at = "check"
    /\ Becomes(h, "apply", h.left)
    /\ UNCHANGED <<tip, monitor, recorded, applied, ready, faults, outages>>

\* A client that is not connected reads null, which passes for "not there".
Check(h) ==
    /\ h.at = "check"
    /\ IF ready /\ Head(h.left) \in recorded THEN GoOn(h) ELSE Becomes(h, "apply", h.left)
    /\ UNCHANGED <<tip, monitor, recorded, applied, ready, faults, outages>>

\* The handler of the event; without a connection its look-up of the wallet answers
\* nothing as well, so that no user is found and the event is dropped ...
Apply(h) ==
    /\ h.at = "apply"
    /\ applied' = IF ready THEN [applied EXCEPT ![Head(h.left)] = @ + 1] ELSE applied
    /\ Becomes(h, "insert", h.left)
    /\ UNCHANGED <<tip, monitor, recorded, ready, faults, outages>>

\* ... and the record is not written, which nobody asks.
Insert(h) ==
    /\ h.at = "insert"
    /\ recorded' = IF ready THEN recorded \cup {Head(h.left)} ELSE recorded
    /\ GoOn(h)
    /\ UNCHANGED <<tip, monitor, applied, ready, faults, outages>>

\* Mutant of Fails: the loop goes on with the next receipt.
Fails_GoesOn(h) ==
    /\ h.at \in {"check", "apply", "insert"}
    /\ Fault
    /\ GoOn(h)
    /\ UNCHANGED <<tip, monitor, recorded, applied, ready, outages>>

\* An event or a command throws; what was processed before stays.
Fails(h) ==
    /\ h.at \in {"check", "apply", "insert"}
    /\ Fault
    /\ Becomes(h, "error", h.left)
    /\ UNCHANGED <<tip, monitor, recorded, applied, ready, outages>>

WatcherRestart ==
    /\ Fault
    /\ handlers' = {}
    /\ sync' = IF sync.at = "wait" THEN Idle ELSE sync
    /\ UNCHANGED <<tip, height, stored, recorded, applied, ready, outages>>

-----------------------------------------------------------------------------
\* Around both: the chain grows, Redis goes and comes back.
Grow ==
    /\ tip < Last
    /\ tip' = tip + 1
    /\ UNCHANGED <<monitor, handlers, recorded, applied, ready, faults, outages>>

Disconnected ==
    /\ ready
    /\ outages < MaxOutages /\ faults + outages < MaxFaults
    /\ ready' = FALSE
    /\ outages' = outages + 1
    /\ UNCHANGED <<tip, monitor, handlers, recorded, applied, faults>>

Reconnected ==
    /\ ~ready
    /\ ready' = TRUE
    /\ UNCHANGED <<tip, monitor, handlers, recorded, applied, faults, outages>>

Handle(h) == Check(h) \/ Apply(h) \/ Insert(h) \/ Answered(h)

Next ==
    \/ Fetch \/ Post \/ Rejected \/ Save \/ MonitorRestart
    \/ \E h \in handlers : Handle(h) \/ Fails(h)
    \/ WatcherRestart \/ Grow \/ Disconnected \/ Reconnected

Spec == Init /\ [][Next]_vars

\* The chain grows, the node answers in the end, requests arrive, Redis
\* replies.  Nothing makes anybody fail.
Fair ==
    /\ WF_vars(Grow) /\ WF_vars(Fetch) /\ WF_vars(Post) /\ WF_vars(Save)
    /\ WF_vars(Reconnected) /\ WF_vars(\E h \in handlers : Handle(h))
FairSpec == Spec /\ Fair

-----------------------------------------------------------------------------
TypeOK ==
    /\ {tip, height, stored} \subseteq (First - 1)..Last
    /\ sync \in [at : {"idle", "post", "wait"}, batch : Seq(Watched),
                 last : (First - 1)..Last, tries : 0..(MaxTries - 1)]
    /\ sync.at # "idle" => sync.batch # <<>>
    /\ handlers \subseteq [id : Nat, at : {"check", "apply", "insert", "ok", "error"},
                           left : Seq(Watched), heard : BOOLEAN]
    /\ \A h \in handlers : h.at \in {"check", "apply", "insert"} => h.left # <<>>
    /\ recorded \subseteq Watched
    /\ applied \in [Blocks -> Nat]
    /\ ready \in BOOLEAN
    /\ faults \in 0..MaxFaults
    /\ outages \in 0..MaxOutages

\* A height the monitor moved on to, in memory or in Redis, leaves no watched
\* transaction behind that is not recorded, whatever failed or started again
\* ("process success", chainmonitor_server.ts:264), as long as the watcher's
\* clients never lost Redis: the watcher answers OK for what it could not write.
NothingSkipped ==
    outages = 0 => \A n \in Watched : n <= height \/ n <= stored => n \in recorded

\* What is recorded was processed: the check of _chainwatcher_impl.ts:159 never
\* leaves out a transaction whose events were lost, but for the events that a
\* lost connection dropped.
RecordedIsApplied == outages = 0 => \A n \in recorded : applied[n] > 0

\* Events are processed once, and once more for each fault or lost connection to
\* Redis at most: batches that are read again, as they are when the numbers get
\* another digit, cost nothing.
OnceButForFaults == \A n \in Watched : applied[n] <= 1 + faults + outages

\* The first processing follows the chain, whichever handlers overlap, between
\* blocks whose numbers have equally many digits (chainmonitor_server.ts:198).
OrderKept ==
    outages = 0 =>
        \A m, n \in Watched :
            m < n /\ Width(m) = Width(n) /\ applied[n] > 0 => applied[m] > 0

\* Monitor, posts, handlers and restarts together implement the feed: what is
\* kept over restarts only grows, and only over what was taken.
Feed == INSTANCE ChainFeed WITH
            taken <- recorded, cursor <- stored, trusted <- (outages = 0)
KeepsFeed == Feed!Spec

\* Every watched transaction is passed for good in the end, and recorded unless
\* Redis was lost, as long as no MaxBatch blocks in a row are empty
\* (chainmonitor_server.ts:194).
Delivered ==
    \A n \in Watched : <>[](stored >= n /\ (n \in recorded \/ outages > 0))
=============================================================================
