------------------------------ MODULE ThreadLife ------------------------------
(***************************************************************************)
(* The life of the server's threads: the start of the workers by the main  *)
(* thread and what it waits for, a worker that fails at any time, the      *)
(* order to end that SIGINT gives, and the end of the process, after which *)
(* the next one starts over what Redis has kept of the sessions.           *)
(*                                                                         *)
(* A session stays in the worker it is added to; its login is one step, as *)
(* is the removal of its data: SessionRouting and UserLogin are about      *)
(* those.                                                                  *)
(***************************************************************************)
EXTENDS Integers, Sequences, FiniteSets

CONSTANTS
    Workers, Users,
    Entry,        \* Entry[s]: the worker that a connection is given to
    NoUser,
    MaxSid,       \* bound: connections of one process
    MaxEnds,      \* bound: ends of the process
    MaxDeaths     \* bound: threads that fail

Sids == 1..MaxSid

ASSUME LifeAssumption ==
    /\ NoUser \notin Users
    /\ MaxSid \in Nat /\ MaxEnds \in Nat /\ MaxDeaths \in Nat
    /\ Entry \in [Sids -> Workers]

VARIABLES
    main,       \* natrium_server.startup and the SIGINT handler
    thread,     \* a worker's thread
    begun,      \* workers whose createWorker has returned
    inbox,      \* messages of main to a worker
    outbox,     \* messages and events of a worker's thread for main
    online,     \* sessionmgr
    ses,        \* sessions: how far they are, and their player's user in the worker
    closing,    \* on_session_close calls at their flush, by message or by the end
    wiping,     \* sessions with a _do_clear_session under way
    left, had,  \* startshutingdown: the sessions still to close, and all of them
    clearing,   \* the FLUSHDB of the session database is on its way
    bound,      \* Redis: __bindsid_<user>, 0 if none
    base,       \* Redis: the user in the base data of a session
    deaths, ends

inside == <<online, ses, closing, wiping, left, had>>
ports == <<inbox, outbox>>
redis == <<clearing, bound, base>>
vars == <<main, thread, begun, ports, inside, redis, deaths, ends>>

NoSes == [at |-> "none", user |-> NoUser]
Nothing == [w \in Workers |-> <<>>]
Of(w) == {s \in Sids : Entry[s] = w}

Init ==
    /\ main = "down"
    /\ thread = [w \in Workers |-> "none"]
    /\ begun = {}
    /\ inbox = Nothing /\ outbox = Nothing
    /\ online = {}
    /\ ses = [s \in Sids |-> NoSes]
    /\ closing = {} /\ wiping = {}
    /\ left = Nothing /\ had = [w \in Workers |-> {}]
    /\ clearing = FALSE
    /\ bound = [u \in Users |-> 0]
    /\ base = [s \in Sids |-> NoUser]
    /\ deaths = 0 /\ ends = 0

Says(w, kind) == outbox' = [outbox EXCEPT ![w] = Append(@, kind)]

-----------------------------------------------------------------------------
\* Mutant of Boot: what the last process left is kept.
Boot_Keeps ==
    /\ main = "down"
    /\ main' = "starting"
    /\ thread' = [w \in Workers |-> "loading"]
    /\ UNCHANGED <<begun, ports, inside, redis, deaths, ends>>

\* startup: the session database is cleared, which is not awaited, and all the
\* workers are started; or a database is not there, and startup returns.
Boot ==
    /\ main = "down"
    /\ \/ /\ main' = "starting"
          /\ thread' = [w \in Workers |-> "loading"]
          /\ clearing' = TRUE
       \/ main' = "stuck" /\ UNCHANGED <<thread, clearing>>
    /\ UNCHANGED <<begun, ports, inside, bound, base, deaths, ends>>

Cleared ==
    /\ bound' = [u \in Users |-> 0]
    /\ base' = [s \in Sids |-> NoUser]

Clear ==
    /\ clearing
    /\ clearing' = FALSE
    /\ Cleared
    /\ UNCHANGED <<main, thread, begun, ports, inside, deaths, ends>>

\* _Node_WorkerRoutine, up to _w2m_started
Load(w) ==
    /\ thread[w] = "loading"
    /\ thread' = [thread EXCEPT ![w] = "ready"]
    /\ Says(w, "started")
    /\ UNCHANGED <<main, begun, inbox, inside, redis, deaths, ends>>

\* All the promises of start_service are kept.  The watcher is started, or lacks
\* its file or its database, and startup returns without a listener.
Open ==
    /\ main = "starting" /\ begun = Workers
    /\ main' \in {"open", "stuck"}
    /\ UNCHANGED <<thread, begun, ports, inside, redis, deaths, ends>>

\* The process ends, and with it all that is in the memory of its threads.  The
\* command that clears may have been sent or not.
Ends ==
    /\ main' = "down"
    /\ thread' = [w \in Workers |-> "none"]
    /\ begun' = {}
    /\ inbox' = Nothing /\ outbox' = Nothing
    /\ online' = {}
    /\ ses' = [s \in Sids |-> NoSes]
    /\ closing' = {} /\ wiping' = {}
    /\ left' = Nothing /\ had' = [w \in Workers |-> {}]
    /\ clearing' = FALSE
    /\ \/ clearing /\ Cleared
       \/ UNCHANGED <<bound, base>>

ProcessEnds ==
    /\ main # "down"
    /\ ends < MaxEnds
    /\ ends' = ends + 1
    /\ Ends
    /\ UNCHANGED deaths

\* SIGINT: the listeners are shut, each worker is told to end, none is waited for.
Interrupt ==
    /\ main = "open"
    /\ main' = "ending"
    /\ inbox' = [w \in Workers |-> Append(inbox[w], [kind |-> "exit", sid |-> 0])]
    /\ UNCHANGED <<thread, begun, outbox, inside, redis, deaths, ends>>

Met(w) == {s \in Of(w) : ses[s].at # "none"}

\* A thread is gone: the sessions in its memory, and what its handlers had to do.
Gone(w) ==
    /\ thread' = [thread EXCEPT ![w] = "dead"]
    /\ ses' = [s \in Sids |-> IF s \in Met(w) THEN [ses[s] EXCEPT !.at = "lost"] ELSE ses[s]]
    /\ closing' = {c \in closing : c.sid \notin Of(w)}
    /\ wiping' = wiping \ Of(w)
    /\ left' = [left EXCEPT ![w] = <<>>]
    /\ UNCHANGED <<online, had>>

\* An error that nobody handled ends the thread, and no other.
Dies(w) ==
    /\ thread[w] \notin {"none", "dead"}
    /\ deaths < MaxDeaths
    /\ deaths' = deaths + 1
    /\ Gone(w)
    /\ Says(w, "died")
    /\ UNCHANGED <<main, begun, inbox, redis, ends>>

Hears(w, kind) == outbox[w] # <<>> /\ Head(outbox[w]) = kind
Heard(w) == outbox' = [outbox EXCEPT ![w] = Tail(@)]

Started(w) ==
    /\ Hears(w, "started")
    /\ Heard(w)
    /\ begun' = begun \cup {w}
    /\ UNCHANGED <<main, thread, inbox, inside, redis, deaths, ends>>

\* Mutant of Died: an error is logged and nothing else.
Died_Logs(w) ==
    /\ Hears(w, "died")
    /\ Heard(w)
    /\ UNCHANGED <<main, thread, begun, inbox, inside, redis, deaths, ends>>

\* An error before the thread has started rejects startup's promise, which nobody
\* handles; later it is logged.
Died(w) ==
    /\ Hears(w, "died")
    /\ IF w \in begun
       THEN /\ Heard(w)
            /\ UNCHANGED <<main, thread, begun, inbox, inside, redis, deaths, ends>>
       ELSE Ends /\ UNCHANGED <<deaths, ends>>

\* terminate()
Finished(w) ==
    /\ Hears(w, "exit")
    /\ Gone(w)
    /\ outbox' = [outbox EXCEPT ![w] = Append(Tail(@), "died")]
    /\ UNCHANGED <<main, begun, inbox, redis, deaths, ends>>

-----------------------------------------------------------------------------
\* Sessions: main gives them to a worker, and tells it when they are closed.
Tells(w, kind, s) == inbox' = [inbox EXCEPT ![w] = Append(@, [kind |-> kind, sid |-> s])]

Connect(s) ==
    /\ main = "open"
    /\ ses[s].at = "none" /\ \A r \in 1..(s - 1) : ses[r].at # "none"
    /\ online' = online \cup {s}
    /\ ses' = [ses EXCEPT ![s].at = "sent"]
    /\ Tells(Entry[s], "add", s)
    /\ UNCHANGED <<main, thread, begun, outbox, closing, wiping, left, had, redis, deaths, ends>>

Disconnect(s) ==
    /\ main = "open"
    /\ s \in online
    /\ online' = online \ {s}
    /\ Tells(Entry[s], "close", s)
    /\ UNCHANGED <<main, thread, begun, outbox, ses, closing, wiping, left, had, redis,
                   deaths, ends>>

Runs(w) == thread[w] \in {"ready", "ending", "ended"}
Took(w, kind) == Runs(w) /\ inbox[w] # <<>> /\ Head(inbox[w]).kind = kind
Rest(w) == inbox' = [inbox EXCEPT ![w] = Tail(@)]

Add(w) ==
    /\ Took(w, "add")
    /\ Rest(w)
    /\ ses' = [ses EXCEPT ![Head(inbox[w]).sid].at = "in"]
    /\ UNCHANGED <<main, thread, begun, outbox, online, closing, wiping, left, had, redis,
                   deaths, ends>>

\* user_login: neither the session nor the user is logged in.
LogIn(s, u) ==
    /\ Runs(Entry[s]) /\ ses[s].at = "in"
    /\ base[s] = NoUser /\ bound[u] = 0
    /\ base' = [base EXCEPT ![s] = u]
    /\ bound' = [bound EXCEPT ![u] = s]
    /\ ses' = [ses EXCEPT ![s].user = u]
    /\ UNCHANGED <<main, thread, begun, ports, online, closing, wiping, left, had, clearing,
                   deaths, ends>>

\* on_session_close: a player is flushed first, and then, or if there is none, the
\* session is deleted; the removal of its data is not awaited.
Closes(s, by) ==
    IF ses[s].at = "in" /\ ses[s].user # NoUser
    THEN closing' = closing \cup {[sid |-> s, by |-> by]} /\ UNCHANGED <<ses, wiping>>
    ELSE /\ ses' = [ses EXCEPT ![s].at = "gone"]
         /\ wiping' = wiping \cup {s}
         /\ UNCHANGED closing

Close(w) ==
    /\ Took(w, "close")
    /\ Rest(w)
    /\ Closes(Head(inbox[w]).sid, "message")
    /\ UNCHANGED <<main, thread, begun, outbox, online, left, had, redis, deaths, ends>>

Flushed(c) ==
    /\ closing' = closing \ {c}
    /\ ses' = [ses EXCEPT ![c.sid].at = "gone"]
    /\ wiping' = wiping \cup {c.sid}
    /\ UNCHANGED <<main, thread, begun, ports, online, left, had, redis, deaths, ends>>

\* Mutant of Wipe: the binding is left.
Wipe_Base(s) ==
    /\ wiping' = wiping \ {s}
    /\ base' = [base EXCEPT ![s] = NoUser]
    /\ UNCHANGED <<main, thread, begun, ports, online, ses, closing, left, had, clearing, bound,
                   deaths, ends>>

Wipe(s) ==
    /\ wiping' = wiping \ {s}
    /\ bound' = [u \in Users |-> IF base[s] = u THEN 0 ELSE bound[u]]
    /\ base' = [base EXCEPT ![s] = NoUser]
    /\ UNCHANGED <<main, thread, begun, ports, online, ses, closing, left, had, clearing,
                   deaths, ends>>

\* startshutingdown: one session after the other of those that are there
There(w) == {s \in Of(w) : ses[s].at = "in"}

Exit(w) ==
    /\ Took(w, "exit")
    /\ Rest(w)
    /\ thread' = [thread EXCEPT ![w] = "ending"]
    /\ had' = [had EXCEPT ![w] = There(w)]
    /\ \E q \in [1..Cardinality(There(w)) -> There(w)] :
          /\ \A s \in There(w) : \E k \in DOMAIN q : q[k] = s
          /\ left' = [left EXCEPT ![w] = q]
    /\ UNCHANGED <<main, begun, outbox, online, ses, closing, wiping, redis, deaths, ends>>

\* Mutant of InTurn: a close is not awaited.
InTurn_Hurries(w) == thread[w] = "ending"

InTurn(w) == thread[w] = "ending" /\ \A c \in closing : c.sid \in Of(w) => c.by # "end"

CloseNext(w) ==
    /\ InTurn(w) /\ left[w] # <<>>
    /\ left' = [left EXCEPT ![w] = Tail(@)]
    /\ Closes(Head(left[w]), "end")
    /\ UNCHANGED <<main, thread, begun, ports, online, had, redis, deaths, ends>>

\* _w2m_exit
Ended(w) ==
    /\ InTurn(w) /\ left[w] = <<>>
    /\ thread' = [thread EXCEPT ![w] = "ended"]
    /\ Says(w, "exit")
    /\ UNCHANGED <<main, begun, inbox, inside, redis, deaths, ends>>

-----------------------------------------------------------------------------
Hear(w) == Started(w) \/ Died(w) \/ Finished(w)
Take(w) == Add(w) \/ Close(w) \/ Exit(w)
Replies == (\E c \in closing : Flushed(c)) \/ (\E s \in wiping : Wipe(s))

Next ==
    \/ Boot \/ Clear \/ Open \/ Interrupt \/ ProcessEnds
    \/ \E w \in Workers : Load(w) \/ Dies(w) \/ Hear(w) \/ Take(w) \/ CloseNext(w) \/ Ended(w)
    \/ \E s \in Sids : Connect(s) \/ Disconnect(s) \/ \E u \in Users : LogIn(s, u)
    \/ Replies

Spec == Init /\ [][Next]_vars

\* Threads load, messages between them arrive and Redis replies.
Fair ==
    /\ WF_vars(Open) /\ WF_vars(Clear) /\ WF_vars(Replies)
    /\ \A w \in Workers : WF_vars(Load(w)) /\ WF_vars(Hear(w)) /\ WF_vars(Take(w))

FairSpec == Spec /\ Fair
-----------------------------------------------------------------------------
TypeOK ==
    /\ main \in {"down", "starting", "open", "stuck", "ending"}
    /\ thread \in [Workers -> {"none", "loading", "ready", "ending", "ended", "dead"}]
    /\ begun \subseteq Workers
    /\ inbox \in [Workers -> Seq([kind : {"add", "close", "exit"}, sid : 0..MaxSid])]
    /\ outbox \in [Workers -> Seq({"started", "exit", "died"})]
    /\ online \subseteq Sids
    /\ ses \in [Sids -> [at : {"none", "sent", "in", "gone", "lost"}, user : Users \cup {NoUser}]]
    /\ closing \subseteq [sid : Sids, by : {"message", "end"}]
    /\ wiping \subseteq Sids
    /\ left \in [Workers -> Seq(Sids)]
    /\ had \in [Workers -> SUBSET Sids]
    /\ clearing \in BOOLEAN
    /\ bound \in [Users -> 0..MaxSid]
    /\ base \in [Sids -> Users \cup {NoUser}]
    /\ deaths \in 0..MaxDeaths /\ ends \in 0..MaxEnds

\* While the server is open and its start has cleared the sessions, who is bound to
\* a session is there with it, is being removed, or has lost its worker: nobody is
\* shut out by what an earlier process left, whose numbers are given out again
\* (natrium_server.ts:64).
BoundIsPresent ==
    main = "open" /\ ~clearing => \A u \in Users : bound[u] # 0 =>
        /\ ses[bound[u]].user = u
        /\ ses[bound[u]].at \in {"in", "lost"} \/ bound[u] \in wiping

\* A worker that says that it is done has closed every session that it had when it
\* was told to end, also one whose connection closed at the same time ("clear
\* sessions & save data", servicebase.ts:75).
ToldIsClosed ==
    \A w \in Workers : thread[w] = "ended" => \A s \in had[w] : ses[s].at = "gone"

\* A start comes to an end, whichever thread fails before or after it has begun: no
\* promise that startup waits for stays open (_threads.ts:171).
Settles == main = "starting" ~> main # "starting"

\* Whose connection closes is free to log in again, unless its worker has failed.
Frees ==
    \A s \in Sids, u \in Users :
        bound[u] = s /\ ~clearing /\ main = "open" /\ s \notin online
            ~> bound[u] # s \/ main # "open" \/ thread[Entry[s]] = "dead"
=============================================================================
