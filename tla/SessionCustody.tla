--------------------------- MODULE SessionCustody ---------------------------
(***************************************************************************)
(* What the routing of sessions promises, without ports, tables and marks: *)
(* a session has one custodian.  Main assigns it to a worker, the worker   *)
(* takes it in, main takes it off that worker, the worker lets it go, and  *)
(* only then main assigns it again.  Once dropped it is never assigned.    *)
(***************************************************************************)
CONSTANTS Sids, Workers, Nowhere

VARIABLES
    route,    \* what main decided: "new", a worker, "moving" or "gone"
    pending,  \* the worker that is still to take the session in, or Nowhere
    home      \* the worker that has the session, or Nowhere

vars == <<route, pending, home>>

Init ==
    /\ route = [s \in Sids |-> "new"]
    /\ pending = [s \in Sids |-> Nowhere]
    /\ home = [s \in Sids |-> Nowhere]

\* The new owner is named only when no worker has the session any more.
Assign(s, w) ==
    /\ route[s] \in {"new", "moving"}
    /\ home[s] = Nowhere
    /\ route' = [route EXCEPT ![s] = w]
    /\ pending' = [pending EXCEPT ![s] = w]
    /\ UNCHANGED home

TakeIn(s) ==
    /\ pending[s] # Nowhere
    /\ home[s] = Nowhere
    /\ home' = [home EXCEPT ![s] = pending[s]]
    /\ pending' = [pending EXCEPT ![s] = Nowhere]
    /\ UNCHANGED route

\* A change of service is asked for by the worker that has the session.
TakeOff(s) ==
    /\ route[s] \in Workers
    /\ home[s] = route[s]
    /\ route' = [route EXCEPT ![s] = "moving"]
    /\ UNCHANGED <<pending, home>>

Drop(s) ==
    /\ route[s] \in Workers
    /\ route' = [route EXCEPT ![s] = "gone"]
    /\ UNCHANGED <<pending, home>>

LetGo(s) ==
    /\ home[s] # Nowhere
    /\ route[s] \in {"moving", "gone"}
    /\ home' = [home EXCEPT ![s] = Nowhere]
    /\ UNCHANGED <<route, pending>>

Next == \E s \in Sids :
    \/ \E w \in Workers : Assign(s, w)
    \/ TakeIn(s) \/ TakeOff(s) \/ Drop(s) \/ LetGo(s)

Spec == Init /\ [][Next]_vars
=============================================================================
