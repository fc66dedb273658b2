------------------------------ MODULE ChainFeed ------------------------------
(***************************************************************************)
(* What the pair of block monitor and event watcher promises: every        *)
(* transaction of a watched contract is taken into the game, and the       *)
(* height that survives a restart only grows and passes a block only after *)
(* that, until the store the pair relies on fails it for the first time.   *)
(***************************************************************************)
EXTENDS Integers

CONSTANTS First, Last, Watched

VARIABLES
    taken,    \* blocks whose watched transaction is processed and recorded
    cursor,   \* the height kept over restarts
    trusted   \* the store has not failed yet

vars == <<taken, cursor, trusted>>

Init == taken = {} /\ cursor = First - 1 /\ trusted = TRUE

Take(n) ==
    /\ n \in Watched \ taken
    /\ taken' = taken \cup {n}
    /\ UNCHANGED <<cursor, trusted>>

Advance(c) ==
    /\ c > cursor
    /\ trusted => {n \in Watched : n <= c} \subseteq taken
    /\ cursor' = c
    /\ UNCHANGED <<taken, trusted>>

Distrust ==
    /\ trusted
    /\ trusted' = FALSE
    /\ UNCHANGED <<taken, cursor>>

Next ==
    \/ \E n \in Watched : Take(n)
    \/ \E c \in First..Last : Advance(c)
    \/ Distrust

Spec == Init /\ [][Next]_vars
=============================================================================
