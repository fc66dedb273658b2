--------------------------- MODULE MCWorldPlayers ---------------------------
EXTENDS WorldPlayers

CONSTANTS a1, a2, b1, ann, bob, w0, w1

\* Two sessions of one user, one of another; maps 2 and 4 are on one worker.
MCUserOf == [s \in Sids |-> IF s = b1 THEN bob ELSE ann]
MCWorkerOf == [m \in Maps |-> IF m % 2 = 0 THEN w0 ELSE w1]
MCFirstMap == [u \in Users |-> 2]

\* Ann may ask to go to one worker and walk to another map before she is sent.
MCMaxVer == [u \in Users |-> IF u = ann THEN 2 ELSE 1]
=============================================================================
