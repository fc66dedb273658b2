----------------------------- MODULE MCThreadLife -----------------------------
EXTENDS ThreadLife

CONSTANTS w1, w2, u1, u2

\* One worker has all the connections.
MCEntry == [s \in Sids |-> w1]
=============================================================================
