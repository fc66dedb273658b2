---------------------------- MODULE MCUserRecords ----------------------------
EXTENDS UserRecords, TLC

CONSTANTS w1, w2, i1, i2

\* Two mints name one wallet, with that of another between them.
MCTo == [t \in Mints |-> IF t = 2 THEN w1 ELSE w2]

Alike == Permutations(Posts)
=============================================================================
