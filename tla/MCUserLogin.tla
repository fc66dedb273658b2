----------------------------- MODULE MCUserLogin -----------------------------
EXTENDS UserLogin

CONSTANTS s1, s2, s3, old, new

\* One user whose player is stored, one who has none yet.
MCStored == [u \in Uids |-> IF u = old THEN 1 ELSE 0]

\* Every session logs in and creates a player, or tries again.
MCAllTwo == [s \in Sids |-> 2]
=============================================================================
