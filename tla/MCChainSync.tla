----------------------------- MODULE MCChainSync -----------------------------
EXTENDS ChainSync

\* Blocks 0xd to 0x12: the sort by text turns at 0x10, and there is a block of
\* every kind on either side of it or next to it.
MCKind == [n \in First..Last |->
    IF n = 15 THEN "plain" ELSE IF n = 17 THEN "empty" ELSE "watched"]
=============================================================================
