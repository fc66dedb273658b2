--------------------------- MODULE MCPacketLink ---------------------------
EXTENDS PacketLink

CONSTANTS c1, c2, short, zip, huge, odd

\* A byte has three values here: fields of one, two and four bytes end before
\* the lengths 3, 9 and 81.  Nobody has registered odd.
MCBodies == SysBodies \cup {short, zip, huge, odd}
MCSize == [b \in Bodies |->
    CASE b = short -> 3 [] b = zip -> 12 [] b = huge -> 81 [] OTHER -> 2]
MCDeflated == [b \in Bodies |-> IF b = zip THEN 9 ELSE MCSize[b] + 1]
MCRegistered == {zip}
MCAhead == [c \in Clients |-> IF c = c1 THEN 5 ELSE 0]

\* Json and Grpc
MCPackets == {<<2, short>>, <<4, zip>>, <<2, huge>>, <<4, odd>>}
=============================================================================
