------------------------------ MODULE MCFactory ------------------------------
EXTENDS Factory

CONSTANTS ore, wood, tool, h1, p1

\* Two of one input and one of the other make a product, in a second.
MCCost == [p \in {tool} |-> [i \in {ore, wood} |-> IF i = ore THEN 2 ELSE 1]]
MCTimeS == [p \in {tool} |-> 1]
=============================================================================
