-------------------------- MODULE MCSessionRouting --------------------------
EXTENDS SessionRouting

CONSTANTS s1, s2, out, worldA, worldB

\* One outgame worker and the two world workers of config/serverconf.json.
MCOutGame == {out}
MCWorld == {worldA, worldB}
MCEntry == [s \in Sids |-> out]
MCHome == [s \in Sids |-> worldA]
=============================================================================
