------------------------------ MODULE MCGossip ------------------------------
(* Instances of Gossip for TLC. *)
EXTENDS Gossip

CONSTANTS na, nb, s1, s2

\* Two nodes that tell each other; b may have pinned a's key.
MCTopology == {<<na, nb>>, <<nb, na>>}
MCOrigins == {<<na, s1>>, <<nb, s2>>}
MCPinnable == {<<nb, na>>}
=============================================================================
