--------------------------- MODULE MCNodeRegistry ---------------------------
(* Instances of NodeRegistry for TLC: one node connects again and again. *)
EXTENDS NodeRegistry

CONSTANT node

MCNodeOf == [ch \in Channels |-> node]
=============================================================================
