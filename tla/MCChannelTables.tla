--------------------------- MODULE MCChannelTables ---------------------------
(* Instances of ChannelTables for TLC: several callers share one address. *)
EXTENDS ChannelTables, TLC

CONSTANT center

MCAddrOf == [c \in Channels |-> center]
=============================================================================
