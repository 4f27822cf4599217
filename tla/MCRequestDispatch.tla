-------------------------- MODULE MCRequestDispatch --------------------------
(* An instance of RequestDispatch for TLC: requests of two connections in a *)
(* pool that is smaller than their number.                                  *)
EXTENDS RequestDispatch, TLC

CONSTANTS c1, c2, r1, r2, r3

MCChannelOf == (r1 :> c1) @@ (r2 :> c1) @@ (r3 :> c2)
=============================================================================
