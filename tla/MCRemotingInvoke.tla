-------------------------- MODULE MCRemotingInvoke --------------------------
(* Instances of RemotingInvoke for TLC: all calls are made on one channel. *)
EXTENDS RemotingInvoke, TLC

CONSTANTS ch1, Scenarios  \* which calls may be made in the same behaviour

MCChannelOf == [c \in Calls |-> ch1]

Symmetric == Permutations(AsyncCalls)

(* Scenarios bounds the calls that are begun, not what happens to them: no *)
(* fairness is assumed of a caller that has not begun.                     *)
Begun == {c \in Calls : caller[c] # "idle"}
InScenario == \E calls \in Scenarios : Begun' \subseteq calls
=============================================================================
