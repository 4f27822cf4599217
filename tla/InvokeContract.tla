--------------------------- MODULE InvokeContract ---------------------------
(***************************************************************************)
(* What invokeSync and invokeAsync promise their caller, whatever happens  *)
(* to the connection: a call is refused at once or pending; a pending call *)
(* ends once, with one outcome that never changes, and "response" is an    *)
(* outcome only of a call the peer answered.                               *)
(***************************************************************************)
CONSTANTS SyncCalls, AsyncCalls

VARIABLES phase, answered, outcome

vars == <<phase, answered, outcome>>

Tracked == SyncCalls \cup AsyncCalls

Verdicts(c) ==
  IF c \in SyncCalls THEN {"response", "timeout", "sendFailure", "exception"}
                     ELSE {"response", "null"}

Init ==
  /\ phase = [c \in Tracked |-> "idle"]
  /\ answered = {}
  /\ outcome = [c \in Tracked |-> "none"]

(* The call is put in responseTable. *)
Begin(c) ==
  /\ phase[c] = "idle"
  /\ phase' = [phase EXCEPT ![c] = "pending"]
  /\ UNCHANGED <<answered, outcome>>

(* No permit in time: an exception, and the callback will never run. *)
Refuse(c) ==
  /\ c \in AsyncCalls
  /\ phase[c] = "idle"
  /\ phase' = [phase EXCEPT ![c] = "refused"]
  /\ UNCHANGED <<answered, outcome>>

(* The peer answers, perhaps too late. *)
Answer(c) ==
  /\ phase[c] \in {"pending", "done"}
  /\ answered' = answered \cup {c}
  /\ UNCHANGED <<phase, outcome>>

(* The sync caller gets its verdict, or the async callback runs. *)
Finish(c) ==
  /\ phase[c] = "pending"
  /\ phase' = [phase EXCEPT ![c] = "done"]
  /\ \E v \in Verdicts(c) :
       /\ v = "response" => c \in answered
       /\ outcome' = [outcome EXCEPT ![c] = v]
  /\ UNCHANGED answered

Next == \E c \in Tracked : Begin(c) \/ Refuse(c) \/ Answer(c) \/ Finish(c)

Spec == Init /\ [][Next]_vars

FairSpec == Spec /\ \A c \in Tracked : WF_vars(Finish(c))
=============================================================================
