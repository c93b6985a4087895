---- MODULE RequestReply ----
(***************************************************************************)
(* What the order API promises about every call it accepts: the call is    *)
(* refused at once or opened, the order pipeline decides an open call at   *)
(* most once, and an open call is closed exactly once, with the pipeline's *)
(* verdict or with a failure that the service itself produced.             *)
(*                                                                         *)
(* This is the abstract specification that ResponseCoordinator implements. *)
(***************************************************************************)
CONSTANT Requests

VARIABLES
  phase,     \* phase[r]: where the call is in its life
  verdict,   \* verdict[r]: what the pipeline decided, "none" before it does
  answer     \* answer[r]: what the API client was told, "none" before that

vars == <<phase, verdict, answer>>

Verdict == {"COMPLETED", "ERROR"}

\* Failures that do not come from the pipeline.
ServiceFailure == {"TIMEOUT", "SHUTDOWN", "NOT_FOUND", "NO_RESULT"}

Init ==
  /\ phase = [r \in Requests |-> "idle"]
  /\ verdict = [r \in Requests |-> "none"]
  /\ answer = [r \in Requests |-> "none"]

Open(r) ==
  /\ phase[r] = "idle"
  /\ phase' = [phase EXCEPT ![r] = "open"]
  /\ UNCHANGED <<verdict, answer>>

Refuse(r) ==
  /\ phase[r] = "idle"
  /\ phase' = [phase EXCEPT ![r] = "closed"]
  /\ answer' = [answer EXCEPT ![r] = "REFUSED"]
  /\ UNCHANGED verdict

Decide(r) ==
  /\ phase[r] = "open"
  /\ verdict[r] = "none"
  /\ \E v \in Verdict : verdict' = [verdict EXCEPT ![r] = v]
  /\ UNCHANGED <<phase, answer>>

Reply(r) ==
  /\ phase[r] = "open"
  /\ phase' = [phase EXCEPT ![r] = "closed"]
  /\ \E a \in ({verdict[r]} \ {"none"}) \cup ServiceFailure :
       answer' = [answer EXCEPT ![r] = a]
  /\ UNCHANGED verdict

Next == \E r \in Requests : Open(r) \/ Refuse(r) \/ Decide(r) \/ Reply(r)

SafeSpec == Init /\ [][Next]_vars

Spec == SafeSpec /\ \A r \in Requests : WF_vars(Reply(r))
====
