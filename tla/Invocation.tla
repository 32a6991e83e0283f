----------------------------- MODULE Invocation -----------------------------
(***************************************************************************)
(* What an assembled transaction promises its callers, with none of the    *)
(* simulation, restoration, signing and polling: the network accepts its   *)
(* invocation at most once, settles it at most once, and submit() never    *)
(* reports an outcome that the invocation does not have.                   *)
(***************************************************************************)
CONSTANTS
  Objects,  \* the assembled transactions
  Callers,  \* who calls their methods
  Of        \* the object that each caller uses

VARIABLES
  stage,   \* what the network knows of an object's invocation
  report   \* what a caller's last submit() reported, until its next call

Stages  == {"unsent", "accepted", "succeeded", "failed"}
Reports == {"none", "SendFailed", "Success", "Failed"}

Init ==
  /\ stage = [o \in Objects |-> "unsent"]
  /\ report = [c \in Callers |-> "none"]

\* Only once, and never after a caller was told how the invocation ended.
Accept(o) ==
  /\ stage[o] = "unsent"
  /\ \A c \in Callers : Of[c] = o => report[c] = "none"
  /\ stage' = [stage EXCEPT ![o] = "accepted"]
  /\ UNCHANGED report

Settle(o) ==
  /\ stage[o] = "accepted"
  /\ \E final \in {"succeeded", "failed"} : stage' = [stage EXCEPT ![o] = final]
  /\ UNCHANGED report

\* A submit() reports something, or a later call makes that a thing of the past.
Tell(c) ==
  /\ \E how \in Reports :
       /\ how = "SendFailed" => stage[Of[c]] = "unsent"
       /\ how = "Success" => stage[Of[c]] = "succeeded"
       /\ how = "Failed" => stage[Of[c]] = "failed"
       /\ report' = [report EXCEPT ![c] = how]
  /\ UNCHANGED stage

Next ==
  \/ \E c \in Callers : Tell(c)
  \/ \E o \in Objects : Accept(o) \/ Settle(o)

Spec == Init /\ [][Next]_<<stage, report>>

=============================================================================
