-------------------------- MODULE MCOrchestration --------------------------
(* Instances of Orchestration for TLC. *)
EXTENDS Orchestration, TLC

Symmetry == Permutations(Peers) \cup Permutations(Workers)

\* The backend's answers: success, or a refusal that keeps the session.
SomeStatus == {SUCCESS, DENIED}
OnlySuccess == {SUCCESS}

\* HandleErrFlags as Request passes it, at first and on the resubmit.
AllFlags == {RequestFlags, ResubmitFlags}
OneTask  == {1}
TwoTasks == {2}
=============================================================================
