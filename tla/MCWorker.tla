----------------------------- MODULE MCWorker -----------------------------
(* Instances of Worker for TLC. *)
EXTENDS Worker, TLC

Symmetry == Permutations(Peers) \cup Permutations(Workers) \cup Permutations(Jobs)

\* The backend's answers: success, or a refusal that keeps the session.
SomeStatus == {SUCCESS, DENIED}

\* HandleErrFlags as Request passes it when it submits a job.
RequestFlags == {{32, 128}}

TwoTasks == {2}
=============================================================================
