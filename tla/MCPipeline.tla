----------------------------- MODULE MCPipeline -----------------------------
(* Instances of Pipeline for TLC. *)
EXTENDS Pipeline, TLC

Symmetry == Permutations(Requests)

Task(min, max, sorted, link, pings) ==
  [min |-> min, max |-> max, sorted |-> sorted, link |-> link, pings |-> pings]

\* A production task; a sorted one for one peer at most; a debug task for two.
SomeTasks == {Task(0, 0, FALSE, TRUE, 0), Task(0, 1, TRUE, FALSE, 0), Task(2, 1, FALSE, FALSE, 1)}
=============================================================================
