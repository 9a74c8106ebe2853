----------------------------- MODULE TokenPool -----------------------------
(***************************************************************************)
(* What a Connector (smc/smc.go) promises the peer: at most Capacity       *)
(* sessions hold resources of the SMC backend at a time, and every session *)
(* gives its share back exactly once.                                      *)
(***************************************************************************)
EXTENDS Naturals, FiniteSets

CONSTANTS
  Holders,  \* those who may hold a token
  Capacity  \* tokens there are

VARIABLE held  \* the holders of a token

Init == held = {}

\* RequestSession blocks until resources allow for a new session.
Acquire(h) ==
  /\ h \notin held
  /\ Cardinality(held) < Capacity
  /\ held' = held \cup {h}

\* TearDown, or the end of the session, frees the resources.
Release(h) ==
  /\ h \in held
  /\ held' = held \ {h}

Next == \E h \in Holders : Acquire(h) \/ Release(h)

Spec == Init /\ [][Next]_held
=============================================================================
