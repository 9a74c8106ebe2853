------------------------------- MODULE MCPeer -------------------------------
(* Instances of PeerNode for TLC. *)
EXTENDS PeerNode, TLC

Symmetry == Permutations(Sessions)
Both == {"fresco", "mock"}
=============================================================================
