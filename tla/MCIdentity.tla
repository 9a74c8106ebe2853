----------------------------- MODULE MCIdentity -----------------------------
(***************************************************************************)
(* The identities of the peers of a job: Orchestration with a history      *)
(* variable that keeps what the first phase announced.  It is kept apart   *)
(* since only one question needs it.                                       *)
(***************************************************************************)
EXTENDS MCOrchestration

VARIABLE announced \* SmcPeerID in the last instruction of the first phase

\* What is announced once the instructions of this step are in the chats.
Announce ==
  announced' = [j \in Jobs |-> [p \in Peers |->
    IF \E c \in to'[j][p] : c.phase = 0
      THEN (CHOOSE c \in to'[j][p] : c.phase = 0).id
      ELSE announced[j][p]]]

IdentityInit == OrchInit /\ announced = [j \in Jobs |-> [p \in Peers |-> 0]]

IdentityNext == OrchNext /\ Announce

IdentitySpec == IdentityInit /\ [][IdentityNext]_<<allVars, announced>>

\* The identity a peer is given for an SMC task (job.proto) lasts for the task:
\* later phases address the peer by the identity the first phase announced.
SmcPeerIDStable ==
  \A j \in Jobs : \A p \in chats[j] :
    \A c \in to[j][p] \cup relay[j][p] : c.phase > 0 => c.id = announced[j][p]
=============================================================================
