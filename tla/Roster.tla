------------------------------- MODULE Roster -------------------------------
(***************************************************************************)
(* What the directory tells those who plan jobs (orchestration/pipeline):  *)
(* which peers it knows, Registry.GetAll, and which of them are online,    *)
(* Watcher.AvailablePeers.  A peer stays known; it is never online before  *)
(* it is known.  Module Directory implements it.                           *)
(***************************************************************************)
EXTENDS Naturals

CONSTANT Peers  \* authenticated peers, numbered in the order of their IDs

VARIABLES
  known,   \* peers in the registry
  online   \* peers the watcher lists

rosterVars == <<known, online>>

RosterInit == known = {} /\ online = {}

Register(p) ==
  /\ p \notin known
  /\ known' = known \cup {p}
  /\ UNCHANGED online

Appear(p) ==
  /\ p \in known \ online
  /\ online' = online \cup {p}
  /\ UNCHANGED known

Vanish(p) ==
  /\ p \in online
  /\ online' = online \ {p}
  /\ UNCHANGED known

RosterNext == \E p \in Peers : Register(p) \/ Appear(p) \/ Vanish(p)

RosterSpec == RosterInit /\ [][RosterNext]_rosterVars
=============================================================================
