------------------------------ MODULE Session ------------------------------
(***************************************************************************)
(* The peer's SMC sessions: the pool of tokens behind a Connector, and the *)
(* two implementations of Connector and Session, Fresco (smc/smc_fresco.go)*)
(* and the mock (smc/smc_mock.go).  A session is created with a token, and *)
(* must return it once: when a command ends it or when it is torn down.    *)
(*                                                                         *)
(* All calls on one session come from one goroutine at a time (the spawner *)
(* first, then its bridge), so a call is one step.                         *)
(***************************************************************************)
EXTENDS Naturals, FiniteSets

CONSTANTS
  Sessions,         \* session objects; one is reused when nobody refers to it
  parallelSessions, \* capacity of readyWorkers
  Connectors        \* the connectors to consider: "fresco", "mock"

ASSUME PoolAssumption == parallelSessions \in Nat \ {0}
ASSUME SessionsAssumption == IsFiniteSet(Sessions)
ASSUME ConnectorsAssumption == Connectors \subseteq {"fresco", "mock"}

VARIABLES
  connector,    \* DefaultSMCConnector
  readyWorkers, \* tokens in the channel of the connector
  session       \* per session object: its state

sessionVars == <<connector, readyWorkers, session>>

(***************************************************************************)
(* state is the chatState of a Fresco session ("requestTearDown" does not  *)
(* outlive a call) or the phase of a mock one; id tells that Init set the  *)
(* session ID; tearedDown that the token went back (the mock's field).     *)
(***************************************************************************)
Absent == [state |-> "none", id |-> FALSE, tearedDown |-> TRUE]
States == {"none", "running", "stopped", "init", "PREPARE", "FINISH", "ABORT"}

SessionTypeOK ==
  /\ connector \in Connectors
  /\ readyWorkers \in 0..parallelSessions
  /\ session \in [Sessions -> [state : States, id : BOOLEAN, tearedDown : BOOLEAN]]

newConnector ==
  /\ connector \in Connectors
  /\ readyWorkers = parallelSessions
  /\ session = [s \in Sessions |-> Absent]

\* A new session object (s is not in use); the zero value of a mock session's
\* phase is PREPARE.
RequestSession(s) ==
  /\ session[s].tearedDown
  /\ readyWorkers > 0
  /\ readyWorkers' = readyWorkers - 1
  /\ session' = [session EXCEPT ![s] =
       [state |-> IF connector = "fresco" THEN "running" ELSE "PREPARE",
        id |-> FALSE, tearedDown |-> FALSE]]
  /\ UNCHANGED connector

\* The session ends in state st and its token returns; the send on the channel
\* would block if the pool were full.
Release(s, st) ==
  /\ readyWorkers < parallelSessions
  /\ readyWorkers' = readyWorkers + 1
  /\ session' = [session EXCEPT ![s].state = st, ![s].tearedDown = TRUE]
  /\ UNCHANGED connector

Become(s, st) ==
  /\ session' = [session EXCEPT ![s].state = st]
  /\ UNCHANGED <<connector, readyWorkers>>

\* Mutant: the state of a stopped Fresco session is not looked at.
TearDownAgain(s) ==
  IF readyWorkers < parallelSessions THEN Release(s, "stopped") ELSE UNCHANGED sessionVars

\* frescoSession.TearDown with condFreeResources.
FrescoTearDown(s) ==
  IF session[s].state # "stopped" THEN Release(s, "stopped") ELSE UNCHANGED sessionVars

\* smcSessionMock.TearDown with condTearDown and releaseResources.
MockTearDown(s) ==
  IF session[s].tearedDown THEN Become(s, "FINISH") ELSE Release(s, "FINISH")

TearDown(s) == IF connector = "fresco" THEN FrescoTearDown(s) ELSE MockTearDown(s)

\* ok: the backend answered and accepted.  A refused session is torn down
\* within Init.
Init(s, ok) ==
  IF connector = "mock"
  THEN /\ ok
       /\ session' = [session EXCEPT ![s].state = "init", ![s].id = TRUE]
       /\ UNCHANGED <<connector, readyWorkers>>
  ELSE IF ok
       THEN /\ session' = [session EXCEPT ![s].state = "running", ![s].id = TRUE]
            /\ UNCHANGED <<connector, readyWorkers>>
       ELSE FrescoTearDown(s)

-----------------------------------------------------------------------------
(* NextCmd.  A command is its payload and whether it carries the session's  *)
(* ID (if not, its payload is not looked at); more tells the bridge to wait *)
(* for another one.                                                        *)

Command == [payload : {"prepare", "link", "session", "debug"}, sameID : {TRUE}]
           \cup {[payload |-> "prepare", sameID |-> FALSE]}

\* What the backend's NextCmd returns: a status, or an error of the call.
Answers == {"SUCCESS", "SUCCESS_DONE", "DENIED", "ABORTED", "STREAM_ERR", "error"}

\* Statuses without a bit of SEVERE_ERROR_CLASSES, SUCCESS_DONE aside.
KeepsSession == {"SUCCESS", "DENIED"}

\* Mutant: every status that is not severe keeps the session.
KeepOnDone(s, cmd, out, more) ==
  /\ more = (cmd.sameID /\ out \in KeepsSession \cup {"SUCCESS_DONE"})
  /\ IF out \in KeepsSession THEN UNCHANGED sessionVars ELSE Release(s, "stopped")

\* Unlike TearDown, a command that ends the session returns the token whatever
\* state the session is in.
FrescoNextCmd(s, cmd, out, more) ==
  /\ more = (cmd.sameID /\ out \in KeepsSession)
  /\ IF more THEN UNCHANGED sessionVars ELSE Release(s, "stopped")

allowPhaseTransition(s, payload) ==
  CASE payload = "prepare" -> session[s].state \in {"init", "PREPARE"}
    [] payload = "session" -> session[s].state = "PREPARE"
    [] OTHER               -> FALSE

\* doSession tears the session down before its result is on the way.
MockNextCmd(s, cmd, more) ==
  IF cmd.sameID /\ allowPhaseTransition(s, cmd.payload)
  THEN /\ more = (cmd.payload = "prepare")
       /\ IF more THEN Become(s, "PREPARE") ELSE MockTearDown(s)
  ELSE /\ ~more
       /\ IF session[s].tearedDown THEN Become(s, "ABORT") ELSE Release(s, "ABORT")

NextCmd(s, cmd, out, more) ==
  IF connector = "fresco" THEN FrescoNextCmd(s, cmd, out, more)
  ELSE MockNextCmd(s, cmd, more)

-----------------------------------------------------------------------------
Held == {s \in Sessions : ~session[s].tearedDown}

\* No token is lost and none is made up, whichever way sessions end: NextCmd,
\* Init and TearDown return it (smc_fresco.go:181, smc_mock.go:150), so the
\* send on the channel never blocks and the next reservation is never starved.
TokensConserved == readyWorkers + Cardinality(Held) = parallelSessions

\* Both connectors implement the promise of their interface.
Pool == INSTANCE TokenPool WITH
  Holders <- Sessions, Capacity <- parallelSessions, held <- Held
=============================================================================
