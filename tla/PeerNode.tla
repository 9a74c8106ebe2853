------------------------------ MODULE PeerNode ------------------------------
(***************************************************************************)
(* A peer node: the run states of node/peer.go, the health reporter and    *)
(* the SMC advisor (node/modules) with one bridge per stream to the        *)
(* gateway, over the sessions of module Session.                           *)
(*                                                                         *)
(* Goroutines: the master routine (run), the ping loop (health), the       *)
(* spawner of bridges or, when the advisor fails to start, the reporter of *)
(* its error (spawner), and one bridge per session.  They share a module   *)
(* context; a new one is made when modules start, and QuietRestart shows   *)
(* that no goroutine of the old one is left then, so the state needs room  *)
(* for one context only.                                                   *)
(*                                                                         *)
(* The gateway and the SMC backend may fail and come back at any time.     *)
(***************************************************************************)
EXTENDS Session

CONSTANTS
  RetryConnection,  \* failed pings before the connection is set up anew
  UsePairing,       \* option of the peer
  DebugModeEnabled  \* whether debug phases are obeyed

ASSUME RetryAssumption == RetryConnection \in Nat \ {0}
ASSUME OptionsAssumption == UsePairing \in BOOLEAN /\ DebugModeEnabled \in BOOLEAN

VARIABLES
  run,       \* Peer.state, with the stages of startService and watchService
  connRetry, \* Peer.connRetry
  cancelled, \* modCancel was called for the context of the modules
  health,    \* whether the ping loop runs
  spawner,   \* where BlockingSpawn stands, and the session it holds
  bridge,    \* per session: where its bridge stands, and its command
  gwUp,      \* the gateway answers
  smcUp      \* the SMC backend answers, and accepts its reset

masterVars == <<run, connRetry>>
envVars    == <<gwUp, smcUp>>
peerVars   == <<sessionVars, masterVars, cancelled, health, spawner, bridge, envVars>>

RunState == {"Discovery", "Pairing", "Resolving", "Connecting", "StartAdvisor",
             "Operating", "WaitAll", "Restart"}
Idle     == [pc |-> "off", sess |-> {}]
NoBridge == [pc |-> "none", cmd |-> {}, first |-> TRUE]

PeerTypeOK ==
  /\ SessionTypeOK
  /\ run \in RunState
  /\ connRetry \in 0..RetryConnection
  /\ cancelled \in BOOLEAN
  /\ health \in {"off", "on"}
  /\ spawner \in [pc : {"off", "request", "await", "report"}, sess : SUBSET Sessions]
  /\ bridge \in [Sessions -> [pc : {"none", "recv", "cmd", "close", "done"},
                              cmd : SUBSET Command, first : BOOLEAN]]
  /\ gwUp \in BOOLEAN /\ smcUp \in BOOLEAN

PeerInit ==
  /\ newConnector
  /\ run = "Discovery" /\ connRetry = 0
  /\ cancelled = FALSE /\ health = "off" /\ spawner = Idle
  /\ bridge = [s \in Sessions |-> NoBridge]
  /\ gwUp \in BOOLEAN /\ smcUp \in BOOLEAN

-----------------------------------------------------------------------------
(* The master routine *)

Goto(st) == run' = st

\* An unknown gateway leads to pairing as well.
discover ==
  /\ run = "Discovery"
  /\ IF UsePairing THEN Goto("Pairing") ELSE run' \in {"Pairing", "Resolving"}
  /\ UNCHANGED <<sessionVars, connRetry, cancelled, health, spawner, bridge, envVars>>

\* A refused pairing is no obstacle; an unreachable gateway is.
startPairing ==
  /\ run = "Pairing"
  /\ Goto(IF UsePairing /\ ~gwUp THEN "Restart" ELSE "Resolving")
  /\ UNCHANGED <<sessionVars, connRetry, cancelled, health, spawner, bridge, envVars>>

prepareConnection ==
  /\ run = "Resolving"
  /\ Goto(IF gwUp THEN "Connecting" ELSE "Discovery")
  /\ UNCHANGED <<sessionVars, connRetry, cancelled, health, spawner, bridge, envVars>>

\* startService: a first ping tells whether the gateway is there.
PingFails ==
  /\ run = "Connecting" /\ ~gwUp
  /\ connRetry' = connRetry + 1
  /\ Goto(IF connRetry' < RetryConnection THEN "Connecting" ELSE "Restart")
  /\ cancelled' = FALSE
  /\ UNCHANGED <<sessionVars, health, spawner, bridge, envVars>>

StartHealth ==
  /\ run = "Connecting" /\ gwUp
  /\ connRetry' = 0
  /\ Goto("StartAdvisor")
  /\ cancelled' = FALSE
  /\ health' = "on"
  /\ UNCHANGED <<sessionVars, spawner, bridge, envVars>>

\* SMCAdvisor.Start: sessions of the backend are reset before any is requested;
\* an error is left to a goroutine to report.
StartAdvisor ==
  /\ run = "StartAdvisor"
  /\ Goto("Operating")
  /\ spawner' = [Idle EXCEPT !.pc = IF connector = "mock" \/ smcUp THEN "request" ELSE "report"]
  /\ UNCHANGED <<sessionVars, connRetry, cancelled, health, bridge, envVars>>

\* Mutant: the spawner goes on after its report.
FaultContinues ==
  /\ run = "Operating" /\ spawner.pc = "report"
  /\ Goto("WaitAll")
  /\ spawner' = [Idle EXCEPT !.pc = "request"]
  /\ cancelled' = TRUE
  /\ UNCHANGED <<sessionVars, connRetry, health, bridge, envVars>>

\* Mutant: the modules are waited for but not cancelled.
FaultWithoutCancel ==
  /\ run = "Operating" /\ spawner.pc = "report"
  /\ Goto("WaitAll")
  /\ spawner' = Idle
  /\ UNCHANGED <<sessionVars, connRetry, cancelled, health, bridge, envVars>>

\* watchService meets reportFault: the reporting goroutine ends, and the
\* context of all modules is cancelled.
Fault ==
  /\ run = "Operating" /\ spawner.pc = "report"
  /\ Goto("WaitAll")
  /\ spawner' = Idle
  /\ cancelled' = TRUE
  /\ UNCHANGED <<sessionVars, connRetry, health, bridge, envVars>>

\* The WaitGroup: the ping loop and every bridge that has not called Done.
ActiveMods == {s \in Sessions : bridge[s].pc # "none"}

\* Mutant: watchService does not wait for the modules.
WaitForHealth ==
  /\ run = "WaitAll" /\ health = "off"
  /\ Goto("Connecting")
  /\ UNCHANGED <<sessionVars, connRetry, cancelled, health, spawner, bridge, envVars>>

WaitAll ==
  /\ run = "WaitAll" /\ health = "off" /\ ActiveMods = {}
  /\ Goto("Connecting")
  /\ UNCHANGED <<sessionVars, connRetry, cancelled, health, spawner, bridge, envVars>>

\* Mutant: the number of failed pings is kept.
RestartKeepsCount ==
  /\ run = "Restart"
  /\ Goto("Discovery")
  /\ UNCHANGED <<sessionVars, connRetry, cancelled, health, spawner, bridge, envVars>>

cleanRestart ==
  /\ run = "Restart"
  /\ connRetry' = 0
  /\ Goto("Discovery")
  /\ UNCHANGED <<sessionVars, cancelled, health, spawner, bridge, envVars>>

-----------------------------------------------------------------------------
(* The ping loop *)

\* A ping that fails or a cancelled context ends the loop, without a word to
\* the master.
PingLoopEnds ==
  /\ health = "on" /\ (~gwUp \/ cancelled)
  /\ health' = "off"
  /\ UNCHANGED <<sessionVars, masterVars, cancelled, spawner, bridge, envVars>>

-----------------------------------------------------------------------------
(* The spawner.  It is the only one to report a fault, so it is gone before *)
(* its context is cancelled (SpawnerOutlived): the cases <-ctx.Done() of    *)
(* RequestSession and reportFault are never taken.                          *)

Reserve(s) ==
  /\ spawner.pc = "request" /\ bridge[s] = NoBridge
  /\ RequestSession(s)
  /\ spawner' = [pc |-> "await", sess |-> {s}]
  /\ UNCHANGED <<masterVars, cancelled, health, bridge, envVars>>

\* DialSocket fails.  The dial does not wait for the backend, so one that is down
\* need not be noticed here.
ReserveFails ==
  /\ spawner.pc = "request" /\ connector = "fresco" /\ ~smcUp
  /\ spawner' = [Idle EXCEPT !.pc = "report"]
  /\ UNCHANGED <<sessionVars, masterVars, cancelled, health, bridge, envVars>>

\* SpawnBridge: the stream is open, a bridge serves it.
SpawnBridge(s) ==
  /\ spawner = [pc |-> "await", sess |-> {s}] /\ gwUp
  /\ bridge' = [bridge EXCEPT ![s].pc = "recv"]
  /\ spawner' = [pc |-> "request", sess |-> {}]
  /\ UNCHANGED <<sessionVars, masterVars, cancelled, health, envVars>>

\* Mutant: a session without a stream is not torn down.
LeakOnFailure(s) ==
  /\ spawner = [pc |-> "await", sess |-> {s}] /\ ~gwUp
  /\ spawner' = [Idle EXCEPT !.pc = "report"]
  /\ UNCHANGED <<sessionVars, masterVars, cancelled, health, bridge, envVars>>

\* Mutant: a stream that cannot be opened is tried again, not reported.
RetryOnFailure(s) ==
  /\ spawner = [pc |-> "await", sess |-> {s}] /\ ~gwUp
  /\ TearDown(s)
  /\ spawner' = [Idle EXCEPT !.pc = "request"]
  /\ UNCHANGED <<masterVars, cancelled, health, bridge, envVars>>

AwaitFails(s) ==
  /\ spawner = [pc |-> "await", sess |-> {s}] /\ ~gwUp
  /\ TearDown(s)
  /\ spawner' = [Idle EXCEPT !.pc = "report"]
  /\ UNCHANGED <<masterVars, cancelled, health, bridge, envVars>>

-----------------------------------------------------------------------------
(* bridgeStreamToSMC *)

Recv(s, cmd) ==
  /\ bridge[s].pc = "recv" /\ gwUp /\ ~cancelled
  /\ bridge' = [bridge EXCEPT ![s].pc = "cmd", ![s].cmd = {cmd}]
  /\ UNCHANGED <<sessionVars, masterVars, cancelled, health, spawner, envVars>>

\* The gateway is done with the chat, or gave up a silent peer.
RecvEOF(s) ==
  /\ bridge[s].pc = "recv" /\ gwUp /\ ~cancelled
  /\ bridge' = [bridge EXCEPT ![s].pc = "close"]
  /\ UNCHANGED <<sessionVars, masterVars, cancelled, health, spawner, envVars>>

RecvFails(s) ==
  /\ bridge[s].pc = "recv" /\ (cancelled \/ ~gwUp)
  /\ bridge' = [bridge EXCEPT ![s].pc = "close"]
  /\ UNCHANGED <<sessionVars, masterVars, cancelled, health, spawner, envVars>>

Reply(s, more, first) ==
  bridge' = [bridge EXCEPT ![s] =
    [pc |-> IF more THEN "recv" ELSE "close", cmd |-> {}, first |-> first]]

\* A debug phase that is obeyed never reaches the session.
ProcessDebugPhase(s) ==
  /\ DebugModeEnabled
  /\ \E cmd \in bridge[s].cmd : bridge[s].pc = "cmd" /\ cmd.payload = "debug"
  /\ \E morePhases \in BOOLEAN : Reply(s, morePhases, bridge[s].first)
  /\ UNCHANGED <<sessionVars, masterVars, cancelled, health, spawner, envVars>>

\* The backend refuses the session: ABORTED is sent.
InitFails(s) ==
  /\ bridge[s].pc = "cmd" /\ bridge[s].first /\ connector = "fresco"
  /\ Init(s, FALSE)
  /\ Reply(s, FALSE, TRUE)
  /\ UNCHANGED <<masterVars, cancelled, health, spawner, envVars>>

\* The first command names the session.
InitSession(s) ==
  /\ bridge[s].pc = "cmd" /\ bridge[s].first
  /\ connector = "fresco" => smcUp /\ ~cancelled
  /\ Init(s, TRUE)
  /\ bridge' = [bridge EXCEPT ![s].first = FALSE,
                              ![s].cmd = {[cmd EXCEPT !.sameID = TRUE] : cmd \in @}]
  /\ UNCHANGED <<masterVars, cancelled, health, spawner, envVars>>

\* The command goes to the session, its result to the gateway.  A call under
\* way when the context or the backend goes down returns an error.
Serve(s) ==
  /\ bridge[s].pc = "cmd" /\ ~bridge[s].first
  /\ \E cmd \in bridge[s].cmd, more \in BOOLEAN :
       \E out \in IF smcUp /\ ~cancelled THEN Answers ELSE {"error"} :
         NextCmd(s, cmd, out, more) /\ Reply(s, more, FALSE)
  /\ UNCHANGED <<masterVars, cancelled, health, spawner, envVars>>

\* The deferred TearDown runs before Done.
CloseBridge(s) ==
  /\ bridge[s].pc = "close"
  /\ TearDown(s)
  /\ bridge' = [bridge EXCEPT ![s].pc = "done"]
  /\ UNCHANGED <<masterVars, cancelled, health, spawner, envVars>>

Done(s) ==
  /\ bridge[s].pc = "done"
  /\ bridge' = [bridge EXCEPT ![s] = NoBridge]
  /\ session' = [session EXCEPT ![s] = Absent]
  /\ UNCHANGED <<connector, readyWorkers, masterVars, cancelled, health, spawner, envVars>>

-----------------------------------------------------------------------------
Master  == discover \/ startPairing \/ prepareConnection \/ PingFails \/ StartHealth
           \/ StartAdvisor \/ Fault \/ WaitAll \/ cleanRestart
Spawner == ReserveFails \/ \E s \in Sessions : Reserve(s) \/ SpawnBridge(s) \/ AwaitFails(s)
Bridge(s) == RecvFails(s) \/ ProcessDebugPhase(s) \/ InitFails(s) \/ InitSession(s)
             \/ Serve(s) \/ CloseBridge(s) \/ Done(s)
Gateway(s) == RecvEOF(s) \/ \E cmd \in Command : Recv(s, cmd)

\* The gateway or the backend fails or comes back.
Environment ==
  /\ \/ gwUp' = ~gwUp /\ UNCHANGED smcUp
     \/ smcUp' = ~smcUp /\ UNCHANGED gwUp
  /\ UNCHANGED <<sessionVars, masterVars, cancelled, health, spawner, bridge>>

PeerNext == Master \/ PingLoopEnds \/ Spawner \/ Environment
            \/ \E s \in Sessions : Bridge(s) \/ Gateway(s)

\* Every goroutine runs on, and calls to the backend return.
PeerFairness ==
  /\ WF_peerVars(Master) /\ WF_peerVars(PingLoopEnds) /\ WF_peerVars(Spawner)
  /\ \A s \in Sessions : WF_peerVars(Bridge(s))

PeerSpec == PeerInit /\ [][PeerNext]_peerVars /\ PeerFairness

-----------------------------------------------------------------------------
(* Properties *)

\* While no module is meant to run, none does and no session is reserved: the
\* advisor resets the backend (smcadvisor.go:37) and reuses the connector of the
\* earlier context, so a bridge or a token left over would be torn down under a
\* new job or be missing for good (smc_mock.go:54 assumes a full pool).  Needs
\* WaitAll, the order of the bridge's deferred calls, TearDown on every path
\* out of SpawnBridge, and a spawner that is past its last Add(1).
QuietRestart ==
  run \notin {"Operating", "WaitAll"} =>
    /\ spawner = Idle /\ ActiveMods = {}
    /\ Held = {} /\ readyWorkers = parallelSessions
    /\ run # "StartAdvisor" => health = "off"

\* Modules are cancelled only after the spawner, the one source of faults, has
\* ended: no bridge is added to a WaitGroup that is being waited for
\* (smcadvisor.go:78, peer.go:231), and RequestSession never leaks its
\* connection to the backend on a cancelled context (smc_fresco.go:59).
SpawnerOutlived == cancelled => spawner = Idle

\* A bridge listens only while its session can still serve: Init comes before
\* the first NextCmd and no command follows one that ended the session
\* (the protocol of smc.Session, smc.go:25-35).
SessionProtocol ==
  \A s \in Sessions :
    /\ bridge[s].pc \in {"recv", "cmd"} => ~session[s].tearedDown
    /\ bridge[s].pc = "cmd" /\ ~bridge[s].first => session[s].id

\* At every moment each session's token is held by exactly one goroutine that
\* will return it: the spawner until the stream is open, the bridge after.
TokenHasOwner ==
  \A s \in Held : (spawner.sess = {s}) # (bridge[s].pc \in {"recv", "cmd", "close"})

\* Sessions are handed out and freed as a token pool does it, in every run
\* state and across restarts.
PoolImplemented == Pool!Spec

\* A gateway that is gone for good is noticed although no ping reports it: the
\* streams fail, their sessions return, and the next AwaitSMCRound faults.
LostGatewayNoticed == (run = "Operating" /\ ~gwUp) ~> (gwUp \/ run = "Connecting")

\* Once gateway and backend stay up the peer settles, whether or not its ping loop
\* has ended without a word (health.go:36): it keeps operating and
\* offers streams again and again.
PeerSettles ==
  <>[](gwUp /\ smcUp) =>
    /\ <>[](run = "Operating")
    /\ []<>(\E s \in Sessions : bridge[s].pc = "recv")
=============================================================================
