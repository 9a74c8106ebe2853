---------------------------- MODULE PeerProofs ----------------------------
(***************************************************************************)
(* Theorems about module PeerNode, for any number of session objects and   *)
(* tokens, both connectors and any options of the peer.                    *)
(***************************************************************************)
EXTENDS PeerNode, FiniteSetTheorems, TLAPS

-----------------------------------------------------------------------------
(* The inductive invariant *)

\* The modules of a context run, or are waited for, in two run states only.
\* What the master has not started, or has seen end, is not there.
ModulesOK ==
  /\ run \notin {"Operating", "WaitAll"} =>
       spawner = Idle /\ \A s \in Sessions : bridge[s] = NoBridge
  /\ run \notin {"StartAdvisor", "Operating", "WaitAll"} => health = "off"
  /\ run = "WaitAll" => spawner = Idle
  /\ run \in {"StartAdvisor", "Operating"} => ~cancelled

\* After as many failed pings as are allowed the peer is about to restart.
RetryOK == run # "Restart" => connRetry < RetryConnection

\* The spawner holds a session exactly while it waits for a stream.
SpawnerOK ==
  IF spawner.pc = "await" THEN \E s \in Sessions : spawner.sess = {s}
  ELSE spawner.sess = {}

\* A session is somebody's: the spawner's, or that of its bridge.
Owned(s) == spawner.sess = {s} \/ bridge[s].pc # "none"

\* Who refers to a session, and what the session is like then.  A Fresco session
\* that is owned knows by its state alone whether its token went back.
SessionOK(s) ==
  /\ bridge[s].pc = "none" => bridge[s] = NoBridge
  /\ spawner.sess = {s} => bridge[s].pc = "none" /\ ~session[s].tearedDown
  /\ bridge[s].pc \in {"recv", "cmd"} => ~session[s].tearedDown
  /\ bridge[s].pc = "done" \/ ~Owned(s) => session[s].tearedDown
  /\ ~bridge[s].first => session[s].id
  /\ connector = "fresco" /\ Owned(s) =>
       (session[s].tearedDown <=> session[s].state = "stopped")

PeerInv ==
  /\ PeerTypeOK /\ TokensConserved
  /\ ModulesOK /\ RetryOK /\ SpawnerOK
  /\ \A s \in Sessions : SessionOK(s)

-----------------------------------------------------------------------------
(* Calls on one session *)

\* Session s comes into being, or its token goes back, or neither; nothing else
\* happens to the pool.
Called(s) ==
  /\ connector' = connector
  /\ session' \in [Sessions -> [state : States, id : BOOLEAN, tearedDown : BOOLEAN]]
  /\ \A t \in Sessions \ {s} : session'[t] = session[t]
  /\ session[s].tearedDown => session'[s].tearedDown
  /\ readyWorkers' = IF session'[s].tearedDown /\ ~session[s].tearedDown
                       THEN readyWorkers + 1 ELSE readyWorkers
  /\ session[s].id => session'[s].id
  /\ connector = "fresco" => (session'[s].tearedDown <=> session'[s].state = "stopped")

LEMMA ReleaseCall ==
  ASSUME SessionTypeOK, NEW s \in Sessions, NEW st \in States, Release(s, st),
         ~session[s].tearedDown, connector = "fresco" => st = "stopped"
  PROVE  Called(s) /\ session'[s].tearedDown
BY DEF SessionTypeOK, Release, Called

\* A call that leaves the pool alone.
LEMMA BecomeCall ==
  ASSUME SessionTypeOK, NEW s \in Sessions, NEW st \in States, Become(s, st),
         connector # "fresco"
  PROVE  Called(s) /\ session'[s].tearedDown = session[s].tearedDown
BY DEF SessionTypeOK, Become, Called

LEMMA NoCall ==
  ASSUME SessionTypeOK, NEW s \in Sessions, UNCHANGED sessionVars,
         connector = "fresco" => (session[s].tearedDown <=> session[s].state = "stopped")
  PROVE  Called(s) /\ session'[s] = session[s]
BY DEF SessionTypeOK, sessionVars, Called

LEMMA FrescoTearDownCall ==
  ASSUME SessionTypeOK, NEW s \in Sessions, FrescoTearDown(s), connector = "fresco",
         session[s].tearedDown <=> session[s].state = "stopped"
  PROVE  Called(s) /\ session'[s].tearedDown
<1>1. CASE session[s].state # "stopped"
  BY <1>1, ReleaseCall DEF FrescoTearDown, States
<1>2. CASE session[s].state = "stopped"
  BY <1>2, NoCall DEF FrescoTearDown
<1> QED  BY <1>1, <1>2

LEMMA MockTearDownCall ==
  ASSUME SessionTypeOK, NEW s \in Sessions, MockTearDown(s), connector # "fresco"
  PROVE  Called(s) /\ session'[s].tearedDown
<1>1. CASE session[s].tearedDown
  BY <1>1, BecomeCall DEF MockTearDown, States
<1>2. CASE ~session[s].tearedDown
  BY <1>2, ReleaseCall DEF MockTearDown, States
<1> QED  BY <1>1, <1>2

\* Torn down once or twice, a session returns its token once.
LEMMA TearDownCall ==
  ASSUME SessionTypeOK, NEW s \in Sessions, TearDown(s),
         connector = "fresco" => (session[s].tearedDown <=> session[s].state = "stopped")
  PROVE  Called(s) /\ session'[s].tearedDown
BY FrescoTearDownCall, MockTearDownCall DEF TearDown

\* A session that Init accepts keeps its token and has its ID.
LEMMA InitCall ==
  ASSUME SessionTypeOK, NEW s \in Sessions, NEW ok \in BOOLEAN, Init(s, ok),
         ~session[s].tearedDown,
         connector = "fresco" => session[s].state # "stopped"
  PROVE  /\ Called(s)
         /\ ok => session'[s].id /\ ~session'[s].tearedDown
         /\ ~ok => session'[s].tearedDown
<1>1. CASE connector = "fresco" /\ ~ok
  BY <1>1, FrescoTearDownCall DEF Init
<1>2. CASE connector = "fresco" /\ ok
  BY <1>2 DEF Init, SessionTypeOK, Called, States
<1>3. CASE connector = "mock"
  BY <1>3 DEF Init, SessionTypeOK, Called, States
<1> QED  BY <1>1, <1>2, <1>3, ConnectorsAssumption DEF SessionTypeOK

\* A command after which the bridge waits for another one keeps the token.
LEMMA NextCmdCall ==
  ASSUME SessionTypeOK, NEW s \in Sessions, NEW cmd, NEW out, NEW more \in BOOLEAN,
         NextCmd(s, cmd, out, more), ~session[s].tearedDown,
         connector = "fresco" => session[s].state # "stopped"
  PROVE  Called(s) /\ (more => ~session'[s].tearedDown)
<1>1. CASE connector = "fresco"
  <2>1. CASE more
    BY <1>1, <2>1, NoCall DEF NextCmd, FrescoNextCmd
  <2>2. CASE ~more
    BY <1>1, <2>2, ReleaseCall DEF NextCmd, FrescoNextCmd, States
  <2> QED  BY <2>1, <2>2
<1>2. CASE connector # "fresco"
  <2>1. CASE cmd.sameID /\ allowPhaseTransition(s, cmd.payload)
    <3>1. CASE more
      BY <1>2, <2>1, <3>1, BecomeCall DEF NextCmd, MockNextCmd, States
    <3>2. CASE ~more
      BY <1>2, <2>1, <3>2, MockTearDownCall DEF NextCmd, MockNextCmd
    <3> QED  BY <3>1, <3>2
  <2>2. CASE ~(cmd.sameID /\ allowPhaseTransition(s, cmd.payload))
    BY <1>2, <2>2, ReleaseCall DEF NextCmd, MockNextCmd, States
  <2> QED  BY <2>1, <2>2
<1> QED  BY <1>1, <1>2

\* The pool's books are right after any call.
LEMMA CallCounts ==
  ASSUME SessionTypeOK, TokensConserved, NEW s \in Sessions, Called(s)
  PROVE  SessionTypeOK' /\ TokensConserved'
<1>1. IsFiniteSet(Held) /\ Cardinality(Held) \in Nat
  BY SessionsAssumption, FS_Subset, FS_CardinalityType DEF Held
<1>2. IsFiniteSet(Held') /\ Cardinality(Held') \in Nat
  BY SessionsAssumption, FS_Subset, FS_CardinalityType DEF Held
<1>3. CASE session'[s].tearedDown /\ ~session[s].tearedDown
  <2>1. Held' = Held \ {s} /\ s \in Held
    BY <1>3 DEF Held, Called
  <2>2. Cardinality(Held') = Cardinality(Held) - 1
    BY <1>1, <2>1, FS_RemoveElement
  <2> QED  BY <1>1, <1>2, <1>3, <2>2, PoolAssumption DEF Called, SessionTypeOK, TokensConserved
<1>4. CASE ~(session'[s].tearedDown /\ ~session[s].tearedDown)
  <2>1. Held' = Held
    BY <1>4 DEF Held, Called
  <2> QED  BY <1>4, <2>1 DEF Called, SessionTypeOK, TokensConserved
<1> QED  BY <1>3, <1>4

-----------------------------------------------------------------------------
(* Steps of the goroutines *)

\* Nothing happens to any session or bridge.
LEMMA SessionsKept ==
  ASSUME PeerInv, UNCHANGED <<sessionVars, bridge>>, spawner'.sess = spawner.sess
  PROVE  /\ SessionTypeOK' /\ TokensConserved'
         /\ \A s \in Sessions : SessionOK(s)'
BY DEF PeerInv, PeerTypeOK, sessionVars, SessionTypeOK, TokensConserved, Held, SessionOK, Owned

\* The other parts of the invariant, which the master and the ping loop disturb.
ControlOK ==
  /\ run \in RunState /\ connRetry \in 0..RetryConnection
  /\ cancelled \in BOOLEAN /\ health \in {"off", "on"}
  /\ spawner \in [pc : {"off", "request", "await", "report"}, sess : SUBSET Sessions]
  /\ gwUp \in BOOLEAN /\ smcUp \in BOOLEAN
  /\ ModulesOK /\ RetryOK /\ SpawnerOK

\* Steps of the master, the ping loop and the environment touch no session.
LEMMA MasterStep ==
  ASSUME PeerInv, Master \/ PingLoopEnds \/ Environment
  PROVE  PeerInv'
<1>1. UNCHANGED <<sessionVars, bridge>>
  BY DEF Master, discover, startPairing, prepareConnection, PingFails, StartHealth,
     StartAdvisor, Fault, WaitAll, cleanRestart, PingLoopEnds, Environment, masterVars,
     envVars, sessionVars
<1> SUFFICES ControlOK' /\ spawner'.sess = spawner.sess
  BY <1>1, SessionsKept DEF PeerInv, PeerTypeOK, ControlOK
<1> USE DEF ControlOK, ModulesOK, RetryOK, masterVars, envVars, sessionVars, Goto
<1>2. ControlOK
  BY DEF PeerInv, PeerTypeOK
<1>3. CASE discover \/ startPairing \/ prepareConnection
  BY <1>1, <1>2, <1>3 DEF discover, startPairing, prepareConnection, RunState, SpawnerOK
<1>4. CASE PingFails
  <2>1. connRetry + 1 \in 0..RetryConnection
    BY <1>2, <1>4, RetryAssumption DEF PingFails
  <2> QED  BY <1>1, <1>2, <1>4, <2>1, RetryAssumption DEF PingFails, RunState, SpawnerOK
<1>5. CASE StartHealth
  <2>1. 0 \in 0..RetryConnection /\ 0 < RetryConnection
    BY RetryAssumption
  <2>2. /\ run = "Connecting" /\ run' = "StartAdvisor" /\ connRetry' = 0
        /\ cancelled' = FALSE /\ health' = "on"
        /\ UNCHANGED <<spawner, bridge, gwUp, smcUp>>
    BY <1>5 DEF StartHealth
  <2> QED  BY <1>2, <2>1, <2>2 DEF RunState, SpawnerOK
<1>6. CASE StartAdvisor
  BY <1>1, <1>2, <1>6 DEF StartAdvisor, RunState, SpawnerOK, Idle
<1>7. CASE Fault
  BY <1>1, <1>2, <1>7 DEF Fault, RunState, SpawnerOK, Idle
<1>8. CASE WaitAll
  <2>1. \A s \in Sessions : bridge[s] = NoBridge
    BY <1>8 DEF WaitAll, ActiveMods, PeerInv, SessionOK
  <2> QED  BY <1>1, <1>2, <2>1, <1>8 DEF WaitAll, RunState, SpawnerOK
<1>9. CASE cleanRestart
  BY <1>1, <1>2, <1>9, RetryAssumption DEF cleanRestart, RunState, SpawnerOK
<1>10. CASE PingLoopEnds
  BY <1>1, <1>2, <1>10 DEF PingLoopEnds, SpawnerOK
<1>11. CASE Environment
  BY <1>1, <1>2, <1>11 DEF Environment, SpawnerOK
<1> QED
  BY <1>3, <1>4, <1>5, <1>6, <1>7, <1>8, <1>9, <1>10, <1>11 DEF Master

Spawners == [pc : {"off", "request", "await", "report"}, sess : SUBSET Sessions]
Bridges  == [pc : {"none", "recv", "cmd", "close", "done"}, cmd : SUBSET Command,
             first : BOOLEAN]

\* A step of the spawner or of a bridge concerns one session.
LEMMA OneSession ==
  ASSUME PeerInv, NEW s \in Sessions, run \in {"Operating", "WaitAll"},
         UNCHANGED <<masterVars, cancelled, health, envVars, connector>>,
         SessionTypeOK', TokensConserved',
         spawner' \in Spawners, SpawnerOK', run = "WaitAll" => spawner' = Idle,
         bridge' \in [Sessions -> Bridges],
         \A t \in Sessions \ {s} : session'[t] = session[t] /\ bridge'[t] = bridge[t]
                                     /\ (spawner'.sess = {t} <=> spawner.sess = {t}),
         SessionOK(s)'
  PROVE  PeerInv'
<1>1. \A t \in Sessions : SessionOK(t)'
  BY DEF PeerInv, SessionOK, Owned
<1>2. ModulesOK' /\ RetryOK'
  BY DEF PeerInv, ModulesOK, RetryOK, masterVars
<1> QED
  BY <1>1, <1>2 DEF PeerInv, PeerTypeOK, masterVars, envVars, Spawners, Bridges

\* A step of the bridge that serves session s.
LEMMA OneBridge ==
  ASSUME PeerInv, NEW s \in Sessions, bridge[s].pc # "none",
         UNCHANGED <<masterVars, cancelled, health, spawner, envVars>>,
         Called(s), NEW b \in Bridges, bridge' = [bridge EXCEPT ![s] = b],
         /\ b.pc = "none" => b = NoBridge
         /\ b.pc \in {"recv", "cmd"} => ~session'[s].tearedDown
         /\ b.pc \in {"none", "done"} => session'[s].tearedDown
         /\ ~b.first => session'[s].id
  PROVE  PeerInv'
<1>1. /\ SessionTypeOK /\ TokensConserved /\ ModulesOK /\ SpawnerOK /\ SessionOK(s)
      /\ spawner \in Spawners /\ bridge \in [Sessions -> Bridges]
  BY DEF PeerInv, PeerTypeOK, Spawners, Bridges
<1>2. SessionTypeOK' /\ TokensConserved'
  BY <1>1, CallCounts
<1>3. run \in {"Operating", "WaitAll"} /\ (run = "WaitAll" => spawner' = Idle)
  BY <1>1 DEF ModulesOK, NoBridge
<1>4. spawner' \in Spawners /\ SpawnerOK' /\ bridge' \in [Sessions -> Bridges]
  BY <1>1 DEF SpawnerOK
<1>5. /\ bridge'[s] = b /\ spawner.sess # {s}
      /\ \A t \in Sessions \ {s} : bridge'[t] = bridge[t]
  BY <1>1 DEF SessionOK
<1>6. connector' = connector
  BY DEF Called
<1>7. SessionOK(s)'
  BY <1>5, <1>6 DEF SessionOK, Called, Owned
<1> QED
  BY <1>2, <1>3, <1>4, <1>5, <1>6, <1>7, OneSession DEF Called

\* The bridge moves on, its session stays as it is.
LEMMA BridgeOnly ==
  ASSUME PeerInv, NEW s \in Sessions, bridge[s].pc # "none",
         UNCHANGED <<sessionVars, masterVars, cancelled, health, spawner, envVars>>,
         NEW b \in Bridges, bridge' = [bridge EXCEPT ![s] = b], b.first = bridge[s].first,
         b.pc \in {"recv", "cmd", "close"},
         b.pc # "close" => bridge[s].pc \in {"recv", "cmd"}
  PROVE  PeerInv'
<1>1. SessionTypeOK /\ SessionOK(s)
  BY DEF PeerInv, PeerTypeOK
<1>2. Called(s) /\ session'[s] = session[s]
  BY <1>1, NoCall DEF SessionOK, Owned
<1> QED  BY <1>1, <1>2, OneBridge DEF SessionOK

LEMMA SpawnerStep ==
  ASSUME PeerInv, Spawner
  PROVE  PeerInv'
<1>0. /\ SessionTypeOK /\ TokensConserved /\ ModulesOK /\ SpawnerOK
      /\ \A s \in Sessions : SessionOK(s)
      /\ spawner \in Spawners /\ bridge \in [Sessions -> Bridges]
  BY DEF PeerInv, PeerTypeOK, Spawners, Bridges
<1>1. ASSUME spawner.pc # "off" PROVE run = "Operating"
  BY <1>0, <1>1 DEF ModulesOK, Idle
<1>2. CASE ReserveFails
  <2>1. /\ UNCHANGED <<sessionVars, bridge, masterVars, cancelled, health, envVars>>
        /\ spawner.pc = "request" /\ spawner' = [Idle EXCEPT !.pc = "report"]
    BY <1>2 DEF ReserveFails
  <2>2. spawner.sess = {} /\ spawner'.sess = {} /\ spawner' \in Spawners /\ SpawnerOK'
    BY <1>0, <2>1 DEF SpawnerOK, Idle, Spawners
  <2>3. /\ SessionTypeOK' /\ TokensConserved'
        /\ \A s \in Sessions : SessionOK(s)'
    BY <2>1, <2>2, SessionsKept
  <2>4. ModulesOK' /\ RetryOK'
    BY <1>0, <1>1, <2>1 DEF PeerInv, ModulesOK, RetryOK, masterVars
  <2> QED  BY <2>1, <2>2, <2>3, <2>4 DEF PeerInv, PeerTypeOK, Spawners, masterVars, envVars
<1>3. ASSUME NEW s \in Sessions, Reserve(s) PROVE PeerInv'
  <2>1. /\ spawner.pc = "request" /\ bridge[s] = NoBridge /\ session[s].tearedDown
        /\ spawner' = [pc |-> "await", sess |-> {s}]
        /\ UNCHANGED <<bridge, masterVars, cancelled, health, envVars, connector>>
        /\ readyWorkers > 0 /\ readyWorkers' = readyWorkers - 1
        /\ session' = [session EXCEPT ![s] =
             [state |-> IF connector = "fresco" THEN "running" ELSE "PREPARE",
              id |-> FALSE, tearedDown |-> FALSE]]
    BY <1>3 DEF Reserve, RequestSession
  <2>2. SessionTypeOK'
    BY <1>0, <2>1, PoolAssumption DEF SessionTypeOK, States
  <2>3. TokensConserved'
    <3>1. IsFiniteSet(Held) /\ Cardinality(Held) \in Nat
      BY SessionsAssumption, FS_Subset, FS_CardinalityType DEF Held
    <3>2. Held' = Held \cup {s} /\ s \notin Held
      BY <1>0, <2>1 DEF Held, SessionTypeOK
    <3>3. Cardinality(Held') = Cardinality(Held) + 1
      BY <3>1, <3>2, FS_AddElement
    <3> QED  BY <1>0, <2>1, <3>1, <3>3 DEF TokensConserved, SessionTypeOK
  <2>4. spawner' \in Spawners /\ SpawnerOK'
    BY <2>1 DEF Spawners, SpawnerOK
  <2>5. SessionOK(s)'
    BY <1>0, <2>1 DEF SessionOK, Owned, NoBridge, SessionTypeOK
  <2>6. \A t \in Sessions \ {s} : session'[t] = session[t]
            /\ (spawner'.sess = {t} <=> spawner.sess = {t})
    BY <1>0, <2>1 DEF SpawnerOK, SessionTypeOK
  <2> QED  BY <1>0, <1>1, <2>1, <2>2, <2>3, <2>4, <2>5, <2>6, OneSession
<1>4. ASSUME NEW s \in Sessions, SpawnBridge(s) PROVE PeerInv'
  <2>1. /\ spawner = [pc |-> "await", sess |-> {s}]
        /\ spawner' = [pc |-> "request", sess |-> {}]
        /\ bridge' = [bridge EXCEPT ![s].pc = "recv"]
        /\ UNCHANGED <<sessionVars, masterVars, cancelled, health, envVars>>
    BY <1>4 DEF SpawnBridge
  <2>2. bridge[s] = NoBridge /\ ~session[s].tearedDown
    BY <1>0, <2>1 DEF SessionOK
  <2>3. spawner' \in Spawners /\ SpawnerOK' /\ bridge' \in [Sessions -> Bridges]
    BY <1>0, <2>1, <2>2 DEF Spawners, SpawnerOK, Bridges, NoBridge
  <2>4. SessionTypeOK' /\ TokensConserved' /\ connector' = connector
    BY <1>0, <2>1 DEF sessionVars, SessionTypeOK, TokensConserved, Held
  <2>5. SessionOK(s)'
    BY <1>0, <2>1, <2>2 DEF SessionOK, Owned, NoBridge, sessionVars
  <2>6. \A t \in Sessions \ {s} : session'[t] = session[t] /\ bridge'[t] = bridge[t]
            /\ (spawner'.sess = {t} <=> spawner.sess = {t})
    BY <1>0, <2>1 DEF sessionVars
  <2> QED  BY <1>0, <1>1, <2>1, <2>3, <2>4, <2>5, <2>6, OneSession
<1>5. ASSUME NEW s \in Sessions, AwaitFails(s) PROVE PeerInv'
  <2>1. /\ spawner = [pc |-> "await", sess |-> {s}]
        /\ spawner' = [Idle EXCEPT !.pc = "report"]
        /\ TearDown(s)
        /\ UNCHANGED <<masterVars, cancelled, health, bridge, envVars>>
    BY <1>5 DEF AwaitFails
  <2>2. bridge[s] = NoBridge
    BY <1>0, <2>1 DEF SessionOK
  <2>3. Called(s) /\ session'[s].tearedDown
    BY <1>0, <2>1, TearDownCall DEF SessionOK, Owned
  <2>4. spawner' \in Spawners /\ SpawnerOK' /\ spawner'.sess = {}
    BY <2>1 DEF Spawners, SpawnerOK, Idle
  <2>5. SessionTypeOK' /\ TokensConserved' /\ connector' = connector
    BY <1>0, <2>3, CallCounts DEF Called
  <2>6. SessionOK(s)'
    BY <2>1, <2>2, <2>3, <2>4 DEF SessionOK, Owned, NoBridge
  <2>7. \A t \in Sessions \ {s} : session'[t] = session[t]
            /\ (spawner'.sess = {t} <=> spawner.sess = {t})
    BY <2>1, <2>3, <2>4 DEF Called
  <2> QED  BY <1>0, <1>1, <2>1, <2>4, <2>5, <2>6, <2>7, OneSession
<1> QED  BY <1>2, <1>3, <1>4, <1>5 DEF Spawner

LEMMA BridgeStep ==
  ASSUME PeerInv, NEW s \in Sessions, Bridge(s) \/ Gateway(s)
  PROVE  PeerInv'
<1>0. /\ SessionTypeOK /\ SessionOK(s)
      /\ bridge \in [Sessions -> Bridges]
  BY DEF PeerInv, PeerTypeOK, Bridges
<1>1. CASE RecvFails(s) \/ RecvEOF(s)
  <2> DEFINE b == [bridge[s] EXCEPT !.pc = "close"]
  <2>1. b \in Bridges /\ b.pc = "close" /\ b.first = bridge[s].first
    BY <1>0 DEF Bridges
  <2>2. bridge' = [bridge EXCEPT ![s] = b] /\ bridge[s].pc = "recv"
    BY <1>0, <1>1 DEF RecvFails, RecvEOF
  <2> HIDE DEF b
  <2> QED  BY <1>1, <2>1, <2>2, BridgeOnly DEF RecvFails, RecvEOF
<1>2. ASSUME NEW cmd \in Command, Recv(s, cmd) PROVE PeerInv'
  <2> DEFINE b == [bridge[s] EXCEPT !.pc = "cmd", !.cmd = {cmd}]
  <2>1. b \in Bridges /\ b.pc = "cmd" /\ b.first = bridge[s].first
    BY <1>0 DEF Bridges
  <2>2. bridge' = [bridge EXCEPT ![s] = b] /\ bridge[s].pc = "recv"
    BY <1>0, <1>2 DEF Recv
  <2> HIDE DEF b
  <2> QED  BY <1>2, <2>1, <2>2, BridgeOnly DEF Recv
<1>3. CASE ProcessDebugPhase(s)
  <2>1. PICK more \in BOOLEAN : Reply(s, more, bridge[s].first)
    BY <1>3 DEF ProcessDebugPhase
  <2> DEFINE b == [pc |-> IF more THEN "recv" ELSE "close", cmd |-> {},
                   first |-> bridge[s].first]
  <2>2. b \in Bridges /\ b.pc \in {"recv", "close"} /\ b.first = bridge[s].first
    BY <1>0 DEF Bridges
  <2>3. bridge' = [bridge EXCEPT ![s] = b] /\ bridge[s].pc = "cmd"
    BY <1>3, <2>1 DEF Reply, ProcessDebugPhase
  <2> HIDE DEF b
  <2> QED  BY <1>3, <2>2, <2>3, BridgeOnly DEF ProcessDebugPhase
<1>4. CASE InitFails(s)
  <2> DEFINE b == [pc |-> "close", cmd |-> {}, first |-> TRUE]
  <2>1. b \in Bridges /\ b.pc = "close" /\ b.first
    BY DEF Bridges
  <2>2. /\ bridge' = [bridge EXCEPT ![s] = b] /\ bridge[s].pc = "cmd"
        /\ Init(s, FALSE)
    BY <1>4 DEF InitFails, Reply
  <2>3. Called(s)
    BY <1>0, <2>2, InitCall DEF SessionOK, Owned
  <2> HIDE DEF b
  <2> QED  BY <1>4, <2>1, <2>2, <2>3, OneBridge DEF InitFails
<1>5. CASE InitSession(s)
  <2> DEFINE b == [bridge[s] EXCEPT !.first = FALSE,
                     !.cmd = {[cmd EXCEPT !.sameID = TRUE] : cmd \in @}]
  <2>1. bridge[s].pc = "cmd" /\ Init(s, TRUE) /\ bridge[s] \in Bridges
    BY <1>0, <1>5 DEF InitSession
  <2>2. bridge' = [bridge EXCEPT ![s] = b]
    BY <1>0, <1>5 DEF InitSession
  <2>3. b \in Bridges /\ b.pc = "cmd"
    <3>1. \A cmd \in Command : [cmd EXCEPT !.sameID = TRUE] \in Command
      <4> SUFFICES ASSUME NEW cmd \in Command PROVE [cmd EXCEPT !.sameID = TRUE] \in Command
        OBVIOUS
      <4>1. CASE cmd \in [payload : {"prepare", "link", "session", "debug"}, sameID : {TRUE}]
        BY <4>1 DEF Command
      <4>2. CASE cmd = [payload |-> "prepare", sameID |-> FALSE]
        <5>1. [cmd EXCEPT !.sameID = TRUE] \in
                [payload : {"prepare", "link", "session", "debug"}, sameID : {TRUE}]
          BY <4>2
        <5> QED  BY <5>1 DEF Command
      <4> QED  BY <4>1, <4>2 DEF Command
    <3> QED  BY <2>1, <3>1 DEF Bridges
  <2>4. Called(s) /\ session'[s].id /\ ~session'[s].tearedDown
    BY <1>0, <2>1, InitCall DEF SessionOK, Owned
  <2> HIDE DEF b
  <2> QED  BY <1>5, <2>1, <2>2, <2>3, <2>4, OneBridge DEF InitSession
<1>6. CASE Serve(s)
  <2> PICK cmd \in bridge[s].cmd, more \in BOOLEAN :
         \E out \in (IF smcUp /\ ~cancelled THEN Answers ELSE {"error"}) :
           NextCmd(s, cmd, out, more) /\ Reply(s, more, FALSE)
    BY <1>6 DEF Serve
  <2>1. PICK out : NextCmd(s, cmd, out, more) /\ Reply(s, more, FALSE)
    OBVIOUS
  <2> DEFINE b == [pc |-> IF more THEN "recv" ELSE "close", cmd |-> {}, first |-> FALSE]
  <2>2. /\ b \in Bridges /\ b.pc \in {"recv", "close"} /\ ~b.first
        /\ b.pc = "recv" => more
    BY DEF Bridges
  <2>3. bridge' = [bridge EXCEPT ![s] = b] /\ bridge[s].pc = "cmd" /\ ~bridge[s].first
    BY <1>6, <2>1 DEF Reply, Serve
  <2>4. Called(s) /\ (more => ~session'[s].tearedDown)
    BY <1>0, <2>1, <2>3, NextCmdCall DEF SessionOK, Owned
  <2>5. session'[s].id
    BY <1>0, <2>3, <2>4 DEF SessionOK, Called
  <2> HIDE DEF b
  <2> QED  BY <1>6, <2>2, <2>3, <2>4, <2>5, OneBridge DEF Serve
<1>7. CASE CloseBridge(s)
  <2> DEFINE b == [bridge[s] EXCEPT !.pc = "done"]
  <2>1. b \in Bridges /\ b.pc = "done" /\ b.first = bridge[s].first
    BY <1>0 DEF Bridges
  <2>2. bridge' = [bridge EXCEPT ![s] = b] /\ bridge[s].pc = "close" /\ TearDown(s)
    BY <1>0, <1>7 DEF CloseBridge
  <2>3. Called(s) /\ session'[s].tearedDown
    BY <1>0, <2>2, TearDownCall DEF SessionOK, Owned
  <2>4. ~b.first => session'[s].id
    BY <1>0, <2>1, <2>3 DEF SessionOK, Called
  <2> HIDE DEF b
  <2> QED  BY <1>7, <2>1, <2>2, <2>3, <2>4, OneBridge DEF CloseBridge
<1>8. CASE Done(s)
  <2>1. /\ bridge[s].pc = "done" /\ bridge' = [bridge EXCEPT ![s] = NoBridge]
        /\ session' = [session EXCEPT ![s] = Absent]
        /\ UNCHANGED <<connector, readyWorkers, masterVars, cancelled, health, spawner, envVars>>
    BY <1>8 DEF Done
  <2>2. session[s].tearedDown /\ spawner.sess # {s}
    BY <1>0, <2>1 DEF SessionOK
  <2>3. SessionTypeOK'
    BY <1>0, <2>1 DEF SessionTypeOK, Absent, States
  <2>4. TokensConserved'
    <3>1. Held' = Held
      BY <1>0, <2>1, <2>2 DEF Held, SessionTypeOK, Absent
    <3> QED  BY <2>1, <3>1 DEF PeerInv, TokensConserved
  <2>5. SessionOK(s)'
    BY <1>0, <2>1, <2>2 DEF SessionOK, Owned, NoBridge, Absent, SessionTypeOK
  <2>6. \A t \in Sessions \ {s} : session'[t] = session[t] /\ bridge'[t] = bridge[t]
    BY <1>0, <2>1 DEF SessionTypeOK
  <2>7. run \in {"Operating", "WaitAll"}
    BY <2>1 DEF PeerInv, ModulesOK, NoBridge
  <2>8. /\ spawner' \in Spawners /\ SpawnerOK' /\ (run = "WaitAll" => spawner' = Idle)
        /\ bridge' \in [Sessions -> Bridges]
    BY <1>0, <2>1 DEF PeerInv, PeerTypeOK, ModulesOK, SpawnerOK, Spawners, Bridges, NoBridge
  <2> QED  BY <2>1, <2>3, <2>4, <2>5, <2>6, <2>7, <2>8, OneSession
<1> QED
  BY <1>1, <1>2, <1>3, <1>4, <1>5, <1>6, <1>7, <1>8 DEF Bridge, Gateway

-----------------------------------------------------------------------------
(* Theorems *)

LEMMA InitPeer == PeerInit => PeerInv
<1> SUFFICES ASSUME PeerInit PROVE PeerInv
  OBVIOUS
<1> USE DEF PeerInit, newConnector
<1>1. SessionTypeOK
  BY PoolAssumption DEF SessionTypeOK, Absent, States
<1>2. Held = {}
  BY DEF Held, Absent
<1>3. TokensConserved
  BY <1>2, FS_EmptySet, PoolAssumption DEF TokensConserved
<1>4. PeerTypeOK
  <2>1. connRetry \in 0..RetryConnection
    BY RetryAssumption
  <2>2. /\ spawner \in [pc : {"off", "request", "await", "report"}, sess : SUBSET Sessions]
        /\ bridge \in [Sessions -> [pc : {"none", "recv", "cmd", "close", "done"},
                                    cmd : SUBSET Command, first : BOOLEAN]]
    BY DEF Idle, NoBridge
  <2> QED  BY <1>1, <2>1, <2>2 DEF PeerTypeOK, RunState
<1>5. ModulesOK /\ RetryOK /\ SpawnerOK
  BY RetryAssumption DEF ModulesOK, RetryOK, SpawnerOK, Idle
<1>6. \A s \in Sessions : SessionOK(s)
  BY DEF SessionOK, Owned, Idle, NoBridge, Absent
<1> QED  BY <1>3, <1>4, <1>5, <1>6 DEF PeerInv

LEMMA NextPeer == PeerInv /\ [PeerNext]_peerVars => PeerInv'
<1> SUFFICES ASSUME PeerInv, [PeerNext]_peerVars PROVE PeerInv'
  OBVIOUS
<1>1. CASE UNCHANGED peerVars
  <2>1. UNCHANGED <<sessionVars, run, connRetry, cancelled, health, spawner, bridge, gwUp, smcUp>>
    BY <1>1 DEF peerVars, masterVars, envVars
  <2>2. /\ SessionTypeOK' /\ TokensConserved'
        /\ \A s \in Sessions : SessionOK(s)'
    BY <2>1, SessionsKept
  <2> QED
    BY <2>1, <2>2 DEF PeerInv, PeerTypeOK, ModulesOK, RetryOK, SpawnerOK
<1> QED
  BY <1>1, MasterStep, SpawnerStep, BridgeStep DEF PeerNext

LEMMA PeerInvariant == PeerSpec => []PeerInv
BY InitPeer, NextPeer, PTL DEF PeerSpec

\* No variable of a peer ever leaves its type: the pool's channel never holds
\* more tokens than it has places, failed pings never exceed their limit.
THEOREM PeerTypes == PeerSpec => []PeerTypeOK
<1>1. PeerInv => PeerTypeOK
  BY DEF PeerInv
<1> QED  BY <1>1, PeerInvariant, PTL

\* Tokens and held sessions always add up to the pool's capacity, for either
\* connector and however sessions are refused, ended, torn down twice or cut off
\* by a fault: TearDown, NextCmd and Init together return each token once.
THEOREM NoTokenIsLost == PeerSpec => []TokensConserved
<1>1. PeerInv => TokensConserved
  BY DEF PeerInv
<1> QED  BY <1>1, PeerInvariant, PTL

\* Whenever modules are to be started, nothing of the earlier ones is left: no
\* spawner, no bridge, no ping loop, and a full pool.
THEOREM RestartsAreQuiet == PeerSpec => []QuietRestart
<1>1. PeerInv => QuietRestart
  <2> SUFFICES ASSUME PeerInv, run \notin {"Operating", "WaitAll"}
               PROVE  /\ spawner = Idle /\ ActiveMods = {}
                      /\ Held = {} /\ readyWorkers = parallelSessions
                      /\ run # "StartAdvisor" => health = "off"
    BY DEF QuietRestart
  <2>1. /\ spawner = Idle /\ \A s \in Sessions : bridge[s] = NoBridge
        /\ run # "StartAdvisor" => health = "off"
    BY DEF PeerInv, ModulesOK
  <2>2. ActiveMods = {} /\ Held = {}
    BY <2>1 DEF ActiveMods, Held, PeerInv, SessionOK, Owned, Idle, NoBridge
  <2>3. readyWorkers = parallelSessions
    BY <2>2, FS_EmptySet DEF PeerInv, PeerTypeOK, SessionTypeOK, TokensConserved
  <2> QED  BY <2>1, <2>2, <2>3
<1> QED  BY <1>1, PeerInvariant, PTL

\* When a context is cancelled its spawner has already ended, so no bridge is
\* added to modules that are being waited for.
THEOREM SpawnerEndsFirst == PeerSpec => []SpawnerOutlived
<1>1. PeerInv => SpawnerOutlived
  BY DEF PeerInv, ModulesOK, SpawnerOutlived
<1> QED  BY <1>1, PeerInvariant, PTL

\* A bridge never hands a command to a session that was not initialised or has
\* ended.
THEOREM SessionsObeyProtocol == PeerSpec => []SessionProtocol
<1>1. PeerInv => SessionProtocol
  BY DEF PeerInv, SessionOK, SessionProtocol
<1> QED  BY <1>1, PeerInvariant, PTL

\* Every token that is out is held by exactly one goroutine that will return it.
THEOREM TokensHaveOwners == PeerSpec => []TokenHasOwner
<1>1. PeerInv => TokenHasOwner
  <2> SUFFICES ASSUME PeerInv, NEW s \in Held
               PROVE  (spawner.sess = {s}) # (bridge[s].pc \in {"recv", "cmd", "close"})
    BY DEF TokenHasOwner
  <2>1. SessionOK(s) /\ ~session[s].tearedDown
    BY DEF PeerInv, Held
  <2>2. bridge[s].pc \in {"none", "recv", "cmd", "close", "done"}
    BY DEF PeerInv, PeerTypeOK, Held
  <2> QED  BY <2>1, <2>2 DEF SessionOK, Owned
<1> QED  BY <1>1, PeerInvariant, PTL

-----------------------------------------------------------------------------
(* The pool of tokens is implemented *)

\* A bridge never takes a token, and gives back its own only.
LEMMA BridgeCalls ==
  ASSUME PeerInv, NEW s \in Sessions, Bridge(s) \/ Gateway(s)
  PROVE  Called(s) \/ Held' = Held
<1>0. SessionTypeOK /\ SessionOK(s) /\ (bridge[s].pc \in {"cmd", "close"} => Owned(s))
  BY DEF PeerInv, PeerTypeOK, Owned
<1>1. CASE RecvFails(s) \/ ProcessDebugPhase(s) \/ Gateway(s)
  BY <1>1 DEF RecvFails, ProcessDebugPhase, Gateway, RecvEOF, Recv, sessionVars, Held
<1>2. CASE InitFails(s) \/ InitSession(s)
  <2>1. /\ bridge[s].pc = "cmd"
        /\ Init(s, TRUE) \/ Init(s, FALSE)
    BY <1>2 DEF InitFails, InitSession
  <2> QED  BY <1>0, <2>1, InitCall DEF SessionOK
<1>3. CASE Serve(s)
  <2>1. PICK cmd \in bridge[s].cmd, more \in BOOLEAN :
          \E out \in (IF smcUp /\ ~cancelled THEN Answers ELSE {"error"}) :
            NextCmd(s, cmd, out, more)
    BY <1>3 DEF Serve
  <2>2. bridge[s].pc = "cmd"
    BY <1>3 DEF Serve
  <2> QED  BY <1>0, <2>1, <2>2, NextCmdCall DEF SessionOK
<1>4. CASE CloseBridge(s)
  BY <1>0, <1>4, TearDownCall DEF CloseBridge, SessionOK
<1>5. CASE Done(s)
  BY <1>0, <1>5 DEF Done, SessionOK, SessionTypeOK, Absent, Held
<1> QED  BY <1>1, <1>2, <1>3, <1>4, <1>5 DEF Bridge

\* A call is a release or nothing.
LEMMA CallReleases ==
  ASSUME NEW s \in Sessions, Called(s)
  PROVE  [Pool!Next]_Held
<1>1. CASE session'[s].tearedDown /\ ~session[s].tearedDown
  <2>1. s \in Held /\ Held' = Held \ {s}
    BY <1>1 DEF Held, Called
  <2> QED  BY <2>1 DEF Pool!Next, Pool!Release
<1>2. CASE ~(session'[s].tearedDown /\ ~session[s].tearedDown)
  BY <1>2 DEF Held, Called
<1> QED  BY <1>1, <1>2

\* The peer's sessions take and return tokens as a pool of that capacity does it:
\* never more than there are, and each holder once, in every run state and
\* across faults and restarts.
THEOREM PeerImplementsPool == PeerSpec => PoolImplemented
<1>1. PeerInit => Pool!Init
  BY DEF PeerInit, newConnector, Pool!Init, Held, Absent
<1>2. PeerInv /\ [PeerNext]_peerVars => [Pool!Next]_Held
  <2> SUFFICES ASSUME PeerInv, [PeerNext]_peerVars PROVE [Pool!Next]_Held
    OBVIOUS
  <2>1. CASE Master \/ PingLoopEnds \/ Environment \/ UNCHANGED peerVars
    <3>1. session' = session
      BY <2>1 DEF Master, discover, startPairing, prepareConnection, PingFails, StartHealth,
         StartAdvisor, Fault, WaitAll, cleanRestart, PingLoopEnds, Environment, sessionVars,
         peerVars
    <3> QED  BY <3>1 DEF Held
  <2>2. CASE ReserveFails
    BY <2>2 DEF ReserveFails, sessionVars, Held
  <2>3. ASSUME NEW s \in Sessions, Reserve(s) PROVE [Pool!Next]_Held
    <3>1. /\ SessionTypeOK /\ TokensConserved
          /\ session[s].tearedDown /\ readyWorkers > 0
          /\ session' = [session EXCEPT ![s] =
               [state |-> IF connector = "fresco" THEN "running" ELSE "PREPARE",
                id |-> FALSE, tearedDown |-> FALSE]]
      BY <2>3 DEF Reserve, RequestSession, PeerInv, PeerTypeOK
    <3>2. s \notin Held /\ Held' = Held \cup {s}
      BY <3>1 DEF Held, SessionTypeOK
    <3>3. Cardinality(Held) \in Nat
      BY SessionsAssumption, FS_Subset, FS_CardinalityType DEF Held
    <3>4. Cardinality(Held) < parallelSessions
      BY <3>1, <3>3, PoolAssumption DEF TokensConserved, SessionTypeOK
    <3>5. Pool!Acquire(s)
      <4>1. Pool!Cardinality(Held) = Cardinality(Held)
        BY DEF Pool!Cardinality, Cardinality
      <4> QED  BY <3>2, <3>4, <4>1 DEF Pool!Acquire
    <3> QED  BY <3>5 DEF Pool!Next
  <2>4. ASSUME NEW s \in Sessions, SpawnBridge(s) PROVE [Pool!Next]_Held
    BY <2>4 DEF SpawnBridge, sessionVars, Held
  <2>5. ASSUME NEW s \in Sessions, AwaitFails(s) PROVE [Pool!Next]_Held
    <3>1. SessionTypeOK /\ SessionOK(s) /\ Owned(s) /\ TearDown(s)
      BY <2>5 DEF PeerInv, PeerTypeOK, AwaitFails, Owned
    <3> QED  BY <3>1, TearDownCall, CallReleases DEF SessionOK
  <2>6. ASSUME NEW s \in Sessions, Bridge(s) \/ Gateway(s) PROVE [Pool!Next]_Held
    BY <2>6, BridgeCalls, CallReleases
  <2> QED  BY <2>1, <2>2, <2>3, <2>4, <2>5, <2>6 DEF PeerNext, Spawner
<1> QED
  BY <1>1, <1>2, PeerInvariant, PTL DEF PeerSpec, PoolImplemented, Pool!Spec
=============================================================================
