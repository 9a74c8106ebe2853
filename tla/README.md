# Formal models of flexsmc

flexsmc runs secure multi-party computations (SMC). A **gateway** accepts
requests, picks peers that fit, and drives the chosen peers through the phases of
a job; each **peer** relays the gateway's commands to a local SMC backend and
sends its results back. This directory holds TLA+ modules of the gateway's and the
peer's control flow, the TLC runs that check them on small instances and the
proofs, checked by TLAPS, that hold for instances of every size.

    tlc -config MCWorker.cfg MCWorker.tla      a run (cfg and module: see "Runs")
    tlapm WorkerProofs.tla                     proofs (likewise the other modules named *Proofs)

## The system

| Component | State it keeps | Operations | Hard behaviour |
|---|---|---|---|
| Worker pool and job engine (`orchestration/worker`) | job queue (4 places), two worker goroutines; per job: instruction, options, context, progress, chats, feedback channel, lastErr | `SubmitJob`, `RescheduleOpenJob`, `JobWatcher`; `processJob`, `recycleJob`, `Abort` | workers, originator and stream handlers share a job and its chats; timeouts at every wait; a halted job is handed to a second attempt |
| Chats and stream handlers (`directory/talk.go`, `node/gateway.go`) | two one-place channels per chat; per stream a handler goroutine | `Instruct`, `GetFeedback`, `Close`; `AwaitSMCRound`, `chatLoop` | streams break at any time, handlers notice late, answers arrive after the job moved on |
| Request orchestration (`orchestration/orchestration.go`) | the local variables of one call | `Request`: pipeline, submit, aggregate, resubmit once, abort | retries after timeouts race the worker that is still busy with the job |
| Aggregator (`orchestration/aggregation`) | buffered results per phase | `Process` | results of several peers and phases in any order, inconsistent results, NaN |
| Directory (`directory/registry.go`, `peerinfo.go`, `watcher.go`) and the RPC handlers feeding it (`node/gateway.go`) | known peers, their streams, the set online | `GetOrCreate`, `Touch`, `SubscribeCmdChan`, `RequestChat`, watcher loop | look-up and insertion are not atomic; the set online lags behind; a lock is held over a send that may block |
| Preprocessing pipeline (`orchestration/pipeline`) | none of its own (writes endpoint ports into shared peer infos) | group map, online filter, ping-pong, channel IDs, phase builder | ports assigned on shared objects, group changes between attempts |
| Peer's SMC bridge and sessions (`node/modules/smcadvisor.go`, `smc`) | session pool, per-session state machine | `RequestSession`, `ResetAll`, `Init`, `NextCmd`, `TearDown` | a session must return to the pool exactly once |
| Peer node and modules (`node/peer.go`, `node/modules`) | run state, connection, module set | run states, fault reporting, restart, pairing and ping loops | modules fail independently and are restarted together |
| Statistics (`benchmark/statistics`) | one shared log | `StartTrack`, `End` | concurrent writers |

How they interact. `Request` asks the pipeline for participants, puts a job into
the queue and reads its feedback channel through the aggregator. A worker takes
the job, obtains a chat for each participant (`RequestChat` hands a fresh chat to
the handler of one of the peer's waiting streams), and in each phase writes one
command into every chat and then reads one result from every chat. The handler
(`chatLoop`) carries commands to the peer and results back. Handlers tell the watcher, over a bounded channel, when a peer's
stream starts and ends; registry and watcher are what the pipeline plans with. On
the peer, the SMC advisor reserves a session of the backend, opens a stream for
it and gives both to a bridge, until a fault restarts all modules. Errors end the
phase: classes the originator asked to handle itself *halt* the job (its chats stay
open), all others *abort* it. A halted job may be recycled with fewer peers and
queued again, and then continues at the phase that failed.

What makes each component correct:

* *Job engine*: a job is driven by one worker at a time; the set of chats it
  remembers is exactly the set of open ones; a phase is a barrier; nothing of an
  earlier phase or attempt is taken for a current answer; what is handed to the
  next attempt is at rest; queries and requests end.
* *Chats and handlers*: no handler is stuck on a chat that was given up, or on a
  full buffer; no channel is used after it was closed.
* *Request and aggregator*: a returned result was reported by all participants in
  all phases, and every request returns. (That a failed request leaves nothing open is
  no criterion here: the code does not ensure it, see the observations below the runs.)
* *Directory*: a registered object stays; every stream is counted once while it is
  subscribed; the set online catches up; streams of silent peers are given up.
* *Pipeline*: an instruction has as many participants as asked for, numbered
  1..n; a sorted selection depends on the peers online only; an endpoint's port is
  that of its channel ID, but for the cases the code leaves open.
* *Sessions*: a token returns to the pool exactly once, whichever way a session
  ends; no command reaches a session that ended or was not initialised.
* *Peer node*: after a fault nothing of the old modules is left when new ones
  start; a lost gateway is noticed; the peer settles when gateway and backend do.

## Modules

| Module | Models | State |
|---|---|---|
| `Chat` | `talk.go`, `AwaitSMCRound`, `chatLoop`, and the answers of a peer's bridge | per peer: waiting streams; per job and peer: buffers, handler, stream |
| `Worker` (extends `Chat`) | `comm.go`, `job.go`, `error.go` | queue; per worker: program counter and locals; per job: its fields |
| `Orchestration` (extends `Worker`) | `Request` and `Process` as the originator of jobs | per call: program counter, result buffer, result, error |
| `JobLife` | what the pool promises about a job; implemented by `Worker` | per job: stage, phase, attempt |
| `Directory` | `registry.go`, `peerinfo.go`, `watcher.go`, and `Ping` and `AwaitSMCRound` as far as they use them | registered objects, activity, the watcher's channel and counts, per RPC goroutine: where it stands |
| `Roster` | what the directory promises to planners; implemented by `Directory`, extended by `Pipeline` | peers known, peers online |
| `Pipeline` (extends `Roster`) | all pipes of `orchestration/pipeline` and its retry loop | ports; per Request: its instruction so far |
| `Session` | both connectors and both session types of `smc` | the pool's tokens; per session: its state |
| `TokenPool` | what a `Connector` promises; implemented by `PeerNode` through `Session` | who holds a token |
| `PeerNode` (extends `Session`) | `peer.go`, `modules.go`, `health.go`, `smcadvisor.go` | run state, failed pings, ping loop, spawner; per session: its bridge; whether gateway and backend are up |
| `MCWorker`, `MCOrchestration`, `MCDirectory`, `MCPipeline`, `MCPeer` | definitions for the cfg files | |
| `MCIdentity` (extends `MCOrchestration`) | what the first phase told the peers, for one question | a history variable |
| `WorkerProofs` (extends `Worker`) | theorems: types, who drives a job | |
| `LifeProofs` (extends `WorkerProofs`) | theorem: `Worker` implements `JobLife` | |
| `ChatProofs` (extends `WorkerProofs`) | theorems: the chats of a job | |
| `BarrierProofs` (extends `ChatProofs`) | theorem: phases are a barrier | |
| `RequestProofs` (extends `Orchestration`, `BarrierProofs`, `LifeProofs`) | theorems: what `Request` returns; `Orchestration` implements `Worker` | |
| `DirectoryProofs` (extends `Directory`) | theorems: streams and registry; `Directory` implements `Roster` | |
| `PipelineProofs` (extends `Pipeline`) | theorems: instructions | |
| `PeerProofs` (extends `PeerNode`) | theorems: tokens, restarts, sessions; `PeerNode` implements `TokenPool` | |

How the abstract modules connect the detailed ones: `Directory` implements `Roster`
(its registered peers and the watcher's list), and `Pipeline` runs over any
`Roster`; `PeerNode` implements `TokenPool` with the sessions that have not returned
their token; `Worker` implements `JobLife` with the stage of a job computed from
queue, workers, `lastErr` and the originator's place (`StageOf`). `Chat` meets the
peer's side in two places: `ParallelSessions` and `Answers` of `Chat` stand for the
bridges that `PeerNode` models, and `idle` for streams that `Directory` calls `wait`.

`Worker`'s specification lets its originator be *any* sequential user of the
package's interface; `Orchestration` replaces that originator by the code of
`Request`, conjoining each originator action of `Worker` with the step of
`Request` that performs it.

### Correspondence with the code: the gateway's engine

*Atomicity.* A worker's step ends where another goroutine can act: at each channel
operation, at each iteration of the loops over peers, and between the lock and
the close in `haltOrAbort`. The loops range over Go maps, so their order is free.
`wpc` names the places: `open` and `request` are `openPeerChats` (`request`: blocked
in `RequestChat`), `instruct`, `pull` and `wait` are `queryTargetsSync` (`wait`: blocked
in `GetFeedback`), `feedback` is `sendFeedback`, `halt` is `haltOrAbort` before
`lastErr` is set, `closefb` the close of the feedback channel and `closechats`
`closeAllChats`.

*Chats.* A job opens at most one chat to a peer in its life: chats that were revoked
cannot be reopened, because `recycleJob` refuses a participant without a chat. So a
chat is identified by job and peer. Each of its channels has one place, modelled
by a set of at most one element. Commands and results carry the phase and the
attempt they belong to; these are ghost values for the properties (the result's
phase and attempt are those of the command answered). `answered` is a history
variable: per chat, how many phases its peer has answered without an error. It is
set when the handler puts such an answer into the chat, and goes back to the
job's progress when a halted job is queued again, because the next attempt repeats
the phase that was halted. No action reads it.

*Status.* `CmdResult.Status` is a bit mask, modelled by the set of its bits. The
value of a result whose status has an error bit is never looked at and is left out.

*Streams.* `stream` is `up`, `half` (the peer's bridge has closed its side), or `down`.
`chatLoop` notices a broken stream only when it sends or receives. A failed send
ends it silently, a failed receive is reported as `STREAM_ERR`.

*Peers.* A peer answers a command with any status of `BackendStatus`, with `ABORTED`
(initialisation failed) or `DENIED` (`reportError`), and hangs up after the latter
two or after a severe or final status. It may hold at most `ParallelSessions`
sessions.

*Contexts.* `ctxDone` is the job's context, which may end at any time; a `select` over
a context that is done and a channel that is ready may take either branch.
`prepCtx`, which limits `RequestChat`, is abstracted to a timeout that may always
happen.

*Originator.* `FifoOrchestration.Request` is the only user of the package. It
reschedules a job at most once (`orchestration.go:85`), so `round` is 0 or 1: this is a
bound of the code, not of the model. A refusal that changes nothing
(`ErrIncompatibleTasks`, a job that is not halted) is a stutter in `Worker` and a step
of `Request` in `Orchestration`.

*Pipeline.* It returns any nonempty set of participants, numbered 1..n in any order,
or fails. On the second attempt `Request` continues only with fewer participants.

*Panics.* A send on, or a second close of, the feedback channel sets `crashed`, after
which nothing happens. The channel `to` of a chat is closed only by its job:
`ChatsTracked` shows that it is never closed or written after its close.

### Correspondence with the code: directory and pipeline

*Goroutines.* `Calls` are gRPC's handler goroutines; each serves one RPC after
another. A step ends at the unlocked window of `GetOrCreate`, at each lock of a
`PeerInfo`, at the send to the watcher, and at the `select` of `AwaitSMCRound`.

*Objects.* A `PeerInfo` is named by the call that made it and its peer. The registry
knows one per peer; the loser of a race of first contacts keeps its own (`Add`
ignores the second). `lastPing` is abstracted to `recent`: younger than
`MaxActivityGap`.

*Locks.* `SubscribeCmdChan` and `UnsubscribeCmdChan` send to the watcher while they
hold `PeerInfo.mu`; `Touch` and the ticker's `LastActivity` wait for it.

*The watcher* is one goroutine; its mutex is only held within a step.

*Chats.* That a stream is handed a chat is one step (`ServeChat`); only streams on
the registered object can be. What happens in the chat is module `Chat`.

*Pipeline.* Each pipe is a step, except `PhaseBuilder`: it uses the port in the shared
`PeerInfo` without its lock, so testing whether there is one (`TestPort`), writing it
(`WritePort`) and reading the endpoint (`Endpoint`) are separate steps, between which
other Requests and `Touch` (which resets the address) may come. Two builds may both
find no port; the later write then wins. A map's iteration order is any
order. Two ghost values collect the participants whose port is not the build's own
doing: `odd` those that had a port when it was tested or that pinged during the
build, `raced` those whose port another build wrote after this one had and before
this one read it. Debug
aggregators take `DbgPingPong` instead of numbering and phases. The session ID, which
is the same constant in all instructions, and the options passed through to the
backend are left out.

### Correspondence with the code: the peer

*Goroutines.* The master (`run`, the state machine of `Operate` with the stages of
`startService` and `watchService`), the ping loop (`health`), `BlockingSpawn` (`spawner`)
and one bridge per session (`bridge`). A step ends where a goroutine can block: a
ping, the reservation, opening the stream, `Recv`, each call to the session, the
fault channel, `WaitAll`.

*One module context.* The model has one context; a new one is made on each return to
`Connecting`. `QuietRestart` justifies this: nothing of the old context runs then.

*Sessions.* A session object is reused when its bridge has ended. All calls to one
session come from one goroutine at a time, so a call is one step; the backend may
answer it in any way (`Answers`). Token and state are those of `frescoSession` or
`smcSessionMock`; the run considers both connectors. As in the code, a Fresco command
that ends a session returns the token whatever the session's state, while `TearDown`
looks at the state first; `SessionProtocol` shows that no command comes after the end.

*Environment.* Gateway and backend go down and come up at any time. While the
gateway is down pings, streams and receives fail; while the backend is down its
calls fail. A cancelled context has the effect of both on the calls that carry it.
A backend that is reached but refuses its reset (`ResetAll`) has the same effect on
`SMCAdvisor.Start` as one that is not reached; both are `~smcUp`.

## Runs

Runs of the engine use one session per peer and a queue with one place. Peers,
workers and Requests are symmetric where the run checks no liveness. Deadlock is
checked in `directory`. In the engine it is not: after all requests have returned
and all streams are gone the system rests, and a crashed gateway does nothing. Nor
in `pipeline` (every Request is run once) and `peer` (the environment always has a
step, so the check would say nothing; `PeerSettles` says more).

| Run | Checks | Instance | What it shows |
|---|---|---|---|
| `worker` | `TypeOK`, `ChatsTracked`, `Lockstep`, `QuietBetweenAttempts`, `HandlerNeverBlocks`, `PhaseBarrier`, `ExclusiveJob`, `LifeImplemented` | `Worker`: 1 job, 2 peers, 2 workers, 2 phases | the engine with any originator: open chats are exactly the remembered ones, phases and attempts do not mix, a handler never blocks on a write, a job has one worker at a time and lives as `JobLife` says |
| `request` | `RequestTypeOK`, `ResultSound`, `FinalPhaseReported` | `Orchestration`: 1 call, 2 peers, 2 workers, 2 phases, results `v1` and NaN | a result is returned only if all participants reported it in every phase |
| `returns` | `RequestReturns` | `Orchestration`: 1 call, 2 peers | `Request` returns even if workers and peers stop |
| `live` | `QueryEnds`, `ClosedChatEnds` | `Orchestration`: 1 call, 1 peer, 2 workers, 2 phases | queries end; handlers of closed chats end and free their streams |
| `directory` | `DirTypeOK`, `StreamsCounted`, `NoEndBeforeStart`, `RegistryStable`, `OrphanGivenUp`, `SilentStreamEnds`, `OnlineSettles`, `RosterImplemented` | `Directory`: 2 peers, 2 goroutines, 2 notifications | racing first contacts and overlapping streams: counts stay right, no end overtakes its start, unreachable streams are given up, the view settles |
| `pipeline` | `InstructionSound`, `SelectionDeterministic`, `PortsFollowChannels` | `Pipeline`: 2 peers, 2 Requests, 3 kinds of task, 2 attempts | instructions are sound whatever joins, leaves or pings while the pipes run |
| `peer` | `PeerTypeOK`, `TokensConserved`, `QuietRestart`, `SpawnerOutlived`, `SessionProtocol`, `TokenHasOwner`, `PoolImplemented`, `LostGatewayNoticed`, `PeerSettles` | `PeerNode`: 2 tokens, 3 session objects, both connectors, 2 failed pings | faults, restarts and failing sessions: tokens return once, nothing survives its context, the peer recovers |

*Why the bounds are enough.* Two peers are what it takes for one to fail, lag or
disagree while the other goes on, and for a second attempt with fewer peers. Two
phases distinguish the first phase (announces identities, is not repeated by a
second attempt) from a later one. Two workers are the pool's size: one may still
close the feedback channel of a job that the other already drives again. A worker
sees other jobs only as streams and queue places that are taken, which `RequestTimeout`
and `SubmitTimeout` cover; that two workers never meet on a job is proved for every
number of jobs. (With four places, as in the code, submitting only blocks later.)
The code compares results only for equality, so one ordinary value and NaN
(different from everything, itself included) cover agreement and disagreement. In `directory` two
goroutines are what a race of first contacts and overlapping streams of one peer
take; a channel with two places is full while both hold a lock, and peers are
coupled only through that channel. In `pipeline` the three tasks are a production task,
a sorted task limited to one of two peers and a debug task whose minimum exceeds its
maximum; two Requests are what it takes for one to meet the ports of another, and
two attempts (three in the code) for a retry that succeeds or fails. In `peer` two
tokens and three objects let one bridge hold a session while another ends and a
third is reserved; two failed pings (five in the code) distinguish
the last try from an earlier one.

*Fairness.* `returns` assumes only that the goroutine calling `Request` proceeds
when it can and that its deadline passes: every caller passes a context made by
`WithTimeout` (`main.go:50`, the benchmark's test). `live` adds that workers and stream
handlers proceed when they can; weak fairness per goroutine is what the Go
scheduler gives. It includes the peer's answer: a peer asked over a live stream
answers or its stream breaks (gRPC keep-alive), which the code cannot check.
Nothing is assumed of streams that wait, of peers that join or of sessions.
`directory`: the watcher and every handler proceed. For handlers this is strong
fairness, because a lock and a place in the channel may be taken and freed again:
Go's mutexes and channel queues do not starve a waiter. A `PeerInfo` outside the
registry gets no pings but those of its own call, so its activity lapses; of others
nothing is assumed. `peer`: master, ping loop, spawner and bridges proceed, and calls
to the backend return. Gateway and backend owe nothing: `LostGatewayNoticed` and
`PeerSettles` state what they assume of them. "Up" includes, for the backend, that it
accepts its reset; a peer whose ping loop has ended silently counts as settled, since
it operates and offers streams.

### Where the code and its documentation disagree

Each of these runs checks one statement taken from a comment and ends in a
counterexample; `PROJECT.json` quotes the lines.

| Run | Statement | What happens |
|---|---|---|
| `v_panic` | `NoPanic` | `lastErr` is published before the feedback channel is closed; a request that times out in between recycles the job and the worker closes the *new* channel |
| `v_second_attempt` | `SecondAttemptSuffices` | a shadowed `err`: a successful second attempt is returned with the first attempt's error |
| `v_handled` | `HandledErrorsHalt` | a timeout contributes the unmasked `STREAM_ERR`, which no set of handled classes contains |
| `v_peer_id` | `SmcPeerIDStable` | a second attempt renumbers the peers but does not repeat the phase that announced the numbers |
| `v_worker_stuck` | `QueuedJobStarts` | a worker sending feedback to a request that has timed out is blocked for ever (one worker in the run; two such jobs block the pool's two) |

`v_peer_id` runs over `MCIdentity`, which remembers the identity each peer was told
first, the others over `Orchestration`.

More observations, modelled as the code has them and without a run of their own:

* `Request` returns without `Abort` when the pipeline fails or a reschedule is refused
  after a halt (`orchestration.go:77`, `:87`); the halted job's chats stay open, and their
  handlers keep their streams. `QuietBetweenAttempts` and `LifeImplemented` allow it:
  such a chat is at rest, and such a job is over.
* "Every error should abort the complete job", says a comment on the second attempt
  (`orchestration.go:92`). An error that the aggregator finds itself (inconsistent results,
  the context) does not reach the worker: `Abort` refuses since the job is not halted, and
  the worker waits in `sendFeedback`, as in `v_worker_stuck`, with the chats open.
* Two concurrent builds can both find a peer without a port (`phasebuilder.go:32`). The
  later write wins, and the earlier build reads a port that is not that of its channel.
  This is the third exception of `PortsFollowChannels`; without it TLC finds the race.
* The comment that asks for a deterministic set of nodes also asks for the same
  "communication paths" (`onlinefilter.go:33`). `SelectionDeterministic` covers the nodes
  only: `contchans.go:18` numbers them in the order of a map, so the same sorted task,
  submitted twice, may link the same nodes by other endpoints.
* A recycled job that finds no place in the queue is neither queued nor halted, so
  an `Abort` would do nothing; `Request` calls none (`orchestration.go:85-89`,
  `comm.go:59`). Its chats stay open too.
* `closeUnusedChats` looks at the instruction that is about to be replaced
  (`job.go:242`), so the chat to an excluded peer stays open and is instructed again.
* `modules.go:12` says that a module notifies the master routine when it is done. The
  ping loop ends without a word (`health.go:36`); a lost gateway is noticed on the
  streams instead (`LostGatewayNoticed`).

## Proofs

Every safety property that a run checks, invariant or action property, and all three
refinements are proved for instances of every size. Each inductive invariant named
below was first checked by TLC on an instance like that of the component's run.

### The gateway's engine

`WorkerProofs` proves, for any number of jobs, peers and workers, any queue capacity
and any number of phases:

* `TypeCorrect`: `Spec => []TypeOK`. Types are not inductive on their own: a worker's
  steps index the job's fields by `wjob[w]`, so the proof carries `Assigned` (a worker
  has a job unless it is idle).
* `JobsAreExclusive`: `Spec => []ExclusiveJob`. The inductive invariant `OwnInv` says
  where a job can be: in the queue (at most once), with one worker, or with its
  originator, and that a job in the queue or with a worker is neither halted nor
  being rescheduled (`Placed`). The point is `SetErr`: a worker that halts its job
  gives it up in that very step, *before* it closes the feedback channel, so the
  originator may reschedule the job at once and another worker may take it;
  exclusiveness rests on `lastErr` alone.

`LifeProofs` proves `JobsLiveAsPromised`: `Spec => LifeImplemented`, the refinement of
`JobLife`. `OwnInv` tells each job's stage from its place; `OutcomeOK` adds that a worker
has met no error before the end of a query. A step then moves one job (`LifeMove`) or
none (`LifeStutter`); the cases that matter are `LifeSetErr` (a halting worker leaves the
job with `lastErr`, an aborting one does not), `LifeEnd` and the recycle step of
`LifeOriginator`.

`ChatProofs` proves, in the same generality, the chat discipline. Its inductive
invariant `ChatInv` has four parts, none of which is inductive without the others
(nor without `TypeOK` and `OwnInv`):

* `ShapeOK`, per chat: of command, relayed command and answer at most one is there,
  and which one is possible follows from where the handler stands.
* `LocalOK`, per worker: the loops visit participants while chats are opened, and open
  chats afterwards.
* `FreshOK`, per job: while chats are still to be opened, a participant without a
  chat never had one; a new chat therefore starts empty. Rescheduling keeps this
  because `recycleJob` refuses participants without a chat.
* `RestOK`, per chat: an open chat is at rest unless the worker driving the job has
  asked its peer and not yet collected the answer. This is where one worker per job
  is needed: a worker that moves on leaves only chats at rest behind.

From it follow `ChatsAreTracked` (`ChatsTracked`), `HandlersNeverBlock`
(`HandlerNeverBlocks`) and `ChatsRestBetweenAttempts` (`QuietBetweenAttempts`).
`PhasesDoNotMix` (`Lockstep`) is inductive relative to it: progress and attempt change
only when every chat of the job is empty (`LockNextTask`, the recycle step of
`LockOriginator`).

`BarrierProofs` proves `PhasesAreBarriers` (`PhaseBarrier`) from `BarrierInv`, inductive
relative to all of the above:

* `EarlyOK`: chats are opened in the first phase only. A second attempt may start in
  a later phase, but has a chat to each of its participants.
* `AnsweredOK`, per chat: its peer has answered every phase before the current one
  without an error, and the current one too once such an answer is in the chat.
* `CollectedOK`, per worker: so has every peer whose answer the worker has collected
  without error. At the end of a phase without errors these are all open chats, which
  is when the job's progress may grow.

The history variable `answered` that these parts are about forgets the halted phase
when a job is queued again (`BarrierEnqueue`): an answer to the first attempt does not
let the second one pass.

### Requests

`RequestProofs` puts the code of `Request` and `Process` in the place of the originator,
again for any number of calls, peers, workers and phases. `RequestsUseThePool`:
`OrchSpec => Spec`, a call of `Request` never uses the pool in a way that `Worker` does
not allow. So everything proved above of the pool holds under it. The invariant
`RequestInv` contains the pool's, and what is needed besides for `ResultsAreSound`
(`ResultSound`) and `FinalPhasesAreReported` (`FinalPhaseReported`):

* `CoverOK`, per worker: it loses no participant. Each is still to be visited, has a
  chat, is among those that failed, or its result is collected. So a query without an
  error has results of all.
* `ReportsOK`, per call: unless the buffer lacks the first phase, it holds results of
  all participants for each phase done. A second attempt with fewer participants
  starts with an empty buffer: if it continues at a later phase, the first phase
  is missing and `Process` ends with an error.
* `EndOK`: a stream of results that ends without error, with a first phase in the
  buffer, ends after the last phase.
* `FirstOK`, `RetryOK`, `StaleOK`: who may close the feedback channel. A worker that
  halted the first attempt may still have its channel to close when the second has
  begun; the late close then hits the new channel (the defect `v_panic` shows). These
  parts say that it can never be taken for the regular end of a complete second
  attempt: the call tried again either because a later phase was inconsistent, and the
  second attempt continues after the first phase, or because its deadline had passed,
  and the second attempt reports nothing.

### Directory

`DirectoryProofs` holds for any number of peers and handler goroutines and any
capacity of the watcher's channel. The invariant `DirInv` adds to the properties
themselves that a handler past `GetOrCreate` serves a registered peer (`HandlersOK`),
that only streams of registered peers are notified and counted (`KnownOK`), and that a
peer's subscribed streams are finitely many (`FiniteOK`; the goroutines need not be).
`StreamsAreCounted` (`StreamsCounted`) needs lemmas on how often an element occurs in a
queue (`Count`: what an append or a removal at the head changes); `EndsFollowStarts`
(`NoEndBeforeStart`) is inductive only together with it. `RegistryIsStable`
(`RegistryStable`) is an action property, and `DirectoryImplementsRoster`
(`RosterImplemented`) the refinement: each step registers a peer, lists one that is
registered, takes one off the list, or is a stutter of `Roster`.

### Pipeline

`PipelineProofs` holds for any finite set of peers, any set of Requests and any task
options, over any `Roster`, hence, by `DirectoryImplementsRoster`, over `Directory`. The
invariant `PipeInv` follows a build through the pipes: participants are different and
registered (`ListOK`), were chosen among those online when the filter asked (`PickOK`),
and are numbered 1..n once the pipe for that has run (`StageOK`); which endpoints are
written (`EndsOK`), and with which port (`PortsOK`). The last part is where builds
interfere. A build that found no port may write over one that another has written
since its test; the write marks the peer `raced` in every build that has still to read
the port (`WriteStep`), a ping marks it `odd` in every build under way (`TouchStep`), and
a port that was there before the test makes it `odd` too (`TestStep`). A port once
settled is otherwise as the build left it until it is read; no other step of another
build touches it (`RequestFrame`). Theorems: `InstructionsAreSound` (`InstructionSound`),
`SelectionsAreDeterministic` (`SelectionDeterministic`; a least part of a set is kept when
the set shrinks, `LeastKept`) and `PortsAreContinuous` (`PortsFollowChannels`). The second
is about the nodes, not about the "communication paths" that the comment next to it
also asks for (`onlinefilter.go:33`): those are not kept, as the observations say.

### Peer

`PeerProofs` holds for any number of tokens and session objects, both connectors and
any options of the peer. The invariant `PeerInv` has, besides types and `TokensConserved`
(which is inductive only with `SessionOK`):

* `ModulesOK`: in which run states spawner, bridges and ping loop can be there, and that
  the context of running modules is not cancelled. `RestartsAreQuiet` (`QuietRestart`)
  and `SpawnerEndsFirst` (`SpawnerOutlived`) rest on it.
* `RetryOK`: the counter of failed pings is below its limit unless the peer restarts.
* `SpawnerOK` and, per session, `SessionOK`: a session is held by the spawner or by its
  bridge, never both; a bridge that reads or commands has a live session, which is
  initialised before its first command; a session that nobody owns has returned its
  token. For Fresco, that an owned session has returned its token is told by its state
  alone, which is why a second `TearDown` is harmless.

From it follow `NoTokenIsLost` (`TokensConserved`), `TokensHaveOwners` (`TokenHasOwner`),
`SessionsObeyProtocol` (`SessionProtocol`) and the refinement `PeerImplementsPool`
(`PoolImplemented`): a step lets one session take a token, lets one return it, or
leaves the pool alone. The calls on a session are summarised by `Called`, proved per
call and connector, so that the steps of the bridge need not look into them.

### Assumptions and limits

The proofs use the assumptions the modules state on their constants, which TLC
evaluates in the runs: `PeersAssumption` (the set of peers is finite), `StatusAssumption`,
`WorkerAssumption`, `RequestAssumption` and `TaskAssumption` (types; `NoJob` is no job),
`DirectoryAssumption` (peers are numbers, the channel has a place), `PipelineAssumption`
(peers are finitely many positive numbers, there is at least one attempt), and for the
peer `PoolAssumption`, `RetryAssumption`, `OptionsAssumption`, `SessionsAssumption` and
`ConnectorsAssumption` (at least one token and one ping, finitely many session objects,
the two connectors the code has).

Only model-checked, because it is liveness, which is out of the prover's reach:
`RequestReturns`, `QueryEnds`, `ClosedChatEnds`, `OrphanGivenUp`, `SilentStreamEnds`,
`OnlineSettles`, `LostGatewayNoticed` and `PeerSettles`; likewise that `directory` does
not deadlock (ENABLED). The statements that the violation runs refute are of course not
proved.

## Not modelled

* Statistics (`benchmark/statistics`): a log of the benchmark, written through a buffered
  file. Its one hazard, concurrent writers, is a data race whose outcome depends on
  the inner state of the library's writer and touches nothing but the log.
* Pairing, announcement and shutdown of the gateway, certificates, discovery, flags
  and logging: I/O of libraries. Of pairing only its success or failure matters to
  the peer's run states.
* The host commands of the debug helper; only whether a debug phase is obeyed and
  asks for more is modelled.
* The generated protocol code: encoding and decoding; its statuses and fields are
  modelled where the control flow reads them.
* The faults counter of `watchService`, which is only logged, and the cases
  `<-ctx.Done()` of `RequestSession` and `reportFault`, which `SpawnerOutlived` shows
  are never taken.
* A backend that accepts a call and never answers it: `TearDown` has no deadline
  (`smc_fresco.go:186`), so such a backend would keep `WaitAll` waiting. `peer` assumes
  that calls return.
* The contents of results and commands beyond phase, attempt, identity and value.
* Sharing of a session ID by all instructions (`phasebuilder.go:22`): the backend that
  tells sessions apart by it is not part of the repository.

## Plan

1. Deadlock freedom of `Directory`'s locks and channel as an invariant: while the
   watcher's channel is full, some goroutine other than the waiting ones holds what they
   wait for, stated without ENABLED.
2. The safety half of the liveness properties, where it says more than they do: for
   `live`, that a closed chat leaves its handler nothing to wait for.
3. `Directory` and `Pipeline` side by side, as one specification that implements
   `Pipeline`'s.
