------------------------------ MODULE Worker ------------------------------
(***************************************************************************)
(* The gateway's worker pool (orchestration/worker): jobs travel through a *)
(* bounded queue to a few workers, each of which drives one job at a time  *)
(* through its phases.  In a phase the worker instructs every chat of the  *)
(* job, collects the results and hands them to the job's originator.  On   *)
(* errors a job is halted (its originator may reschedule it with fewer     *)
(* peers) or aborted.                                                      *)
(*                                                                         *)
(* The originator is any sequential user of SubmitJob, RescheduleOpenJob   *)
(* and the JobWatcher that, like FifoOrchestration.Request, its only user, *)
(* reschedules a job at most once.                                         *)
(***************************************************************************)
EXTENDS Chat, Sequences

CONSTANTS
  Workers,     \* the goroutines running jobWorker
  QueueCap,    \* capacity of PeerNetwork.jobs
  TaskCounts,  \* numbers of phases a job may have
  FlagChoices, \* arguments of HandleErrFlags
  NoJob        \* what an idle worker works on

ASSUME WorkerAssumption ==
  /\ QueueCap \in Nat
  /\ TaskCounts \subseteq Nat
  /\ FlagChoices \subseteq SUBSET Bits
  /\ NoJob \notin Jobs

VARIABLES
  queue,    \* PeerNetwork.jobs
  crashed,  \* a send on or close of a closed channel panicked
  (* Each worker's place in processJob, and its local variables. *)
  wpc, wjob,
  todo,     \* peers the current range loop has not reached yet
  cur,      \* the peer whose RequestChat or GetFeedback is waited for
  acc,      \* accumulatedErrFlags
  errPeers,
  resps,    \* results collected and not yet sent to the originator
  outcome,  \* status of the error processJob met: "nil", "Halted", "Aborted"
  (* Each job's fields. *)
  client,   \* where the originator stands
  ctxDone,  \* j.ctx is done
  parts,    \* peers of j.instr.Participants
  ntasks,   \* len(j.instr.Tasks)
  flags,    \* j.opts.handleErrFlags
  progress,
  chats,    \* keys of j.chats
  chanID,   \* per peer: the ID j.instr, later its chat, carries
  feedback, \* the channel j.feedback: "open" or "closed"
  lastErr,  \* status of j.lastErr, or "nil"
  round     \* how often the job was rescheduled

queryVars  == <<todo, cur, acc, errPeers, resps>>
workerVars == <<wpc, wjob, queryVars, outcome>>
instrVars  == <<parts, ntasks, flags, chanID, round>>
originVars == <<client, ctxDone, instrVars>>
jobVars    == <<originVars, progress, chats, feedback, lastErr>>
poolVars   == <<queue, crashed>>
vars       == <<chatVars, poolVars, workerVars, jobVars>>

Status == {"nil", "Halted", "Aborted"}

\* PeerResult.Progress is the job's progress when the result is sent.
PeerResult == [peer : Peers, val : SUBSET Vals]

WorkerTypeOK ==
  /\ wpc \in [Workers -> {"idle", "start", "open", "request", "instruct", "pull",
                          "wait", "feedback", "halt", "closefb", "closechats"}]
  /\ wjob \in [Workers -> Jobs \cup {NoJob}]
  /\ todo \in [Workers -> SUBSET Peers]
  /\ cur \in [Workers -> SUBSET Peers]
  /\ acc \in [Workers -> SUBSET Bits]
  /\ errPeers \in [Workers -> SUBSET Peers]
  /\ resps \in [Workers -> SUBSET PeerResult]
  /\ outcome \in [Workers -> Status]

JobTypeOK ==
  /\ client \in [Jobs -> {"new", "watch", "enqueue", "refused"}]
  /\ ctxDone \in [Jobs -> BOOLEAN]
  /\ parts \in [Jobs -> SUBSET Peers]
  /\ ntasks \in [Jobs -> Nat]
  /\ flags \in [Jobs -> SUBSET Bits]
  /\ progress \in [Jobs -> Nat]
  /\ chats \in [Jobs -> SUBSET Peers]
  /\ chanID \in [Jobs -> [Peers -> Nat]]
  /\ feedback \in [Jobs -> {"open", "closed"}]
  /\ lastErr \in [Jobs -> Status]
  /\ round \in [Jobs -> Nat]

\* Every variable has its type.
TypeOK ==
  /\ ChatTypeOK /\ WorkerTypeOK /\ JobTypeOK
  /\ queue \in Seq(Jobs)
  /\ crashed \in BOOLEAN

Init ==
  /\ ChatInit
  /\ queue = <<>>
  /\ crashed = FALSE
  /\ wpc = [w \in Workers |-> "idle"]
  /\ wjob = [w \in Workers |-> NoJob]
  /\ todo = [w \in Workers |-> {}]
  /\ cur = [w \in Workers |-> {}]
  /\ acc = [w \in Workers |-> {}]
  /\ errPeers = [w \in Workers |-> {}]
  /\ resps = [w \in Workers |-> {}]
  /\ outcome = [w \in Workers |-> "nil"]
  /\ client = [j \in Jobs |-> "new"]
  /\ ctxDone = [j \in Jobs |-> FALSE]
  /\ parts = [j \in Jobs |-> {}]
  /\ ntasks = [j \in Jobs |-> 0]
  /\ flags = [j \in Jobs |-> {}]
  /\ progress = [j \in Jobs |-> 0]
  /\ chats = [j \in Jobs |-> {}]
  /\ chanID = [j \in Jobs |-> [p \in Peers |-> 0]]
  /\ feedback = [j \in Jobs |-> "open"]
  /\ lastErr = [j \in Jobs |-> "nil"]
  /\ round = [j \in Jobs |-> 0]

-----------------------------------------------------------------------------
(* Chats of a job *)

\* Close() on the chats of job j to the peers of S, whose history ends with it.
Close(j, S) ==
  /\ closed' = [closed EXCEPT ![j] = [p \in Peers |-> @[p] \/ p \in S]]
  /\ answered' = [answered EXCEPT ![j] =
                    [p \in Peers |-> IF p \in S THEN 0 ELSE @[p]]]

\* Mutants: the closed chats stay in the map; nothing is revoked at all.
KeepRevokedChats(j, S) == Close(j, S) /\ UNCHANGED chats
RevokeNothing(j, S) == UNCHANGED <<closed, answered, chats>>

\* revokePeerChats: peers without a chat are skipped.
RevokePeerChats(j, S) ==
  /\ Close(j, S \cap chats[j])
  /\ chats' = [chats EXCEPT ![j] = @ \ S]

CloseAllChats(j) == RevokePeerChats(j, chats[j])

\* ContinousChanID: the peers of S get the IDs 1..|S| in any order.
Numberings(S) ==
  {f \in [S -> 1..Cardinality(S)] : \A p, q \in S : f[p] = f[q] => p = q}

\* The channel IDs of job j after those of the peers of S are set as f says.
Renumber(j, S, f) ==
  [chanID EXCEPT ![j] = [p \in Peers |-> IF p \in S THEN f[p] ELSE @[p]]]

-----------------------------------------------------------------------------
(* The originator of a job *)

\* SubmitJob puts a new job into the queue if there is room.
SubmitJob(j, S, f, n, fl) ==
  /\ client[j] = "new"
  /\ Len(queue) < QueueCap
  /\ queue' = Append(queue, j)
  /\ client' = [client EXCEPT ![j] = "watch"]
  /\ parts' = [parts EXCEPT ![j] = S]
  /\ ntasks' = [ntasks EXCEPT ![j] = n]
  /\ flags' = [flags EXCEPT ![j] = fl]
  /\ chanID' = Renumber(j, S, f)
  /\ UNCHANGED <<chatVars, crashed, workerVars, ctxDone, progress, chats,
                 feedback, lastErr, round>>

\* SubmitJob gives up waiting for room.
SubmitTimeout(j) ==
  /\ client[j] = "new"
  /\ ctxDone[j]
  /\ client' = [client EXCEPT ![j] = "refused"]
  /\ UNCHANGED <<chatVars, poolVars, workerVars, ctxDone, instrVars, progress,
                 chats, feedback, lastErr>>

\* The job's context times out or is cancelled.
Expire(j) ==
  /\ ~ctxDone[j]
  /\ ctxDone' = [ctxDone EXCEPT ![j] = TRUE]
  /\ UNCHANGED <<chatVars, poolVars, workerVars, client, instrVars, progress,
                 chats, feedback, lastErr>>

\* Mutant: a job without an error counts as halted.
HaltedUnlessAborted(j) == lastErr[j] # "Aborted"

isJobHalted(j) == lastErr[j] = "Halted"

\* The part of recycleJob that succeeds: every new participant has a chat.
\* closeUnusedChats still sees the old instruction.  The context passed is the
\* old one or a fresh one.
Recycle(j, S, f, n, fl, done) ==
  /\ client[j] = "watch" /\ round[j] = 0
  /\ isJobHalted(j)
  /\ n >= ntasks[j]
  /\ S \subseteq chats[j]
  /\ chanID' = Renumber(j, S, f)
  /\ RevokePeerChats(j, chats[j] \ parts[j])
  /\ ctxDone' = [ctxDone EXCEPT ![j] = done]
  /\ feedback' = [feedback EXCEPT ![j] = "open"]
  /\ lastErr' = [lastErr EXCEPT ![j] = "nil"]
  /\ parts' = [parts EXCEPT ![j] = S]
  /\ ntasks' = [ntasks EXCEPT ![j] = n]
  /\ flags' = [flags EXCEPT ![j] = fl]
  /\ round' = [round EXCEPT ![j] = @ + 1]
  /\ client' = [client EXCEPT ![j] = "enqueue"]
  /\ UNCHANGED <<serveVars, to, from, poolVars, workerVars, progress>>

\* recycleJob refuses a participant without a chat.  The chats of T, visited
\* before it, carry their new IDs already.
RecycleRefused(j, S, f, T) ==
  /\ client[j] = "watch" /\ round[j] = 0
  /\ isJobHalted(j)
  /\ ~ S \subseteq chats[j]
  /\ T \subseteq S \cap chats[j]
  /\ chanID' = Renumber(j, T, f)
  /\ UNCHANGED <<chatVars, poolVars, workerVars, client, ctxDone, parts, ntasks,
                 flags, round, progress, chats, feedback, lastErr>>

\* RescheduleOpenJob queues the recycled job, whose next attempt begins with the
\* phase that was halted: what was answered in that phase counts no more ...
Enqueue(j) ==
  /\ client[j] = "enqueue"
  /\ Len(queue) < QueueCap
  /\ queue' = Append(queue, j)
  /\ client' = [client EXCEPT ![j] = "watch"]
  /\ answered' = [answered EXCEPT ![j] =
                    [p \in Peers |-> IF @[p] > progress[j] THEN progress[j] ELSE @[p]]]
  /\ UNCHANGED <<serveVars, to, from, closed, crashed, workerVars, ctxDone,
                 instrVars, progress, chats, feedback, lastErr>>

\* ... or gives up, leaving it neither queued nor halted.
EnqueueTimeout(j) ==
  /\ client[j] = "enqueue"
  /\ ctxDone[j]
  /\ client' = [client EXCEPT ![j] = "watch"]
  /\ UNCHANGED <<chatVars, poolVars, workerVars, ctxDone, instrVars, progress,
                 chats, feedback, lastErr>>

\* Abort does nothing unless the job is halted.
Abort(j) ==
  /\ client[j] = "watch"
  /\ isJobHalted(j)
  /\ CloseAllChats(j)
  /\ lastErr' = [lastErr EXCEPT ![j] = "nil"]
  /\ UNCHANGED <<serveVars, to, from, poolVars, workerVars, originVars,
                 progress, feedback>>

-----------------------------------------------------------------------------
(* processJob: start and openPeerChats *)

Goto(w, pc) == wpc' = [wpc EXCEPT ![w] = pc]

\* jobWorker receives the next job.
TakeJob(w) ==
  /\ wpc[w] = "idle"
  /\ queue # <<>>
  /\ queue' = Tail(queue)
  /\ wjob' = [wjob EXCEPT ![w] = Head(queue)]
  /\ Goto(w, "start")
  /\ UNCHANGED <<chatVars, crashed, queryVars, outcome, jobVars>>

\* The job expired while it was queued.
JobExpired(w) ==
  /\ wpc[w] = "start"
  /\ ctxDone[wjob[w]]
  /\ outcome' = [outcome EXCEPT ![w] = "Aborted"]
  /\ Goto(w, "halt")
  /\ UNCHANGED <<chatVars, poolVars, wjob, queryVars, jobVars>>

StartJob(w) ==
  /\ wpc[w] = "start"
  /\ ~ctxDone[wjob[w]]
  /\ todo' = [todo EXCEPT ![w] = parts[wjob[w]]]
  /\ Goto(w, "open")
  /\ UNCHANGED <<chatVars, poolVars, wjob, cur, acc, errPeers, resps, outcome,
                 jobVars>>

\* A chat to p exists already.
ReuseChat(w, p) ==
  /\ wpc[w] = "open"
  /\ p \in todo[w] \cap chats[wjob[w]]
  /\ todo' = [todo EXCEPT ![w] = @ \ {p}]
  /\ UNCHANGED <<chatVars, poolVars, wpc, wjob, cur, acc, errPeers, resps,
                 outcome, jobVars>>

\* RequestChat: nobody serves the peer right now, so it waits.
RequestBlocks(w, p) ==
  /\ wpc[w] = "open"
  /\ p \in todo[w] \ chats[wjob[w]]
  /\ idle[p] = 0
  /\ todo' = [todo EXCEPT ![w] = @ \ {p}]
  /\ cur' = [cur EXCEPT ![w] = {p}]
  /\ Goto(w, "request")
  /\ UNCHANGED <<chatVars, poolVars, wjob, acc, errPeers, resps, outcome,
                 jobVars>>

\* A handler takes the chat, at once or after a wait.
RequestChat(w, p) ==
  /\ \/ wpc[w] = "open" /\ p \in todo[w] \ chats[wjob[w]]
     \/ wpc[w] = "request" /\ p \in cur[w]
  /\ Handover(wjob[w], p)
  /\ chats' = [chats EXCEPT ![wjob[w]] = @ \cup {p}]
  /\ todo' = [todo EXCEPT ![w] = @ \ {p}]
  /\ cur' = [cur EXCEPT ![w] = {}]
  /\ Goto(w, "open")
  /\ UNCHANGED <<poolVars, wjob, acc, errPeers, resps, outcome, originVars,
                 progress, feedback, lastErr>>

\* prepCtx ends while waiting (a handler that shows up right then may lose).
RequestTimeout(w) ==
  /\ wpc[w] = "request"
  /\ errPeers' = [errPeers EXCEPT ![w] = @ \cup cur[w]]
  /\ cur' = [cur EXCEPT ![w] = {}]
  /\ Goto(w, "open")
  /\ UNCHANGED <<chatVars, poolVars, wjob, todo, acc, resps, outcome, jobVars>>

\* Some peer could not be reached.
OpenFails(w) ==
  /\ wpc[w] = "open" /\ todo[w] = {}
  /\ errPeers[w] # {}
  /\ outcome' = [outcome EXCEPT ![w] =
       IF flags[wjob[w]] \cap ERR_CLASS_COMM # {} THEN "Halted" ELSE "Aborted"]
  /\ errPeers' = [errPeers EXCEPT ![w] = {}]
  /\ Goto(w, "halt")
  /\ UNCHANGED <<chatVars, poolVars, wjob, todo, cur, acc, resps, jobVars>>

\* Mutant: the last task is left out.
TaskRemainsShort(j, k) == k + 1 < ntasks[j]

\* remainingTasks of a job whose progress is k is not empty.
TaskRemains(j, k) == k < ntasks[j]

\* The loop over remainingTasks: query all chats, or finish the job.
NextTask(w) ==
  LET j == wjob[w] IN
  /\ \/ wpc[w] = "open" /\ todo[w] = {} /\ errPeers[w] = {}
        /\ progress' = progress
     \/ wpc[w] = "feedback" /\ resps[w] = {} /\ outcome[w] = "nil"
        /\ progress' = [progress EXCEPT ![j] = @ + 1]
  /\ IF TaskRemains(j, progress'[j])
       THEN /\ todo' = [todo EXCEPT ![w] = chats[j]]
            /\ Goto(w, "instruct")
       ELSE /\ todo' = todo
            /\ Goto(w, "closefb")
  /\ UNCHANGED <<chatVars, poolVars, wjob, cur, acc, errPeers, resps, outcome,
                 originVars, chats, feedback, lastErr>>

-----------------------------------------------------------------------------
(* processJob: queryTargetsSync *)

Instruct(w, p) ==
  LET j == wjob[w] IN
  /\ wpc[w] = "instruct"
  /\ p \in todo[w]
  /\ to[j][p] = {}
  /\ to' = [to EXCEPT ![j][p] =
       {[phase |-> progress[j], round |-> round[j], id |-> chanID[j][p]]}]
  /\ todo' = [todo EXCEPT ![w] = @ \ {p}]
  /\ UNCHANGED <<serveVars, from, closed, answered, poolVars, wpc, wjob,
                 cur, acc, errPeers, resps, outcome, jobVars>>

\* Instruct's select may prefer a context that is done.
InstructTimeout(w, p) ==
  /\ wpc[w] = "instruct"
  /\ p \in todo[w]
  /\ ctxDone[wjob[w]]
  /\ acc' = [acc EXCEPT ![w] = @ \cup STREAM_ERR]
  /\ errPeers' = [errPeers EXCEPT ![w] = @ \cup {p}]
  /\ todo' = [todo EXCEPT ![w] = @ \ {p}]
  /\ UNCHANGED <<chatVars, poolVars, wpc, wjob, cur, resps, outcome, jobVars>>

\* Mutant: the results are not waited for.
SkipPull(w) ==
  /\ wpc[w] = "instruct" /\ todo[w] = {}
  /\ Goto(w, "pull")
  /\ UNCHANGED <<chatVars, poolVars, wjob, queryVars, outcome, jobVars>>

InstructDone(w) ==
  /\ wpc[w] = "instruct" /\ todo[w] = {}
  /\ todo' = [todo EXCEPT ![w] = chats[wjob[w]]]
  /\ Goto(w, "pull")
  /\ UNCHANGED <<chatVars, poolVars, wjob, cur, acc, errPeers, resps, outcome,
                 jobVars>>

\* pullRespUntilDone for peer p: with a live context the worker waits.
PullWaits(w, p) ==
  /\ wpc[w] = "pull"
  /\ p \in todo[w]
  /\ ~ctxDone[wjob[w]]
  /\ todo' = [todo EXCEPT ![w] = @ \ {p}]
  /\ cur' = [cur EXCEPT ![w] = {p}]
  /\ Goto(w, "wait")
  /\ UNCHANGED <<chatVars, poolVars, wjob, acc, errPeers, resps, outcome,
                 jobVars>>

\* A result of p arrives: after a wait, or, the context being done, only if it
\* is there already.  A result of a communication error class ends the chat.
PullResult(w, p) ==
  LET j == wjob[w] IN
  /\ \/ wpc[w] = "wait" /\ p \in cur[w]
     \/ wpc[w] = "pull" /\ p \in todo[w] /\ ctxDone[j]
  /\ \E r \in from[j][p] :
       LET errFlag == r.status \cap ALL_ERROR_CLASSES
           res     == [peer |-> p, val |-> r.val] IN
         /\ acc' = [acc EXCEPT ![w] = @ \cup errFlag]
         /\ errPeers' = IF errFlag = {} THEN errPeers
                          ELSE [errPeers EXCEPT ![w] = @ \cup {p}]
         /\ resps' = IF errFlag = {} THEN [resps EXCEPT ![w] = @ \cup {res}]
                       ELSE resps
         /\ RevokePeerChats(j, IF errFlag \cap ERR_CLASS_COMM = {} THEN {} ELSE {p})
  /\ from' = [from EXCEPT ![j][p] = {}]
  /\ todo' = [todo EXCEPT ![w] = @ \ {p}]
  /\ cur' = [cur EXCEPT ![w] = {}]
  /\ Goto(w, "pull")
  /\ UNCHANGED <<serveVars, to, poolVars, wjob, outcome, originVars, progress,
                 feedback, lastErr>>

\* Mutant: the wait ignores the context.
WaitForever(w, p) == FALSE

\* No result in time: the context ended during the wait, or it had ended before
\* and the channel is empty.  The flag is STREAM_ERR, unlike a result's unmasked.
PullFails(w, p) ==
  LET j == wjob[w] IN
  /\ \/ wpc[w] = "wait" /\ p \in cur[w]
     \/ wpc[w] = "pull" /\ p \in todo[w] /\ from[j][p] = {}
  /\ ctxDone[j]
  /\ acc' = [acc EXCEPT ![w] = @ \cup STREAM_ERR]
  /\ errPeers' = [errPeers EXCEPT ![w] = @ \cup {p}]
  /\ RevokePeerChats(j, {p})
  /\ todo' = [todo EXCEPT ![w] = @ \ {p}]
  /\ cur' = [cur EXCEPT ![w] = {}]
  /\ Goto(w, "pull")
  /\ UNCHANGED <<serveVars, to, from, poolVars, wjob, resps, outcome,
                 originVars, progress, feedback, lastErr>>

\* All chats were asked: an error class the originator does not handle aborts.
QueryDone(w) ==
  LET j         == wjob[w]
      unhandled == ~ acc[w] \subseteq flags[j] IN
  /\ wpc[w] = "pull" /\ todo[w] = {}
  /\ RevokePeerChats(j, IF unhandled THEN errPeers[w] ELSE {})
  /\ outcome' = [outcome EXCEPT ![w] =
       IF unhandled THEN "Aborted" ELSE IF errPeers[w] # {} THEN "Halted" ELSE "nil"]
  /\ acc' = [acc EXCEPT ![w] = {}]
  /\ errPeers' = [errPeers EXCEPT ![w] = {}]
  /\ Goto(w, "feedback")
  /\ UNCHANGED <<serveVars, to, from, poolVars, wjob, todo, cur, resps,
                 originVars, progress, feedback, lastErr>>

-----------------------------------------------------------------------------
(* processJob: feedback, haltOrAbort and the end *)

\* sendFeedback: a rendezvous with the originator, whatever the context.
SendFeedback(w, r) ==
  /\ wpc[w] = "feedback"
  /\ r \in resps[w]
  /\ feedback[wjob[w]] = "open"
  /\ client[wjob[w]] = "watch"
  /\ resps' = [resps EXCEPT ![w] = @ \ {r}]
  /\ UNCHANGED <<chatVars, poolVars, wpc, wjob, todo, cur, acc, errPeers,
                 outcome, jobVars>>

FeedbackDone(w) ==
  /\ wpc[w] = "feedback" /\ resps[w] = {}
  /\ outcome[w] # "nil"
  /\ Goto(w, "halt")
  /\ UNCHANGED <<chatVars, poolVars, wjob, queryVars, outcome, jobVars>>

\* haltOrAbort sets lastErr under the lock ...
SetErr(w) ==
  /\ wpc[w] = "halt"
  /\ lastErr' = [lastErr EXCEPT ![wjob[w]] = outcome[w]]
  /\ Goto(w, "closefb")
  /\ UNCHANGED <<chatVars, poolVars, wjob, queryVars, outcome, originVars,
                 progress, chats, feedback>>

\* The worker is done with its job.
Release(w) ==
  /\ wjob' = [wjob EXCEPT ![w] = NoJob]
  /\ outcome' = [outcome EXCEPT ![w] = "nil"]
  /\ Goto(w, "idle")

\* ... and closes the channel j.feedback then refers to; so does a finished job.
CloseFeedback(w) ==
  /\ wpc[w] = "closefb"
  /\ feedback[wjob[w]] = "open"
  /\ feedback' = [feedback EXCEPT ![wjob[w]] = "closed"]
  /\ IF outcome[w] = "Halted" THEN Release(w)
       ELSE Goto(w, "closechats") /\ UNCHANGED <<wjob, outcome>>
  /\ UNCHANGED <<chatVars, poolVars, queryVars, originVars, progress, chats,
                 lastErr>>

\* An aborted or finished job has no more instructions for its peers.
EndJob(w) ==
  /\ wpc[w] = "closechats"
  /\ CloseAllChats(wjob[w])
  /\ Release(w)
  /\ UNCHANGED <<serveVars, to, from, poolVars, queryVars, originVars, progress,
                 feedback, lastErr>>

\* Sending on a closed channel, or closing it again, panics: the gateway dies.
Panic(w) ==
  /\ \/ wpc[w] = "feedback" /\ resps[w] # {}
     \/ wpc[w] = "closefb"
  /\ feedback[wjob[w]] = "closed"
  /\ crashed' = TRUE
  /\ UNCHANGED <<chatVars, queue, workerVars, jobVars>>

-----------------------------------------------------------------------------

\* What worker w does on its own.
ProcessJob(w) ==
  \/ TakeJob(w) \/ JobExpired(w) \/ StartJob(w) \/ RequestTimeout(w)
  \/ OpenFails(w) \/ NextTask(w) \/ InstructDone(w) \/ QueryDone(w)
  \/ FeedbackDone(w) \/ SetErr(w) \/ CloseFeedback(w) \/ EndJob(w) \/ Panic(w)
  \/ \E p \in Peers :
       \/ ReuseChat(w, p) \/ RequestBlocks(w, p) \/ RequestChat(w, p)
       \/ Instruct(w, p) \/ InstructTimeout(w, p)
       \/ PullWaits(w, p) \/ PullResult(w, p) \/ PullFails(w, p)

\* The originator of job j hands over an instruction for the peers of S.
Instruction(j, S, f) ==
  \/ \E n \in TaskCounts, fl \in FlagChoices :
       \/ SubmitJob(j, S, f, n, fl)
       \/ \E done \in {FALSE, ctxDone[j]} : Recycle(j, S, f, n, fl, done)
  \/ \E T \in SUBSET S : RecycleRefused(j, S, f, T)

\* What the originator of job j may do.  The pipeline hands it at least one
\* participant.
Originator(j) ==
  \/ SubmitTimeout(j) \/ Expire(j) \/ Enqueue(j) \/ EnqueueTimeout(j) \/ Abort(j)
  \/ \E S \in (SUBSET Peers) \ {{}} : \E f \in Numberings(S) : Instruction(j, S, f)

Next ==
  /\ ~crashed
  /\ \/ ChatNext /\ UNCHANGED <<queue, crashed, workerVars, jobVars>>
     \/ \E w \in Workers : ProcessJob(w) \/ \E r \in resps[w] : SendFeedback(w, r)
     \/ \E j \in Jobs : Originator(j)

Spec == Init /\ [][Next]_vars

-----------------------------------------------------------------------------
(* Properties *)

\* Worker w still touches the chats of job j.  After lastErr is set to Halted
\* it only has the feedback channel left to close.
Active(w, j) == wjob[w] = j /\ ~(wpc[w] = "closefb" /\ outcome[w] = "Halted")

\* The chat is at rest: its handler waits for the gateway and nothing is under
\* way in either direction.
Quiet(j, p) ==
  handler[j][p] = "await" /\ to[j][p] = {} /\ from[j][p] = {}

\* j.chats holds exactly the chats that are open.  So no chat is closed twice
\* and none is instructed after its close, either of which panics, and no
\* handler waits on a chat the job has forgotten (revokePeerChat, closeAllChats).
ChatsTracked ==
  \A j \in Jobs, p \in Peers :
    /\ p \in chats[j] => handler[j][p] # "none"
    /\ handler[j][p] # "none" => (closed[j][p] <=> p \notin chats[j])

\* Whatever a chat still in j.chats carries belongs to the phase and the attempt
\* the job is in: a late answer to an earlier phase, or to the attempt before a
\* reschedule, is never taken for a current one ("Progress must NOT mix", job.go).
Lockstep ==
  \A j \in Jobs : \A p \in chats[j] :
    \A m \in to[j][p] \cup relay[j][p] \cup from[j][p] :
      m.phase = progress[j] /\ m.round = round[j]

\* A job no worker touches (queued, halted, being rescheduled, lost) has only
\* chats at rest, each with a live handler: what recycleJob hands to the next
\* attempt is usable, and Abort interrupts nothing.
QuietBetweenAttempts ==
  \A j \in Jobs :
    (\A w \in Workers : ~Active(w, j)) => \A p \in chats[j] : Quiet(j, p)

\* A stream handler that relays an answer finds room for it: chatLoop's writes
\* to toGW, which watch no context, never block, not even on a revoked chat.
HandlerNeverBlocks ==
  \A j \in Jobs, p \in Peers : handler[j][p] = "recv" => from[j][p] = {}

\* Phases are a barrier: when a peer is asked for a phase, every peer of the job
\* has answered all the phases before without an error (and the phase a reschedule
\* repeats once more), whatever timeouts and late answers came between.
PhaseBarrier ==
  \A j \in Jobs : \A p, q \in chats[j] :
    \A c \in to[j][p] \cup relay[j][p] : answered[j][q] >= c.phase

\* Two workers never drive the same job's chats, whatever the order of halts,
\* reschedules and releases.
ExclusiveJob ==
  \A j \in Jobs, v, w \in Workers : Active(v, j) /\ Active(w, j) => v = w

Queued(j) == \E i \in 1..Len(queue) : queue[i] = j
Driven(j) == \E w \in Workers : Active(w, j)

\* Where job j is in its life.
StageOf(j) ==
  CASE client[j] = "new"     -> "new"
    [] client[j] = "enqueue" -> "refilled"
    [] client[j] = "refused" -> "over"
    [] client[j] = "watch"   ->
         IF Queued(j) THEN "queued" ELSE IF Driven(j) THEN "running"
         ELSE IF isJobHalted(j) THEN "halted" ELSE "over"

Life == INSTANCE JobLife WITH
  JobSet <- Jobs, Attempts <- 2,
  stage <- [j \in Jobs |-> StageOf(j)], phase <- progress, attempt <- round

\* Jobs live as the pool promises: halting, timing out, rescheduling and aborting
\* in any interleaving of workers and originator never drive a job that is over,
\* skip or repeat a phase, or queue a job that a worker still drives (comm.go:72-110,
\* job.go:94-170).
LifeImplemented == Life!LifeSpec

\* What the code's comments say of it, and what it does not do.

\* A job whose errors all belong to classes the requestor handles is halted, not
\* aborted (HandleErrFlags, job.go).
HandledErrorsHalt ==
  [][\A w \in Workers :
       wpc[w] = "pull" /\ wpc'[w] = "feedback"
         /\ acc[w] \cap ALL_ERROR_CLASSES \subseteq flags[wjob[w]]
       => outcome'[w] # "Aborted"]_vars
=============================================================================
