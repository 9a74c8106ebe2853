--------------------------- MODULE RequestProofs ---------------------------
(***************************************************************************)
(* Theorems about module Orchestration, for any number of requests, peers  *)
(* and workers: a call of Request uses the worker pool as module Worker    *)
(* has it, and what it returns was reported by every participant.          *)
(***************************************************************************)
EXTENDS Orchestration, BarrierProofs, LifeProofs

-----------------------------------------------------------------------------
(* The inductive invariant *)

\* A job that was submitted has as many phases as some request asks for.
CountsOK == \A j \in Jobs : client[j] \in {"watch", "enqueue"} => ntasks[j] \in TaskCounts

\* What a call holds.
CallOK(j) ==
  /\ rpc[j] \in {"ready", "submit", "enqueue"} => msgBuf[j] = {}
  /\ rpc[j] \in {"process", "resubmit", "enqueue"} => parts[j] # {}
  /\ result[j] # {} => rpc[j] = "done"
  /\ \A m \in msgBuf[j] : m.phase <= progress[j] /\ ntasks[j] > 0

Reporters(j, k) == {m.peer : m \in Phase(j, k)}

\* Unless the first phase is missing, all peers have reported in each phase done.
ReportsOK(j) ==
  rpc[j] = "process" /\ Phase(j, 0) # {} =>
    \A k \in 0..(progress[j] - 1) : parts[j] \subseteq Reporters(j, k)

\* No one is going to work on job j any more.
Spent(j) == ~Queued(j) /\ \A w \in Workers : wjob[w] = j => wpc[w] = "closechats"

\* The first attempt of a job occupies one worker, who closes its channel last.
FirstOK(j) ==
  /\ client[j] = "new" =>
       round[j] = 0 /\ feedback[j] = "open" /\ \A w \in Workers : wjob[w] # j
  /\ client[j] = "enqueue" => round[j] > 0
  /\ round[j] = 0 =>
       /\ \A v, w \in Workers : wjob[v] = j /\ wjob[w] = j => v = w
       /\ Queued(j) => \A w \in Workers : wjob[w] # j
       /\ feedback[j] = "closed" => Spent(j)

\* A worker who halted the job and has its channel still to close.
Stale(w, j) == wjob[w] = j /\ wpc[w] = "closefb" /\ outcome[w] = "Halted"

\* The first attempt is left to its worker for two reasons: its time is over, or
\* a phase after the first one was inconsistent.
RetryOK(j) == rpc[j] = "resubmit" => progress[j] > 0 \/ ctxDone[j] \/ Spent(j)

\* The channel of a second attempt that such a worker may close never carries a
\* result of the first phase.
StaleOK(j) ==
  rpc[j] \in {"enqueue", "process"} /\ lastErr[j] # "Halted" /\ (\E w \in Workers : Stale(w, j)) =>
    /\ Phase(j, 0) = {}
    /\ \/ progress[j] > 0
       \/ ctxDone[j] /\ \A w \in Workers : Active(w, j) =>
                          wpc[w] \in {"start", "halt", "closefb", "closechats"}

\* A stream that ends without an error, and not for want of the first phase, ends
\* after the last one.
EndOK(j) ==
  rpc[j] = "process" /\ feedback[j] = "closed" /\ lastErr[j] = "nil" /\ Phase(j, 0) # {} =>
    ntasks[j] <= progress[j]

\* A worker loses no participant: it is still to be visited, has a chat, failed,
\* or its result is there.
CoverOK(w) ==
  LET j     == wjob[w]
      found == {r.peer : r \in resps[w]} IN
    /\ wpc[w] \in {"open", "request"} =>
         parts[j] \subseteq todo[w] \cup cur[w] \cup chats[j] \cup errPeers[w]
    /\ wpc[w] = "instruct" => parts[j] \subseteq chats[j]
    /\ wpc[w] \in {"pull", "wait"} =>
         /\ parts[j] \subseteq todo[w] \cup cur[w] \cup errPeers[w] \cup found
         /\ parts[j] \subseteq chats[j] \cup errPeers[w]
    /\ wpc[w] = "feedback" /\ outcome[w] = "nil" =>
         /\ parts[j] \subseteq chats[j]
         /\ rpc[j] = "process" => parts[j] \subseteq found \cup Reporters(j, progress[j])
    /\ wpc[w] \in {"instruct", "pull", "wait", "feedback"} => progress[j] < ntasks[j]
    /\ wpc[w] = "halt" => outcome[w] # "nil"
    /\ wpc[w] \in {"closefb", "closechats"} =>
         /\ outcome[w] = "nil" => ntasks[j] <= progress[j]
         /\ outcome[w] = "Aborted" => lastErr[j] = "Aborted"

JobOK(j) ==
  CallOK(j) /\ ReportsOK(j) /\ FirstOK(j) /\ RetryOK(j) /\ StaleOK(j) /\ EndOK(j)

PoolInv == TypeInv /\ OwnInv /\ ChatInv /\ OutcomeOK

RequestInv ==
  /\ PoolInv /\ CountsOK /\ RequestTypeOK /\ ResultSound
  /\ \A j \in Jobs : JobOK(j)
  /\ \A w \in Workers : CoverOK(w)

-----------------------------------------------------------------------------
(* Request is an originator as module Worker has it *)

\* The kinds of steps: the peers', the workers', and those of one request.
LEMMA OrchCases ==
  ASSUME [OrchNext]_allVars
  PROVE  \/ UNCHANGED <<poolVars, workerVars, jobVars, requestVars>>
               /\ (ChatNext \/ UNCHANGED chatVars)
         \/ \E w \in Workers : Work(w)
         \/ \E j \in Jobs : CallRequest(j) \/ Request(j) \/ Deadline(j)
BY DEF OrchNext, Environment, allVars, vars

\* Whatever a request does to the pool is what the pool's users may do.
LEMMA RequestUsesPool ==
  ASSUME CountsOK, RequestTypeOK, TypeInv, NEW j \in Jobs,
         CallRequest(j) \/ Request(j) \/ Deadline(j)
  PROVE  \/ UNCHANGED vars
         \/ Originator(j)
         \/ Receive(j)
<1>1. CASE CallRequest(j) \/ StreamEnds(j) \/ ProcessTimeout(j) \/ ResubmitFails(j)
             \/ NothingChanged(j)
  BY <1>1 DEF CallRequest, StreamEnds, ProcessTimeout, ResubmitFails, NothingChanged
<1>2. CASE Deadline(j) \/ SubmitFails(j) \/ Reschedule(j) \/ GiveUp(j)
  BY <1>2 DEF Deadline, SubmitFails, Reschedule, GiveUp, Originator
<1>3. ASSUME NEW S \in (SUBSET Peers) \ {{}}, NEW f \in Numberings(S),
             \/ \E n \in TaskCounts : Submit(j, S, f, n)
             \/ Resubmit(j, S, f)
      PROVE  UNCHANGED vars \/ Originator(j)
  <2>1. CASE \E n \in TaskCounts : Submit(j, S, f, n)
    <3>1. Instruction(j, S, f)
      BY <2>1, RequestAssumption DEF Submit, Instruction
    <3> QED  BY <3>1 DEF Originator
  <2>2. CASE Recycle(j, S, f, ntasks[j], ResubmitFlags, ctxDone[j])
    <3>1. ntasks[j] \in TaskCounts /\ ctxDone[j] \in BOOLEAN
      BY <2>2 DEF CountsOK, Recycle, TypeInv, TypeOK, JobTypeOK
    <3>2. Instruction(j, S, f)
      BY <2>2, <3>1, RequestAssumption DEF Instruction
    <3> QED  BY <3>2 DEF Originator
  <2>3. CASE \E T \in SUBSET S : RecycleRefused(j, S, f, T)
    <3>1. Instruction(j, S, f)
      BY <2>3 DEF Instruction
    <3> QED  BY <3>1 DEF Originator
  <2> QED  BY <1>3, <2>1, <2>2, <2>3 DEF Resubmit
<1> QED  BY <1>1, <1>2, <1>3 DEF Request

LEMMA RequestUses ==
  ASSUME CountsOK, RequestTypeOK, TypeInv, NEW j \in Jobs,
         CallRequest(j) \/ Request(j) \/ Deadline(j)
  PROVE  \/ UNCHANGED vars
         \/ Originator(j)
         \/ \E w \in Workers : \E r \in resps[w] : SendFeedback(w, r)
BY RequestUsesPool DEF Receive, ReceiveResult

LEMMA PoolStep ==
  ASSUME CountsOK, RequestTypeOK, TypeInv, [OrchNext]_allVars
  PROVE  [Next]_vars
<1>1. CASE UNCHANGED <<poolVars, workerVars, jobVars, requestVars>>
             /\ (ChatNext \/ UNCHANGED chatVars)
  <2>1. CASE UNCHANGED chatVars
    BY <1>1, <2>1 DEF vars
  <2>2. CASE ~ UNCHANGED chatVars
    BY <1>1, <2>2 DEF OrchNext, Next, poolVars, allVars, vars
  <2> QED  BY <2>1, <2>2
<1>2. CASE UNCHANGED vars
  BY <1>2
<1>3. CASE ~ UNCHANGED vars
  <2>1. ~crashed
    BY <1>3 DEF OrchNext, allVars
  <2>2. ASSUME NEW w \in Workers, Work(w) PROVE Next
    BY <2>1, <2>2 DEF Work, Next
  <2>3. ASSUME NEW j \in Jobs, CallRequest(j) \/ Request(j) \/ Deadline(j) PROVE Next
    BY <1>3, <2>1, <2>3, RequestUses DEF Next
  <2> QED  BY <1>1, <2>2, <2>3, OrchCases
<1> QED  BY <1>2, <1>3

\* The workers leave the originators' fields alone.
LEMMA OriginKept ==
  ASSUME NEW w \in Workers, ProcessJob(w)
  PROVE  UNCHANGED originVars
<1> USE DEF jobVars
<1>1. CASE TakeJob(w) \/ JobExpired(w) \/ StartJob(w) \/ RequestTimeout(w) \/ OpenFails(w)
  BY <1>1 DEF TakeJob, JobExpired, StartJob, RequestTimeout, OpenFails
<1>2. CASE NextTask(w) \/ InstructDone(w) \/ QueryDone(w) \/ FeedbackDone(w)
  BY <1>2 DEF NextTask, InstructDone, QueryDone, FeedbackDone
<1>3. CASE SetErr(w) \/ CloseFeedback(w) \/ EndJob(w) \/ Panic(w)
  BY <1>3 DEF SetErr, CloseFeedback, EndJob, Panic
<1>4. ASSUME NEW p \in Peers, ReuseChat(w, p) \/ RequestBlocks(w, p) \/ RequestChat(w, p)
      PROVE  UNCHANGED originVars
  BY <1>4 DEF ReuseChat, RequestBlocks, RequestChat
<1>5. ASSUME NEW p \in Peers, Instruct(w, p) \/ InstructTimeout(w, p)
      PROVE  UNCHANGED originVars
  BY <1>5 DEF Instruct, InstructTimeout
<1>6. ASSUME NEW p \in Peers, PullWaits(w, p) \/ PullResult(w, p) \/ PullFails(w, p)
      PROVE  UNCHANGED originVars
  BY <1>6 DEF PullWaits, PullResult, PullFails
<1> QED  BY <1>1, <1>2, <1>3, <1>4, <1>5, <1>6 DEF ProcessJob

LEMMA CountsStep ==
  ASSUME CountsOK, RequestTypeOK, TypeInv, [OrchNext]_allVars
  PROVE  CountsOK'
<1> USE DEF jobVars, originVars, instrVars
<1>0. JobTypeOK
  BY DEF TypeInv, TypeOK
<1>1. CASE UNCHANGED <<client, ntasks>>
  BY <1>1 DEF CountsOK
<1>2. ASSUME NEW w \in Workers, Work(w) PROVE UNCHANGED <<client, ntasks>>
  BY <1>2, OriginKept DEF Work
<1>3. ASSUME NEW j \in Jobs, NEW S, NEW f, NEW n \in TaskCounts, Submit(j, S, f, n)
      PROVE  CountsOK'
  BY <1>0, <1>3 DEF Submit, SubmitJob, CountsOK, JobTypeOK
<1>4. ASSUME NEW j \in Jobs, NEW S, NEW f, Resubmit(j, S, f)
      PROVE  CountsOK'
  <2>1. CASE Recycle(j, S, f, ntasks[j], ResubmitFlags, ctxDone[j])
    <3>1. client[j] = "watch" /\ ntasks' = ntasks
      BY <1>0, <2>1 DEF Recycle, JobTypeOK
    <3>2. \A i \in Jobs : i # j => client'[i] = client[i]
      BY <1>0, <2>1 DEF Recycle, JobTypeOK
    <3> QED  BY <3>1, <3>2 DEF CountsOK
  <2>2. CASE UNCHANGED vars \/ \E T \in SUBSET S : RecycleRefused(j, S, f, T)
    BY <1>1, <2>2 DEF RecycleRefused, vars
  <2> QED  BY <1>4, <2>1, <2>2 DEF Resubmit
<1>5. ASSUME NEW j \in Jobs, SubmitFails(j) \/ Reschedule(j) PROVE CountsOK'
  BY <1>0, <1>5 DEF SubmitFails, SubmitTimeout, Reschedule, Enqueue, EnqueueTimeout,
                    CountsOK, JobTypeOK
<1>6. ASSUME NEW j \in Jobs,
             CallRequest(j) \/ Deadline(j) \/ Receive(j) \/ StreamEnds(j) \/ ProcessTimeout(j)
               \/ ResubmitFails(j) \/ NothingChanged(j) \/ GiveUp(j)
      PROVE  UNCHANGED <<client, ntasks>>
  BY <1>6 DEF CallRequest, Deadline, Expire, Receive, ReceiveResult, SendFeedback, StreamEnds,
              ProcessTimeout, ResubmitFails, NothingChanged, GiveUp, Abort, vars
<1> QED  BY <1>1, <1>2, <1>3, <1>4, <1>5, <1>6, OrchCases DEF Request

-----------------------------------------------------------------------------
(* What does not concern a job *)

SameCall(j) == rpc'[j] = rpc[j] /\ msgBuf'[j] = msgBuf[j] /\ result'[j] = result[j]

SameFields(j) ==
  /\ client'[j] = client[j] /\ ctxDone'[j] = ctxDone[j] /\ parts'[j] = parts[j]
  /\ ntasks'[j] = ntasks[j] /\ round'[j] = round[j] /\ progress'[j] = progress[j]
  /\ feedback'[j] = feedback[j] /\ lastErr'[j] = lastErr[j]

\* The same workers work on the job, and stand where they stood.
SameWork(j) ==
  /\ Queued(j)' => Queued(j)
  /\ \A w \in Workers : /\ wjob'[w] = j <=> wjob[w] = j
                        /\ wjob[w] = j => wpc'[w] = wpc[w] /\ outcome'[w] = outcome[w]

LEMMA PhaseKept ==
  ASSUME NEW j \in Jobs, msgBuf'[j] = msgBuf[j]
  PROVE  \A k : Phase(j, k)' = Phase(j, k) /\ Reporters(j, k)' = Reporters(j, k)
BY DEF Phase, Reporters

LEMMA JobFrame ==
  ASSUME NEW j \in Jobs, JobOK(j), SameCall(j), SameFields(j), SameWork(j)
  PROVE  JobOK(j)'
<1> USE DEF SameCall, SameFields, SameWork
<1>0. \A k : Phase(j, k)' = Phase(j, k) /\ Reporters(j, k)' = Reporters(j, k)
  BY PhaseKept
<1>1. CallOK(j)'
  BY DEF JobOK, CallOK
<1>2. ReportsOK(j)'
  BY <1>0 DEF JobOK, ReportsOK
<1>3. Spent(j) => Spent(j)'
  BY DEF Spent
<1>4. FirstOK(j)'
  BY <1>3 DEF JobOK, FirstOK
<1>5. RetryOK(j)'
  BY <1>3 DEF JobOK, RetryOK
<1>6. \A w \in Workers : (Stale(w, j)' <=> Stale(w, j)) /\ (Active(w, j)' <=> Active(w, j))
  BY DEF Stale, Active
<1>7. StaleOK(j)'
  <2>1. \A w \in Workers : Active(w, j) => wpc'[w] = wpc[w]
    BY DEF Active
  <2> QED  BY <1>0, <1>6, <2>1 DEF JobOK, StaleOK
<1>8. EndOK(j)'
  BY <1>0 DEF JobOK, EndOK
<1> QED  BY <1>1, <1>2, <1>4, <1>5, <1>7, <1>8 DEF JobOK

\* What worker w needs of its job is as before, unless it has halted it.
LEMMA CoverFrame ==
  ASSUME NEW w \in Workers, CoverOK(w),
         /\ wpc'[w] = wpc[w] /\ wjob'[w] = wjob[w] /\ todo'[w] = todo[w] /\ cur'[w] = cur[w]
         /\ errPeers'[w] = errPeers[w] /\ resps'[w] = resps[w] /\ outcome'[w] = outcome[w],
         wpc[w] # "idle" /\ Active(w, wjob[w]) =>
           LET j == wjob[w] IN
             /\ parts'[j] = parts[j] /\ ntasks'[j] = ntasks[j] /\ chats'[j] = chats[j]
             /\ progress'[j] = progress[j] /\ lastErr'[j] = lastErr[j]
             /\ rpc'[j] = "process" => rpc[j] = "process" /\ msgBuf'[j] = msgBuf[j]
  PROVE  CoverOK(w)'
<1>1. CASE wpc[w] = "idle"
  BY <1>1 DEF CoverOK
<1>2. CASE wpc[w] = "closefb" /\ outcome[w] = "Halted"
  BY <1>2 DEF CoverOK
<1>3. CASE wpc[w] # "idle" /\ Active(w, wjob[w])
  <2>0. PICK j : j = wjob[w]
    OBVIOUS
  <2>1. /\ parts'[j] = parts[j] /\ ntasks'[j] = ntasks[j] /\ chats'[j] = chats[j]
        /\ progress'[j] = progress[j] /\ lastErr'[j] = lastErr[j]
        /\ rpc'[j] = "process" => rpc[j] = "process" /\ msgBuf'[j] = msgBuf[j]
    BY <1>3, <2>0
  <2>2. rpc'[j] = "process" => Reporters(j, progress[j])' = Reporters(j, progress[j])
    BY <2>1 DEF Phase, Reporters
  <2>3. wjob'[w] = j /\ wjob[w] = j
    BY <2>0
  <2> QED  BY <2>1, <2>2, <2>3 DEF CoverOK
<1> QED  BY <1>1, <1>2, <1>3 DEF Active

-----------------------------------------------------------------------------
(* The workers' steps and the jobs *)

\* Taking a job off the queue leaves no second one there.
LEMMA QueueHead ==
  ASSUME queue \in Seq(Jobs), queue # <<>>, QueuedOnce, queue' = Tail(queue)
  PROVE  /\ Head(queue) \in Jobs /\ Queued(Head(queue))
         /\ \A i : Queued(i)' => Queued(i) /\ i # Head(queue)
<1>1. /\ Len(queue) \in Nat \ {0} /\ Head(queue) = queue[1] /\ Head(queue) \in Jobs
      /\ Len(queue') = Len(queue) - 1
      /\ \A n \in 1..(Len(queue) - 1) : queue'[n] = queue[n + 1]
  BY HeadTailProperties, LenProperties, EmptySeq
<1>2. \A n \in 1..Len(queue') : n + 1 \in 1..Len(queue) /\ queue'[n] = queue[n + 1]
  BY <1>1
<1>3. 1 \in 1..Len(queue)
  BY <1>1
<1>4. Queued(Head(queue))
  BY <1>1, <1>3 DEF Queued
<1>5. ASSUME NEW n \in 1..Len(queue'), queue'[n] = Head(queue) PROVE FALSE
  <2>1. queue[n + 1] = queue[1] /\ n + 1 \in 1..Len(queue)
    BY <1>1, <1>2, <1>5
  <2>2. n + 1 = 1
    BY <1>3, <2>1 DEF QueuedOnce
  <2> QED  BY <1>1, <2>2
<1>6. \A i : Queued(i)' => Queued(i)
  BY <1>2 DEF Queued
<1> QED  BY <1>1, <1>4, <1>5, <1>6 DEF Queued

\* Steps of worker w that are no concern of the job's originator: they leave the
\* job's progress, channel and error alone.
Inner(w) ==
  /\ UNCHANGED <<queue, wjob, originVars, progress, feedback, lastErr>>
  /\ \A v \in Workers : v # w => wpc'[v] = wpc[v] /\ outcome'[v] = outcome[v]
  /\ \/ wpc'[w] = wpc[w] /\ outcome'[w] = outcome[w]
     \/ /\ wpc[w] \notin {"halt", "closefb", "closechats"}
        /\ wpc'[w] \notin {"closefb", "closechats"}
        /\ wpc[w] = "start" /\ ctxDone[wjob[w]] => wpc'[w] = "halt"

LEMMA InnerStep ==
  ASSUME TypeInv, NEW w \in Workers, ProcessJob(w)
  PROVE  Inner(w) \/ TakeJob(w) \/ NextTask(w) \/ SetErr(w) \/ CloseFeedback(w) \/ EndJob(w)
<1> USE DEF Inner, Goto, workerVars, queryVars, poolVars, jobVars, originVars
<1>0. DOMAIN wpc = Workers /\ DOMAIN outcome = Workers
  BY DEF TypeInv, TypeOK, WorkerTypeOK
<1>1. JobExpired(w) => Inner(w)
  BY <1>0 DEF JobExpired
<1>2. StartJob(w) => Inner(w)
  BY <1>0 DEF StartJob
<1>3. RequestTimeout(w) => Inner(w)
  BY <1>0 DEF RequestTimeout
<1>4. OpenFails(w) => Inner(w)
  BY <1>0 DEF OpenFails
<1>5. InstructDone(w) => Inner(w)
  BY <1>0 DEF InstructDone
<1>6. QueryDone(w) => Inner(w)
  BY <1>0 DEF QueryDone
<1>7. FeedbackDone(w) => Inner(w)
  BY <1>0 DEF FeedbackDone
<1>8. Panic(w) => Inner(w)
  BY <1>0 DEF Panic
<1>9. ASSUME NEW p \in Peers, ReuseChat(w, p) PROVE Inner(w)
  BY <1>0, <1>9 DEF ReuseChat
<1>10. ASSUME NEW p \in Peers, RequestBlocks(w, p) PROVE Inner(w)
  BY <1>0, <1>10 DEF RequestBlocks
<1>11. ASSUME NEW p \in Peers, RequestChat(w, p) PROVE Inner(w)
  BY <1>0, <1>11 DEF RequestChat
<1>12. ASSUME NEW p \in Peers, Instruct(w, p) \/ InstructTimeout(w, p) PROVE Inner(w)
  BY <1>0, <1>12 DEF Instruct, InstructTimeout
<1>13. ASSUME NEW p \in Peers, PullWaits(w, p) PROVE Inner(w)
  BY <1>0, <1>13 DEF PullWaits
<1>14. ASSUME NEW p \in Peers, PullResult(w, p) PROVE Inner(w)
  BY <1>0, <1>14 DEF PullResult
<1>15. ASSUME NEW p \in Peers, PullFails(w, p) PROVE Inner(w)
  BY <1>0, <1>15 DEF PullFails
<1> HIDE DEF Inner
<1> QED
  BY <1>1, <1>2, <1>3, <1>4, <1>5, <1>6, <1>7, <1>8, <1>9, <1>10, <1>11, <1>12,
     <1>13, <1>14, <1>15 DEF ProcessJob

LEMMA JobInner ==
  ASSUME NEW w \in Workers, Inner(w), UNCHANGED requestVars, NEW j \in Jobs, JobOK(j)
  PROVE  JobOK(j)'
<1>1. SameCall(j) /\ SameFields(j)
  BY DEF Inner, requestVars, SameCall, SameFields, originVars, instrVars
<1>2. CASE wjob[w] # j \/ (wpc'[w] = wpc[w] /\ outcome'[w] = outcome[w])
  <2>1. SameWork(j)
    BY <1>2 DEF Inner, SameWork, Queued
  <2> QED  BY <1>1, <2>1, JobFrame
<1>3. CASE /\ wjob[w] = j
           /\ wpc[w] \notin {"halt", "closefb", "closechats"}
           /\ wpc'[w] \notin {"closefb", "closechats"}
           /\ wpc[w] = "start" /\ ctxDone[wjob[w]] => wpc'[w] = "halt"
  <2>0. \A k : Phase(j, k)' = Phase(j, k) /\ Reporters(j, k)' = Reporters(j, k)
    BY <1>1, PhaseKept DEF SameCall
  <2>1. ~Spent(j)
    BY <1>3 DEF Spent
  <2>2. CallOK(j)' /\ ReportsOK(j)' /\ EndOK(j)'
    BY <1>1, <2>0 DEF JobOK, CallOK, ReportsOK, EndOK, SameCall, SameFields
  <2>3. wjob' = wjob /\ (Queued(j)' <=> Queued(j))
    BY DEF Inner, Queued
  <2>4. FirstOK(j)'
    BY <1>1, <2>1, <2>3 DEF JobOK, FirstOK, SameFields
  <2>5. RetryOK(j)'
    BY <1>1, <2>1 DEF JobOK, RetryOK, SameCall, SameFields
  <2>6. StaleOK(j)'
    <3>1. \A v \in Workers : Stale(v, j)' => Stale(v, j)
      BY <1>3, <2>3 DEF Stale, Inner
    <3>2. \A v \in Workers : v # w => wpc'[v] = wpc[v] /\ (Active(v, j)' <=> Active(v, j))
      BY <2>3 DEF Active, Inner
    <3>3. Active(w, j)
      BY <1>3 DEF Active
    <3> QED  BY <1>1, <1>3, <2>0, <3>1, <3>2, <3>3 DEF JobOK, StaleOK, SameCall, SameFields
  <2> QED  BY <2>2, <2>4, <2>5, <2>6 DEF JobOK
<1> QED  BY <1>2, <1>3 DEF Inner

LEMMA JobTake ==
  ASSUME PoolInv, NEW w \in Workers, TakeJob(w), UNCHANGED requestVars,
         NEW j \in Jobs, JobOK(j)
  PROVE  JobOK(j)'
<1> USE DEF workerVars, queryVars, poolVars, jobVars
<1>1. SameCall(j) /\ SameFields(j)
  BY DEF TakeJob, requestVars, SameCall, SameFields, originVars, instrVars
<1>2. /\ wpc[w] = "idle" /\ wpc'[w] = "start" /\ wjob'[w] = Head(queue) /\ wjob[w] = NoJob
      /\ outcome' = outcome
      /\ \A v \in Workers : v # w => wpc'[v] = wpc[v] /\ wjob'[v] = wjob[v]
  BY DEF TakeJob, Goto, PoolInv, TypeInv, TypeOK, WorkerTypeOK, Assigned
<1>3. Queued(Head(queue)) /\ \A i : Queued(i)' => Queued(i) /\ i # Head(queue)
  BY QueueHead DEF TakeJob, PoolInv, TypeInv, TypeOK, OwnInv
<1>4. CASE j # Head(queue)
  <2>1. SameWork(j)
    BY <1>2, <1>3, <1>4, WorkerAssumption DEF SameWork
  <2> QED  BY <1>1, <2>1, JobFrame
<1>5. CASE j = Head(queue)
  <2>0. \A k : Phase(j, k)' = Phase(j, k) /\ Reporters(j, k)' = Reporters(j, k)
    BY <1>1, PhaseKept DEF SameCall
  <2>1. ~Spent(j) /\ client[j] = "watch"
    BY <1>3, <1>5 DEF Spent, PoolInv, OwnInv, Placed
  <2>2. CallOK(j)' /\ ReportsOK(j)' /\ EndOK(j)'
    BY <1>1, <2>0 DEF JobOK, CallOK, ReportsOK, EndOK, SameCall, SameFields
  <2>3. FirstOK(j)'
    BY <1>1, <1>2, <1>3, <1>5, <2>1 DEF JobOK, FirstOK, SameFields
  <2>4. RetryOK(j)'
    BY <1>1, <2>1 DEF JobOK, RetryOK, SameCall, SameFields
  <2>5. StaleOK(j)'
    <3>1. \A v \in Workers : Stale(v, j)' => Stale(v, j)
      BY <1>2 DEF Stale
    <3>2. \A v \in Workers : v # w => wpc'[v] = wpc[v] /\ (Active(v, j)' <=> Active(v, j))
      BY <1>2 DEF Active
    <3> QED  BY <1>1, <1>2, <2>0, <3>1, <3>2 DEF JobOK, StaleOK, SameCall, SameFields
  <2> QED  BY <2>2, <2>3, <2>4, <2>5 DEF JobOK
<1> QED  BY <1>4, <1>5

\* A worker goes on to the next phase when all peers have reported in this one.
LEMMA JobNextTask ==
  ASSUME PoolInv, RequestTypeOK, NEW w \in Workers, NextTask(w), UNCHANGED requestVars, CoverOK(w),
         NEW j \in Jobs, JobOK(j)
  PROVE  JobOK(j)'
<1> USE DEF workerVars, queryVars, poolVars, jobVars
<1>0. PICK k \in Jobs : k = wjob[w]
  BY DEF NextTask, PoolInv, TypeInv, TypeOK, WorkerTypeOK, Assigned
<1>1. /\ wpc[w] \in {"open", "feedback"} /\ wpc'[w] \in {"instruct", "closefb"}
      /\ outcome[w] = "nil" /\ UNCHANGED <<queue, wjob, outcome, originVars, feedback, lastErr>>
      /\ \A v \in Workers : v # w => wpc'[v] = wpc[v]
  BY DEF NextTask, Goto, PoolInv, OutcomeOK, TypeInv, TypeOK, WorkerTypeOK
<1>2. /\ \A i \in Jobs : i # k => progress'[i] = progress[i]
      /\ \/ progress'[k] = progress[k]
         \/ progress'[k] = progress[k] + 1 /\ wpc[w] = "feedback" /\ resps[w] = {}
      /\ progress \in [Jobs -> Nat] /\ ntasks \in [Jobs -> Nat]
  BY <1>0 DEF NextTask, PoolInv, TypeInv, TypeOK, JobTypeOK
<1>3. SameCall(j)
  BY DEF requestVars, SameCall
<1>4. CASE j # k
  <2>1. SameFields(j) /\ SameWork(j)
    BY <1>0, <1>1, <1>2, <1>4 DEF SameFields, SameWork, Queued, originVars, instrVars
  <2> QED  BY <1>3, <2>1, JobFrame
<1>5. CASE j = k
  <2>0. \A n : Phase(j, n)' = Phase(j, n) /\ Reporters(j, n)' = Reporters(j, n)
    BY <1>3, PhaseKept DEF SameCall
  <2>1. /\ client'[j] = client[j] /\ ctxDone'[j] = ctxDone[j] /\ parts'[j] = parts[j]
        /\ ntasks'[j] = ntasks[j] /\ round'[j] = round[j]
        /\ feedback'[j] = feedback[j] /\ lastErr'[j] = lastErr[j]
    BY <1>1 DEF originVars, instrVars
  <2>2. ~Spent(j) /\ Active(w, j) /\ (Queued(j)' <=> Queued(j))
    BY <1>0, <1>1, <1>5 DEF Spent, Active, Queued
  <2>3. CallOK(j)'
    <3>1. \A m \in msgBuf[j] : m.phase <= progress'[j] /\ ntasks[j] > 0
      <4>1. \A m \in msgBuf[j] : m.phase \in Nat /\ m.phase <= progress[j] /\ ntasks[j] > 0
        BY DEF RequestTypeOK, JobOK, CallOK
      <4> QED  BY <1>2, <1>5, <4>1
    <3> QED  BY <1>3, <2>1, <3>1 DEF JobOK, CallOK, SameCall
  <2>4. ReportsOK(j)'
    <3> SUFFICES ASSUME rpc[j] = "process", Phase(j, 0) # {}, NEW n \in 0..(progress'[j] - 1)
                 PROVE  parts[j] \subseteq Reporters(j, n)
      BY <1>3, <2>0, <2>1 DEF ReportsOK, SameCall
    <3>1. CASE n \in 0..(progress[j] - 1)
      BY <3>1 DEF JobOK, ReportsOK
    <3>2. CASE n = progress[j] /\ wpc[w] = "feedback" /\ resps[w] = {}
      <4>1. parts[j] \subseteq {r.peer : r \in resps[w]} \cup Reporters(j, progress[j])
        BY <1>0, <1>1, <1>5, <3>2 DEF CoverOK
      <4> QED  BY <3>2, <4>1
    <3> QED  BY <1>2, <1>5, <3>1, <3>2
  <2>5. FirstOK(j)'
    BY <1>1, <2>1, <2>2 DEF JobOK, FirstOK
  <2>6. RetryOK(j)'
    BY <1>2, <1>3, <1>5, <2>1, <2>2 DEF JobOK, RetryOK, SameCall
  <2>7. StaleOK(j)'
    <3>1. \A v \in Workers : Stale(v, j)' => Stale(v, j)
      BY <1>1 DEF Stale
    <3>2. Phase(j, 0) = {} /\ progress[j] > 0 => Phase(j, 0)' = {} /\ progress'[j] > 0
      BY <1>2, <1>5, <2>0
    <3>3. StaleOK(j) /\ wpc[w] \notin {"start", "halt", "closefb", "closechats"}
      BY <1>1 DEF JobOK
    <3> QED  BY <1>3, <2>1, <2>2, <3>1, <3>2, <3>3 DEF StaleOK, SameCall
  <2>8. EndOK(j)'
    BY <1>2, <1>3, <1>5, <2>0, <2>1 DEF JobOK, EndOK, SameCall
  <2> QED  BY <2>3, <2>4, <2>5, <2>6, <2>7, <2>8 DEF JobOK
<1> QED  BY <1>4, <1>5

LEMMA JobSetErr ==
  ASSUME PoolInv, NEW w \in Workers, SetErr(w), UNCHANGED requestVars, CoverOK(w),
         NEW j \in Jobs, JobOK(j)
  PROVE  JobOK(j)'
<1> USE DEF workerVars, queryVars, poolVars, jobVars
<1>0. PICK k \in Jobs : k = wjob[w]
  BY DEF SetErr, PoolInv, TypeInv, TypeOK, WorkerTypeOK, Assigned
<1>1. /\ wpc[w] = "halt" /\ wpc'[w] = "closefb" /\ outcome[w] # "nil"
      /\ UNCHANGED <<queue, wjob, outcome, originVars, progress, feedback>>
      /\ \A v \in Workers : v # w => wpc'[v] = wpc[v]
      /\ lastErr'[k] = outcome[w] /\ \A i \in Jobs : i # k => lastErr'[i] = lastErr[i]
  BY <1>0 DEF SetErr, Goto, CoverOK, PoolInv, TypeInv, TypeOK, WorkerTypeOK, JobTypeOK
<1>2. SameCall(j)
  BY DEF requestVars, SameCall
<1>3. CASE j # k
  <2>1. SameFields(j) /\ SameWork(j)
    BY <1>0, <1>1, <1>3 DEF SameFields, SameWork, Queued, originVars, instrVars
  <2> QED  BY <1>2, <2>1, JobFrame
<1>4. CASE j = k
  <2>0. \A n : Phase(j, n)' = Phase(j, n) /\ Reporters(j, n)' = Reporters(j, n)
    BY <1>2, PhaseKept DEF SameCall
  <2>1. /\ client'[j] = client[j] /\ ctxDone'[j] = ctxDone[j] /\ parts'[j] = parts[j]
        /\ ntasks'[j] = ntasks[j] /\ round'[j] = round[j]
        /\ feedback'[j] = feedback[j] /\ progress'[j] = progress[j]
    BY <1>1 DEF originVars, instrVars
  <2>2. ~Spent(j) /\ Active(w, j) /\ (Queued(j)' <=> Queued(j))
    BY <1>0, <1>1, <1>4 DEF Spent, Active, Queued
  <2>3. lastErr[j] # "Halted"
    BY <2>2 DEF PoolInv, OwnInv, Placed, Driven
  <2>4. CallOK(j)' /\ ReportsOK(j)'
    BY <1>2, <2>0, <2>1 DEF JobOK, CallOK, ReportsOK, SameCall
  <2>5. FirstOK(j)'
    BY <1>1, <2>1, <2>2 DEF JobOK, FirstOK
  <2>6. RetryOK(j)'
    BY <1>2, <2>1, <2>2 DEF JobOK, RetryOK, SameCall
  <2>7. StaleOK(j)'
    <3>1. CASE outcome[w] = "Halted"
      BY <1>1, <1>4, <3>1 DEF StaleOK
    <3>2. CASE outcome[w] # "Halted"
      <4>1. \A v \in Workers : Stale(v, j)' => Stale(v, j)
        BY <1>1, <3>2 DEF Stale
      <4>2. \A v \in Workers : v # w => wpc'[v] = wpc[v] /\ (Active(v, j)' <=> Active(v, j))
        BY <1>1 DEF Active
      <4>3. StaleOK(j)
        BY DEF JobOK
      <4> QED  BY <1>1, <1>2, <2>0, <2>1, <2>3, <4>1, <4>2, <4>3 DEF StaleOK, SameCall
    <3> QED  BY <3>1, <3>2
  <2>8. EndOK(j)'
    BY <1>1, <1>4 DEF EndOK
  <2> QED  BY <2>4, <2>5, <2>6, <2>7, <2>8 DEF JobOK
<1> QED  BY <1>3, <1>4

\* The worker that closes the channel has driven the job to its end, aborted it,
\* or halted it; the last may be long ago.
LEMMA JobCloseFeedback ==
  ASSUME PoolInv, NEW w \in Workers, CloseFeedback(w), UNCHANGED requestVars, CoverOK(w),
         NEW j \in Jobs, JobOK(j)
  PROVE  JobOK(j)'
<1> USE DEF workerVars, queryVars, poolVars, jobVars
<1>0. PICK k \in Jobs : k = wjob[w]
  BY DEF CloseFeedback, PoolInv, TypeInv, TypeOK, WorkerTypeOK, Assigned
<1>1. /\ wpc[w] = "closefb"
      /\ UNCHANGED <<queue, originVars, progress, lastErr>>
      /\ \/ outcome[w] = "Halted" /\ wjob'[w] = NoJob /\ wpc'[w] = "idle"
         \/ outcome[w] # "Halted" /\ wjob'[w] = k /\ outcome'[w] = outcome[w]
              /\ wpc'[w] = "closechats"
      /\ \A v \in Workers : v # w =>
           wpc'[v] = wpc[v] /\ wjob'[v] = wjob[v] /\ outcome'[v] = outcome[v]
      /\ feedback'[k] = "closed" /\ \A i \in Jobs : i # k => feedback'[i] = feedback[i]
  BY <1>0 DEF CloseFeedback, Goto, Release, PoolInv, TypeInv, TypeOK, WorkerTypeOK, JobTypeOK
<1>2. SameCall(j)
  BY DEF requestVars, SameCall
<1>3. CASE j # k
  <2>1. SameFields(j) /\ SameWork(j)
    BY <1>0, <1>1, <1>3, WorkerAssumption DEF SameFields, SameWork, Queued, originVars, instrVars
  <2> QED  BY <1>2, <2>1, JobFrame
<1>4. CASE j = k
  <2>0. \A n : Phase(j, n)' = Phase(j, n) /\ Reporters(j, n)' = Reporters(j, n)
    BY <1>2, PhaseKept DEF SameCall
  <2>1. /\ client'[j] = client[j] /\ ctxDone'[j] = ctxDone[j] /\ parts'[j] = parts[j]
        /\ ntasks'[j] = ntasks[j] /\ round'[j] = round[j]
        /\ lastErr'[j] = lastErr[j] /\ progress'[j] = progress[j]
    BY <1>1 DEF originVars, instrVars
  <2>2. ~Spent(j) /\ (Queued(j)' <=> Queued(j)) /\ wjob[w] = j
    BY <1>0, <1>1, <1>4 DEF Spent, Queued
  <2>3. CallOK(j)' /\ ReportsOK(j)'
    BY <1>2, <2>0, <2>1 DEF JobOK, CallOK, ReportsOK, SameCall
  <2>4. FirstOK(j)'
    <3>1. client[j] # "new" /\ \A v \in Workers : wjob'[v] = j => wjob[v] = j
      BY <1>1, <2>2, WorkerAssumption DEF JobOK, FirstOK
    <3>2. round[j] = 0 => Spent(j)'
      <4>1. ASSUME round[j] = 0, NEW v \in Workers, wjob'[v] = j PROVE wpc'[v] = "closechats"
        <5>1. v = w
          BY <2>2, <3>1, <4>1 DEF JobOK, FirstOK
        <5> QED  BY <1>1, <4>1, <5>1, WorkerAssumption
      <4>2. round[j] = 0 => ~Queued(j)
        BY <2>2 DEF JobOK, FirstOK
      <4> QED  BY <2>2, <4>1, <4>2 DEF Spent
    <3> QED  BY <2>1, <2>2, <3>1, <3>2 DEF JobOK, FirstOK
  <2>5. RetryOK(j)'
    BY <1>2, <2>1, <2>2 DEF JobOK, RetryOK, SameCall
  <2>6. StaleOK(j)'
    <3>1. \A v \in Workers : Stale(v, j)' => Stale(v, j)
      BY <1>1 DEF Stale
    <3>2. \A v \in Workers : v # w => wpc'[v] = wpc[v] /\ (Active(v, j)' <=> Active(v, j))
      BY <1>1 DEF Active
    <3>3. wpc'[w] = "closechats" \/ ~Active(w, j)'
      BY <1>1, WorkerAssumption DEF Active
    <3>4. StaleOK(j)
      BY DEF JobOK
    <3> QED  BY <1>2, <2>0, <2>1, <3>1, <3>2, <3>3, <3>4 DEF StaleOK, SameCall
  <2>7. EndOK(j)'
    <3> SUFFICES ASSUME rpc[j] = "process", lastErr[j] = "nil", Phase(j, 0) # {}
                 PROVE  ntasks[j] <= progress[j]
      BY <1>2, <2>0, <2>1 DEF EndOK, SameCall
    <3>1. outcome[w] \in {"nil", "Halted", "Aborted"}
      BY DEF PoolInv, TypeInv, TypeOK, WorkerTypeOK, Status
    <3>2. CASE outcome[w] = "Halted"
      <4>1. Stale(w, j)
        BY <1>1, <2>2, <3>2 DEF Stale
      <4> QED  BY <4>1 DEF JobOK, StaleOK
    <3>3. CASE outcome[w] # "Halted"
      BY <1>1, <2>2, <3>1, <3>3 DEF CoverOK
    <3> QED  BY <3>2, <3>3
  <2> QED  BY <2>3, <2>4, <2>5, <2>6, <2>7 DEF JobOK
<1> QED  BY <1>3, <1>4

LEMMA JobEnd ==
  ASSUME PoolInv, NEW w \in Workers, EndJob(w), UNCHANGED requestVars,
         NEW j \in Jobs, JobOK(j)
  PROVE  JobOK(j)'
<1> USE DEF workerVars, queryVars, poolVars, jobVars
<1>1. /\ wpc[w] = "closechats" /\ wjob'[w] = NoJob /\ wpc'[w] = "idle"
      /\ UNCHANGED <<queue, originVars, progress, feedback, lastErr>>
      /\ \A v \in Workers : v # w =>
           wpc'[v] = wpc[v] /\ wjob'[v] = wjob[v] /\ outcome'[v] = outcome[v]
  BY DEF EndJob, Goto, Release, PoolInv, TypeInv, TypeOK, WorkerTypeOK
<1>2. SameCall(j) /\ SameFields(j)
  BY <1>1 DEF requestVars, SameCall, SameFields, originVars, instrVars
<1>3. \A n : Phase(j, n)' = Phase(j, n) /\ Reporters(j, n)' = Reporters(j, n)
  BY <1>2, PhaseKept DEF SameCall
<1>4. /\ \A v \in Workers : wjob'[v] = j => v # w /\ wjob[v] = j /\ wpc'[v] = wpc[v]
      /\ Queued(j)' <=> Queued(j)
  BY <1>1, WorkerAssumption DEF Queued
<1>5. Spent(j) => Spent(j)'
  BY <1>4 DEF Spent
<1>6. CallOK(j)' /\ ReportsOK(j)' /\ EndOK(j)'
  BY <1>2, <1>3 DEF JobOK, CallOK, ReportsOK, EndOK, SameCall, SameFields
<1>7. FirstOK(j)'
  BY <1>2, <1>4, <1>5 DEF JobOK, FirstOK, SameFields
<1>8. RetryOK(j)'
  BY <1>2, <1>5 DEF JobOK, RetryOK, SameCall, SameFields
<1>9. StaleOK(j)'
  <2>1. \A v \in Workers : Stale(v, j)' => Stale(v, j)
    BY <1>1, <1>4 DEF Stale
  <2>2. \A v \in Workers : Active(v, j)' => Active(v, j) /\ wpc'[v] = wpc[v]
    BY <1>1, <1>4 DEF Active
  <2> QED  BY <1>2, <1>3, <2>1, <2>2 DEF JobOK, StaleOK, SameCall, SameFields
<1> QED  BY <1>6, <1>7, <1>8, <1>9 DEF JobOK

LEMMA JobWork ==
  ASSUME PoolInv, RequestTypeOK, NEW w \in Workers, Work(w), CoverOK(w), NEW j \in Jobs, JobOK(j)
  PROVE  JobOK(j)'
BY InnerStep, JobInner, JobTake, JobNextTask, JobSetErr, JobCloseFeedback, JobEnd
DEF Work, PoolInv

-----------------------------------------------------------------------------
(* The workers' steps and the participants *)

\* A step of worker w changes the chats of its job only, and only while it drives it.
LEMMA WorkElsewhere ==
  ASSUME TypeInv, NEW w \in Workers, ProcessJob(w)
  PROVE  /\ \A v \in Workers : v # w =>
              /\ wpc'[v] = wpc[v] /\ wjob'[v] = wjob[v] /\ todo'[v] = todo[v]
              /\ cur'[v] = cur[v] /\ errPeers'[v] = errPeers[v] /\ resps'[v] = resps[v]
              /\ outcome'[v] = outcome[v]
         /\ \A j \in Jobs : ~Active(w, j) =>
              chats'[j] = chats[j] /\ progress'[j] = progress[j] /\ lastErr'[j] = lastErr[j]
<1> DEFINE OthersLeft == \A v \in Workers : v # w =>
              /\ wpc'[v] = wpc[v] /\ wjob'[v] = wjob[v] /\ todo'[v] = todo[v]
              /\ cur'[v] = cur[v] /\ errPeers'[v] = errPeers[v] /\ resps'[v] = resps[v]
              /\ outcome'[v] = outcome[v]
           JobsLeft == \A j \in Jobs : ~Active(w, j) =>
              chats'[j] = chats[j] /\ progress'[j] = progress[j] /\ lastErr'[j] = lastErr[j]
<1>0. WorkerTypeOK /\ JobTypeOK /\ (wpc[w] # "idle" => wjob[w] \in Jobs)
  BY DEF TypeInv, TypeOK, WorkerTypeOK, Assigned
<1> USE DEF Goto, workerVars, queryVars, poolVars, jobVars
<1>1. TakeJob(w) \/ JobExpired(w) \/ StartJob(w) => OthersLeft /\ JobsLeft
  BY <1>0 DEF TakeJob, JobExpired, StartJob, WorkerTypeOK
<1>2. RequestTimeout(w) \/ OpenFails(w) \/ InstructDone(w) => OthersLeft /\ JobsLeft
  BY <1>0 DEF RequestTimeout, OpenFails, InstructDone, WorkerTypeOK
<1>3. FeedbackDone(w) \/ Panic(w) => OthersLeft /\ JobsLeft
  BY <1>0 DEF FeedbackDone, Panic, WorkerTypeOK
<1>4. ASSUME NEW p \in Peers, ReuseChat(w, p) \/ RequestBlocks(w, p) PROVE OthersLeft /\ JobsLeft
  BY <1>0, <1>4 DEF ReuseChat, RequestBlocks, WorkerTypeOK
<1>5. ASSUME NEW p \in Peers, Instruct(w, p) \/ InstructTimeout(w, p) \/ PullWaits(w, p)
      PROVE  OthersLeft /\ JobsLeft
  BY <1>0, <1>5 DEF Instruct, InstructTimeout, PullWaits, WorkerTypeOK
<1>6. NextTask(w) => OthersLeft /\ JobsLeft
  BY <1>0 DEF NextTask, WorkerTypeOK, JobTypeOK, Active
<1>7. SetErr(w) => OthersLeft /\ JobsLeft
  BY <1>0 DEF SetErr, WorkerTypeOK, JobTypeOK, Active
<1>8. CloseFeedback(w) => OthersLeft /\ JobsLeft
  BY <1>0 DEF CloseFeedback, Release, WorkerTypeOK
<1>9. ASSUME NEW p \in Peers, RequestChat(w, p) PROVE OthersLeft /\ JobsLeft
  BY <1>0, <1>9 DEF RequestChat, WorkerTypeOK, JobTypeOK, Active
<1>10. ASSUME \/ \E p \in Peers : PullResult(w, p) \/ PullFails(w, p)
              \/ QueryDone(w) \/ EndJob(w)
       PROVE  OthersLeft /\ JobsLeft
  <2>1. Active(w, wjob[w]) /\ \A j \in Jobs : j # wjob[w] => chats'[j] = chats[j]
    BY <1>10, RevokeStep
  <2>2. UNCHANGED progress /\ UNCHANGED lastErr
    BY <1>10 DEF PullResult, PullFails, QueryDone, EndJob
  <2>3. \A p \in Peers : PullResult(w, p) => OthersLeft
    BY <1>0 DEF PullResult, WorkerTypeOK
  <2>4. \A p \in Peers : PullFails(w, p) => OthersLeft
    BY <1>0 DEF PullFails, WorkerTypeOK
  <2>5. QueryDone(w) \/ EndJob(w) => OthersLeft
    BY <1>0 DEF QueryDone, EndJob, Release, WorkerTypeOK
  <2> QED  BY <1>10, <2>1, <2>2, <2>3, <2>4, <2>5
<1> HIDE DEF OthersLeft, JobsLeft
<1> QED
  BY <1>1, <1>2, <1>3, <1>4, <1>5, <1>6, <1>7, <1>8, <1>9, <1>10
  DEF ProcessJob, OthersLeft, JobsLeft

\* Where the worker stands after a step, nothing is asked of it.
LEMMA CoverNothing ==
  ASSUME NEW w \in Workers, wpc'[w] \in {"idle", "start"}
  PROVE  CoverOK(w)'
BY DEF CoverOK

\* Before the query: the participants are visited one by one.
LEMMA CoverOpening ==
  ASSUME PoolInv, NEW w \in Workers, CoverOK(w), UNCHANGED requestVars,
         \/ StartJob(w) \/ RequestTimeout(w) \/ JobExpired(w) \/ OpenFails(w)
         \/ \E p \in Peers : ReuseChat(w, p) \/ RequestBlocks(w, p) \/ RequestChat(w, p)
  PROVE  CoverOK(w)'
<1> USE DEF Goto, workerVars, queryVars, poolVars, jobVars, originVars, instrVars
<1>0. WorkerTypeOK /\ JobTypeOK
  BY DEF PoolInv, TypeInv, TypeOK
<1>1. PICK j \in Jobs : j = wjob[w]
  BY DEF PoolInv, TypeInv, TypeOK, WorkerTypeOK, Assigned, StartJob, RequestTimeout, JobExpired,
         OpenFails, ReuseChat, RequestBlocks, RequestChat
<1>2. CASE JobExpired(w) \/ OpenFails(w)
  <2>1. wpc'[w] = "halt" /\ outcome'[w] # "nil"
    BY <1>0, <1>2 DEF JobExpired, OpenFails, WorkerTypeOK
  <2> QED  BY <2>1 DEF CoverOK
<1>3. SUFFICES ASSUME ~JobExpired(w), ~OpenFails(w)
               PROVE  /\ wpc'[w] \in {"open", "request"} /\ wjob'[w] = j
                      /\ parts'[j] \subseteq todo'[w] \cup cur'[w] \cup chats'[j] \cup errPeers'[w]
  BY <1>2 DEF CoverOK
<1>4. CASE StartJob(w)
  BY <1>0, <1>1, <1>4 DEF StartJob, WorkerTypeOK
<1>5. ASSUME ~StartJob(w)
      PROVE  parts[j] \subseteq todo[w] \cup cur[w] \cup chats[j] \cup errPeers[w]
  <2>1. wpc[w] \in {"open", "request"}
    BY <1>3, <1>5 DEF RequestTimeout, ReuseChat, RequestBlocks, RequestChat
  <2> QED  BY <1>1, <2>1 DEF CoverOK
<1>6. wpc[w] = "open" => cur[w] = {}
  BY DEF PoolInv, ChatInv, LocalOK
<1>7. ASSUME RequestTimeout(w), ~StartJob(w)
      PROVE  /\ wpc'[w] \in {"open", "request"} /\ wjob'[w] = j
             /\ parts'[j] \subseteq todo'[w] \cup cur'[w] \cup chats'[j] \cup errPeers'[w]
  BY <1>0, <1>1, <1>5, <1>7 DEF RequestTimeout, WorkerTypeOK
<1>8. ASSUME NEW p \in Peers, ReuseChat(w, p), ~StartJob(w)
      PROVE  /\ wpc'[w] \in {"open", "request"} /\ wjob'[w] = j
             /\ parts'[j] \subseteq todo'[w] \cup cur'[w] \cup chats'[j] \cup errPeers'[w]
  BY <1>0, <1>1, <1>5, <1>8 DEF ReuseChat, WorkerTypeOK
<1>9. ASSUME NEW p \in Peers, RequestBlocks(w, p), ~StartJob(w)
      PROVE  /\ wpc'[w] \in {"open", "request"} /\ wjob'[w] = j
             /\ parts'[j] \subseteq todo'[w] \cup cur'[w] \cup chats'[j] \cup errPeers'[w]
  BY <1>0, <1>1, <1>5, <1>6, <1>9 DEF RequestBlocks, WorkerTypeOK
<1>10. ASSUME NEW p \in Peers, RequestChat(w, p), ~StartJob(w)
       PROVE  /\ wpc'[w] \in {"open", "request"} /\ wjob'[w] = j
              /\ parts'[j] \subseteq todo'[w] \cup cur'[w] \cup chats'[j] \cup errPeers'[w]
  <2>1. cur[w] \subseteq {p}
    BY <1>6, <1>10 DEF RequestChat, PoolInv, ChatInv, LocalOK
  <2>2. /\ wpc'[w] = "open" /\ wjob' = wjob /\ parts' = parts /\ errPeers' = errPeers
        /\ chats'[j] = chats[j] \cup {p} /\ todo'[w] = todo[w] \ {p} /\ cur'[w] = {}
    BY <1>0, <1>1, <1>10 DEF RequestChat, WorkerTypeOK, JobTypeOK
  <2> QED  BY <1>1, <1>5, <1>10, <2>1, <2>2
<1> QED  BY <1>3, <1>4, <1>7, <1>8, <1>9, <1>10

\* The query: a peer that was visited failed, or its result is there.
LEMMA CoverQuery ==
  ASSUME PoolInv, NEW w \in Workers, CoverOK(w), UNCHANGED requestVars,
         \/ InstructDone(w)
         \/ \E p \in Peers : \/ Instruct(w, p) \/ InstructTimeout(w, p) \/ PullWaits(w, p)
                             \/ PullResult(w, p) \/ PullFails(w, p)
  PROVE  CoverOK(w)'
<1> USE DEF Goto, workerVars, queryVars, poolVars, jobVars, originVars, instrVars
<1>0. WorkerTypeOK /\ JobTypeOK
  BY DEF PoolInv, TypeInv, TypeOK
<1>1. PICK j \in Jobs : j = wjob[w]
  BY DEF PoolInv, TypeInv, TypeOK, WorkerTypeOK, Assigned, InstructDone, Instruct,
         InstructTimeout, PullWaits, PullResult, PullFails
<1>a. wpc[w] = "instruct" => parts[j] \subseteq chats[j]
  BY <1>1 DEF CoverOK
<1>b. wpc[w] \in {"pull", "wait"} =>
        /\ parts[j] \subseteq todo[w] \cup cur[w] \cup errPeers[w] \cup {r.peer : r \in resps[w]}
        /\ parts[j] \subseteq chats[j] \cup errPeers[w]
  BY <1>1 DEF CoverOK
<1>c. wpc[w] = "pull" => cur[w] = {}
  BY DEF PoolInv, ChatInv, LocalOK
<1>d. wjob'[w] = j /\ progress'[j] < ntasks'[j]
  <2>1. wpc[w] \in {"instruct", "pull", "wait"} /\ UNCHANGED <<wjob, progress, ntasks>>
    BY DEF InstructDone, Instruct, InstructTimeout, PullWaits, PullResult, PullFails
  <2> QED  BY <1>1, <2>1 DEF CoverOK
<1>2. CASE InstructDone(w)
  <2>1. /\ wpc[w] = "instruct" /\ wpc'[w] = "pull" /\ wjob'[w] = j /\ parts' = parts
        /\ todo'[w] = chats[j] /\ chats' = chats
    BY <1>0, <1>1, <1>2 DEF InstructDone, WorkerTypeOK
  <2> QED  BY <1>a, <1>d, <2>1 DEF CoverOK
<1>3. ASSUME NEW p \in Peers, Instruct(w, p) \/ InstructTimeout(w, p) PROVE CoverOK(w)'
  <2>1. wpc[w] = "instruct" /\ wpc'[w] = "instruct" /\ wjob'[w] = j /\ UNCHANGED <<parts, chats>>
    BY <1>1, <1>3 DEF Instruct, InstructTimeout
  <2> QED  BY <1>a, <1>d, <2>1 DEF CoverOK
<1>4. SUFFICES ASSUME NEW p \in Peers, PullWaits(w, p) \/ PullResult(w, p) \/ PullFails(w, p)
               PROVE  /\ wpc'[w] \in {"pull", "wait"} /\ wjob'[w] = j
                      /\ parts'[j] \subseteq todo'[w] \cup cur'[w] \cup errPeers'[w]
                                               \cup {r.peer : r \in resps'[w]}
                      /\ parts'[j] \subseteq chats'[j] \cup errPeers'[w]
  BY <1>2, <1>3, <1>d DEF CoverOK
<1>5. CASE PullWaits(w, p)
  BY <1>0, <1>1, <1>b, <1>c, <1>5 DEF PullWaits, WorkerTypeOK
<1>7. CASE PullFails(w, p)
  <2>1. /\ wpc[w] \in {"pull", "wait"} /\ wpc'[w] = "pull" /\ wjob'[w] = j /\ parts' = parts
        /\ errPeers'[w] = errPeers[w] \cup {p} /\ todo'[w] = todo[w] \ {p} /\ cur'[w] = {}
        /\ resps' = resps
    BY <1>0, <1>1, <1>7 DEF PullFails, WorkerTypeOK
  <2>2. chats'[j] = chats[j] \ {p}
    BY <1>0, <1>1, <1>7 DEF PullFails, RevokePeerChats, JobTypeOK
  <2>3. cur[w] \subseteq {p}
    BY <1>c, <1>7 DEF PullFails, PoolInv, ChatInv, LocalOK
  <2> QED  BY <1>b, <2>1, <2>2, <2>3
<1>8. CASE PullResult(w, p)
  <2>1. /\ wpc[w] \in {"pull", "wait"} /\ wpc'[w] = "pull" /\ wjob'[w] = j /\ parts' = parts
        /\ todo'[w] = todo[w] \ {p} /\ cur'[w] = {}
    BY <1>0, <1>1, <1>8 DEF PullResult, WorkerTypeOK
  <2>2. cur[w] \subseteq {p}
    BY <1>c, <1>8 DEF PullResult, PoolInv, ChatInv, LocalOK
  <2>3. PICK r \in from[j][p] :
          LET errFlag == r.status \cap ALL_ERROR_CLASSES
              res     == [peer |-> p, val |-> r.val] IN
            /\ errPeers' = IF errFlag = {} THEN errPeers
                             ELSE [errPeers EXCEPT ![w] = @ \cup {p}]
            /\ resps' = IF errFlag = {} THEN [resps EXCEPT ![w] = @ \cup {res}] ELSE resps
            /\ RevokePeerChats(j, IF errFlag \cap ERR_CLASS_COMM = {} THEN {} ELSE {p})
    BY <1>1, <1>8 DEF PullResult
  <2>4. CASE r.status \cap ALL_ERROR_CLASSES = {}
    <3>1. /\ errPeers' = errPeers
          /\ resps'[w] = resps[w] \cup {[peer |-> p, val |-> r.val]}
      BY <1>0, <2>3, <2>4 DEF WorkerTypeOK
    <3>2. chats'[j] = chats[j]
      BY <1>0, <2>3, <2>4 DEF RevokePeerChats, JobTypeOK
    <3>3. /\ {q.peer : q \in resps[w]} \subseteq {q.peer : q \in resps'[w]}
          /\ p \in {q.peer : q \in resps'[w]}
      BY <3>1
    <3> QED  BY <1>b, <2>1, <2>2, <3>1, <3>2, <3>3
  <2>5. CASE r.status \cap ALL_ERROR_CLASSES # {}
    <3>1. errPeers'[w] = errPeers[w] \cup {p} /\ resps' = resps
      BY <1>0, <2>3, <2>5 DEF WorkerTypeOK
    <3>2. chats[j] \subseteq chats'[j] \cup {p}
      BY <1>0, <2>3 DEF RevokePeerChats, JobTypeOK
    <3> QED  BY <1>b, <2>1, <2>2, <3>1, <3>2
  <2> QED  BY <2>4, <2>5
<1> QED  BY <1>4, <1>5, <1>7, <1>8

\* After the query: either a participant failed, or all results are there.
LEMMA CoverAfter ==
  ASSUME PoolInv, NEW w \in Workers, CoverOK(w), UNCHANGED requestVars,
         NextTask(w) \/ QueryDone(w) \/ FeedbackDone(w) \/ SetErr(w) \/ Panic(w)
  PROVE  CoverOK(w)'
<1> USE DEF Goto, workerVars, queryVars, poolVars, jobVars, originVars, instrVars
<1>0. WorkerTypeOK /\ JobTypeOK
  BY DEF PoolInv, TypeInv, TypeOK
<1>1. PICK j \in Jobs : j = wjob[w]
  BY DEF PoolInv, TypeInv, TypeOK, WorkerTypeOK, Assigned, NextTask, QueryDone, FeedbackDone,
         SetErr, Panic
<1>2. CASE NextTask(w)
  <2>1. /\ wjob'[w] = j /\ outcome' = outcome /\ UNCHANGED <<parts, ntasks, chats>>
        /\ \/ wpc'[w] = "instruct" /\ progress'[j] < ntasks[j]
           \/ wpc'[w] = "closefb" /\ ~ progress'[j] < ntasks[j]
        /\ \/ wpc[w] = "open" /\ todo[w] = {} /\ errPeers[w] = {}
           \/ wpc[w] = "feedback" /\ outcome[w] = "nil"
    BY <1>0, <1>1, <1>2 DEF NextTask, TaskRemains, WorkerTypeOK
  <2>2. outcome[w] = "nil"
    BY <2>1 DEF PoolInv, OutcomeOK
  <2>3. parts[j] \subseteq chats[j]
    <3>1. CASE wpc[w] = "open"
      <4>1. cur[w] = {} /\ todo[w] = {} /\ errPeers[w] = {}
        BY <2>1, <3>1 DEF PoolInv, ChatInv, LocalOK
      <4> QED  BY <1>1, <3>1, <4>1 DEF CoverOK
    <3>2. CASE wpc[w] = "feedback"
      BY <1>1, <2>2, <3>2 DEF CoverOK
    <3> QED  BY <2>1, <3>1, <3>2
  <2>4. progress'[j] \in Nat /\ ntasks[j] \in Nat
    BY <1>0, <1>1, <1>2 DEF NextTask, JobTypeOK
  <2> QED  BY <2>1, <2>2, <2>3, <2>4 DEF CoverOK
<1>3. CASE QueryDone(w)
  <2>1. /\ wpc[w] = "pull" /\ todo[w] = {} /\ cur[w] = {}
        /\ wpc'[w] = "feedback" /\ wjob'[w] = j
        /\ UNCHANGED <<parts, ntasks, resps, progress>>
    BY <1>0, <1>1, <1>3 DEF QueryDone, WorkerTypeOK, PoolInv, ChatInv, LocalOK
  <2>2. ASSUME outcome'[w] = "nil"
        PROVE  parts[j] \subseteq {r.peer : r \in resps[w]} /\ parts[j] \subseteq chats'[j]
    <3>1. errPeers[w] = {} /\ acc[w] \subseteq flags[j]
      BY <1>0, <1>1, <1>3, <2>2 DEF QueryDone, WorkerTypeOK
    <3>2. chats'[j] = chats[j]
      BY <1>0, <1>1, <1>3, <3>1 DEF QueryDone, RevokePeerChats, JobTypeOK
    <3> QED  BY <1>1, <2>1, <3>1, <3>2 DEF CoverOK
  <2> QED  BY <1>1, <2>1, <2>2 DEF CoverOK
<1>4. CASE FeedbackDone(w)
  <2>1. wpc'[w] = "halt" /\ outcome'[w] # "nil"
    BY <1>0, <1>4 DEF FeedbackDone, WorkerTypeOK
  <2> QED  BY <2>1 DEF CoverOK
<1>5. CASE SetErr(w)
  <2>1. /\ wpc[w] = "halt" /\ wpc'[w] = "closefb" /\ wjob'[w] = j /\ outcome'[w] = outcome[w]
        /\ lastErr'[j] = outcome[w]
    BY <1>0, <1>1, <1>5 DEF SetErr, WorkerTypeOK, JobTypeOK
  <2>2. outcome[w] # "nil"
    BY <2>1 DEF CoverOK
  <2> QED  BY <2>1, <2>2 DEF CoverOK
<1>6. CASE Panic(w)
  BY <1>6, CoverFrame DEF Panic, requestVars
<1> QED  BY <1>2, <1>3, <1>4, <1>5, <1>6

LEMMA CoverEnd ==
  ASSUME PoolInv, NEW w \in Workers, CoverOK(w), TakeJob(w) \/ CloseFeedback(w) \/ EndJob(w)
  PROVE  CoverOK(w)'
<1> USE DEF Goto, workerVars, queryVars, poolVars, jobVars, originVars, instrVars
<1>0. WorkerTypeOK /\ JobTypeOK
  BY DEF PoolInv, TypeInv, TypeOK
<1>1. CASE TakeJob(w) \/ EndJob(w)
  BY <1>0, <1>1, CoverNothing DEF TakeJob, EndJob, Release, WorkerTypeOK
<1>2. CASE CloseFeedback(w) /\ outcome[w] = "Halted"
  BY <1>0, <1>2, CoverNothing DEF CloseFeedback, Release, WorkerTypeOK
<1>3. CASE CloseFeedback(w) /\ outcome[w] # "Halted"
  <2>1. /\ wpc[w] = "closefb" /\ wpc'[w] = "closechats" /\ wjob' = wjob /\ outcome' = outcome
        /\ UNCHANGED <<ntasks, progress, lastErr>>
    BY <1>0, <1>3 DEF CloseFeedback, WorkerTypeOK
  <2> QED  BY <2>1 DEF CoverOK
<1> QED  BY <1>1, <1>2, <1>3

LEMMA CoverWork ==
  ASSUME PoolInv, NEW w \in Workers, Work(w), \A v \in Workers : CoverOK(v),
         NEW v \in Workers
  PROVE  CoverOK(v)'
<1>1. CASE v = w
  BY <1>1, CoverOpening, CoverQuery, CoverAfter, CoverEnd DEF Work, ProcessJob
<1>2. CASE v # w
  <2>1. /\ wpc'[v] = wpc[v] /\ wjob'[v] = wjob[v] /\ todo'[v] = todo[v] /\ cur'[v] = cur[v]
        /\ errPeers'[v] = errPeers[v] /\ resps'[v] = resps[v] /\ outcome'[v] = outcome[v]
    BY <1>2, WorkElsewhere DEF Work, PoolInv
  <2>2. ASSUME wpc[v] # "idle", Active(v, wjob[v])
        PROVE  LET j == wjob[v] IN
                 /\ parts'[j] = parts[j] /\ ntasks'[j] = ntasks[j] /\ chats'[j] = chats[j]
                 /\ progress'[j] = progress[j] /\ lastErr'[j] = lastErr[j]
                 /\ rpc'[j] = "process" => rpc[j] = "process" /\ msgBuf'[j] = msgBuf[j]
    <3>1. PICK j \in Jobs : j = wjob[v]
      BY <2>2 DEF PoolInv, TypeInv, TypeOK, WorkerTypeOK, Assigned
    <3>2. ~Active(w, j)
      BY <1>2, <2>2, <3>1 DEF PoolInv, OwnInv, ExclusiveJob
    <3>3. chats'[j] = chats[j] /\ progress'[j] = progress[j] /\ lastErr'[j] = lastErr[j]
      BY <3>2, WorkElsewhere DEF Work, PoolInv
    <3>4. UNCHANGED <<parts, ntasks, rpc, msgBuf>>
      BY OriginKept DEF Work, originVars, instrVars, requestVars
    <3> QED  BY <3>1, <3>3, <3>4
  <2>3. CoverOK(v)
    OBVIOUS
  <2> QED  BY <2>1, <2>2, <2>3, CoverFrame
<1> QED  BY <1>1, <1>2

-----------------------------------------------------------------------------
(* The requests' steps *)

\* What the originator of job j does leaves the other jobs alone.
LEMMA OriginElsewhere ==
  ASSUME TypeInv, NEW j \in Jobs, Originator(j), NEW i \in Jobs, i # j
  PROVE  SameFields(i) /\ chats'[i] = chats[i] /\ (Queued(i)' => Queued(i))
<1> USE DEF workerVars, queryVars, poolVars, jobVars, originVars, instrVars
<1> DEFINE Left == SameFields(i) /\ chats'[i] = chats[i] /\ (Queued(i)' => Queued(i))
<1>0. JobTypeOK
  BY DEF TypeInv, TypeOK
<1>1. UNCHANGED queue => (Queued(i)' => Queued(i))
  BY DEF Queued
<1>2. queue' = Append(queue, j) => (Queued(i)' => Queued(i))
  BY QueuedAppend
<1>3. CASE SubmitTimeout(j) \/ Expire(j)
  BY <1>0, <1>1, <1>3 DEF SubmitTimeout, Expire, SameFields, JobTypeOK
<1>4. CASE Enqueue(j) \/ EnqueueTimeout(j)
  BY <1>0, <1>1, <1>2, <1>4 DEF Enqueue, EnqueueTimeout, SameFields, JobTypeOK
<1>5. CASE Abort(j)
  BY <1>0, <1>1, <1>5 DEF Abort, CloseAllChats, RevokePeerChats, SameFields, JobTypeOK
<1>6. ASSUME NEW S, NEW f, NEW n, NEW fl, SubmitJob(j, S, f, n, fl) PROVE Left
  BY <1>0, <1>2, <1>6 DEF SubmitJob, SameFields, JobTypeOK
<1>7. ASSUME NEW S, NEW f, NEW n, NEW fl, NEW done, Recycle(j, S, f, n, fl, done) PROVE Left
  BY <1>0, <1>1, <1>7 DEF Recycle, RevokePeerChats, SameFields, JobTypeOK
<1>8. ASSUME NEW S, NEW f, NEW T, RecycleRefused(j, S, f, T) PROVE Left
  BY <1>0, <1>1, <1>8 DEF RecycleRefused, SameFields
<1>9. ASSUME NEW S, NEW f, Instruction(j, S, f) PROVE Left
  BY <1>6, <1>7, <1>8, <1>9 DEF Instruction
<1> QED  BY <1>3, <1>4, <1>5, <1>9 DEF Originator

\* The request for job j leaves the calls for other jobs alone.
LEMMA CallElsewhere ==
  ASSUME RequestTypeOK, NEW j \in Jobs, CallRequest(j) \/ Request(j) \/ Deadline(j),
         NEW i \in Jobs, i # j
  PROVE  SameCall(i)
<1> USE DEF Reach, Fail, ProcessFails, SameCall, RequestTypeOK, requestVars
<1>1. CASE CallRequest(j) \/ Deadline(j)
  BY <1>1 DEF CallRequest, Deadline
<1>2. CASE SubmitFails(j) \/ StreamEnds(j) \/ ProcessTimeout(j)
  BY <1>2 DEF SubmitFails, StreamEnds, ProcessTimeout
<1>3. CASE Receive(j)
  BY <1>3 DEF Receive, ReceiveResult
<1>4. CASE ResubmitFails(j) \/ NothingChanged(j) \/ Reschedule(j) \/ GiveUp(j)
  BY <1>4 DEF ResubmitFails, NothingChanged, Reschedule, GiveUp
<1>5. ASSUME NEW S, NEW f, NEW n, Submit(j, S, f, n) PROVE SameCall(i)
  BY <1>5 DEF Submit
<1>6. ASSUME NEW S, NEW f, Resubmit(j, S, f) PROVE SameCall(i)
  BY <1>6 DEF Resubmit
<1> QED  BY <1>1, <1>2, <1>3, <1>4, <1>5, <1>6 DEF Request

\* A step of the request for job j leaves the other jobs and the workers alone,
\* but for the results it takes.
Apart(j) ==
  /\ UNCHANGED <<wpc, wjob, todo, cur, errPeers, outcome, progress>>
  /\ \A w \in Workers : wjob[w] # j => resps'[w] = resps[w]
  /\ Receive(j) \/ UNCHANGED resps
  /\ \A i \in Jobs : i # j =>
       SameCall(i) /\ SameFields(i) /\ chats'[i] = chats[i] /\ (Queued(i)' => Queued(i))

LEMMA RequestElsewhere ==
  ASSUME CountsOK, RequestTypeOK, TypeInv,
         NEW j \in Jobs, CallRequest(j) \/ Request(j) \/ Deadline(j)
  PROVE  Apart(j)
<1> USE DEF workerVars, queryVars, poolVars, jobVars, originVars, instrVars
<1>1. CASE UNCHANGED vars
  BY <1>1, CallElsewhere DEF Apart, vars, SameFields, Queued
<1>2. CASE Originator(j)
  BY <1>2, CallElsewhere, OriginElsewhere, OriginStep DEF Apart
<1>3. CASE Receive(j)
  BY <1>3, CallElsewhere
  DEF Apart, Receive, ReceiveResult, SendFeedback, SameFields, Queued, TypeInv, TypeOK,
      WorkerTypeOK
<1>4. UNCHANGED vars \/ Originator(j) \/ Receive(j)
  <2>1. CASE Receive(j)
    BY <2>1
  <2>2. CASE ~Receive(j)
    BY <2>2, RequestUsesPool
  <2> QED  BY <2>1, <2>2
<1> QED  BY <1>1, <1>2, <1>3, <1>4

-----------------------------------------------------------------------------
(* The requests' steps and the job of the call *)

\* The step leaves alone what the call has gathered and the job's first attempt.
CallStill(j) ==
  /\ msgBuf'[j] = msgBuf[j] /\ progress'[j] = progress[j] /\ ntasks'[j] = ntasks[j]
  /\ round'[j] = round[j] /\ feedback'[j] = feedback[j]
  /\ UNCHANGED <<wpc, wjob, outcome>>
  /\ Queued(j)' => Queued(j)

\* The call ends, or is about to; or its job is not submitted yet.
LEMMA JobQuits ==
  ASSUME NEW j \in Jobs, JobOK(j), CallStill(j), rpc'[j] \in {"submit", "abort", "done"},
         rpc'[j] = "submit" => rpc[j] = "ready",
         result'[j] # {} => rpc'[j] = "done",
         client'[j] \in {client[j], "refused", "watch"}
  PROVE  JobOK(j)'
<1>1. CallOK(j)'
  BY DEF JobOK, CallOK, CallStill
<1>2. Spent(j) => Spent(j)'
  BY DEF Spent, CallStill
<1>3. FirstOK(j)'
  BY <1>2 DEF JobOK, FirstOK, CallStill
<1>4. ReportsOK(j)' /\ RetryOK(j)' /\ StaleOK(j)' /\ EndOK(j)'
  BY DEF ReportsOK, RetryOK, StaleOK, EndOK
<1> QED  BY <1>1, <1>3, <1>4 DEF JobOK

\* Process fails the first time.
LEMMA JobRetries ==
  ASSUME NEW j \in Jobs, JobOK(j), CallStill(j), rpc[j] = "process", rpc'[j] = "resubmit",
         result'[j] = result[j], client'[j] = client[j], ctxDone'[j] = ctxDone[j],
         parts'[j] = parts[j], progress[j] > 0 \/ ctxDone[j] \/ Spent(j)
  PROVE  JobOK(j)'
<1>1. CallOK(j)'
  BY DEF JobOK, CallOK, CallStill
<1>2. Spent(j) => Spent(j)'
  BY DEF Spent, CallStill
<1>3. FirstOK(j)'
  BY <1>2 DEF JobOK, FirstOK, CallStill
<1>4. RetryOK(j)'
  BY <1>2 DEF RetryOK, CallStill
<1>5. ReportsOK(j)' /\ StaleOK(j)' /\ EndOK(j)'
  BY DEF ReportsOK, StaleOK, EndOK
<1> QED  BY <1>1, <1>3, <1>4, <1>5 DEF JobOK

\* Process fails because of the context, the channel, or an earlier phase.
LEMMA JobFails ==
  ASSUME RequestTypeOK, NEW j \in Jobs, JobOK(j), CallStill(j), rpc[j] = "process", ProcessFails(j),
         UNCHANGED originVars, progress[j] > 0 \/ ctxDone[j] \/ feedback[j] = "closed"
  PROVE  JobOK(j)'
<1>1. /\ rpc'[j] = IF round[j] = 0 THEN "resubmit" ELSE "abort"
      /\ result' = result
  BY DEF ProcessFails, Fail, Reach, RequestTypeOK
<1>2. client' = client /\ ctxDone' = ctxDone /\ parts' = parts
  BY DEF originVars, instrVars
<1>3. CASE round[j] = 0
  <2>1. progress[j] > 0 \/ ctxDone[j] \/ Spent(j)
    BY <1>3 DEF JobOK, FirstOK
  <2> QED  BY <1>1, <1>2, <1>3, <2>1, JobRetries
<1>4. CASE round[j] # 0
  <2>1. result[j] = {}
    BY DEF JobOK, CallOK
  <2> QED  BY <1>1, <1>2, <1>4, <2>1, JobQuits
<1> QED  BY <1>3, <1>4

LEMMA JobSubmits ==
  ASSUME TypeInv, RequestTypeOK, NEW j \in Jobs, JobOK(j), NEW S \in (SUBSET Peers) \ {{}},
         NEW f, NEW n, Submit(j, S, f, n)
  PROVE  JobOK(j)'
<1>1. /\ rpc[j] = "submit" /\ rpc'[j] = "process" /\ msgBuf' = msgBuf /\ result' = result
      /\ client[j] = "new" /\ client'[j] = "watch" /\ parts'[j] = S
      /\ UNCHANGED <<wpc, wjob, round, feedback>>
  BY DEF Submit, SubmitJob, Reach, RequestTypeOK, TypeInv, TypeOK, JobTypeOK, workerVars
<1>2. /\ round[j] = 0 /\ feedback[j] = "open" /\ (\A w \in Workers : wjob[w] # j)
      /\ msgBuf[j] = {} /\ result[j] = {}
  BY <1>1 DEF JobOK, FirstOK, CallOK
<1>3. Phase(j, 0)' = {}
  BY <1>1, <1>2 DEF Phase
<1>4. CallOK(j)'
  <2>1. S # {}
    OBVIOUS
  <2>2. msgBuf'[j] = {} /\ result'[j] = {}
    BY <1>1, <1>2
  <2> QED  BY <1>1, <2>1, <2>2 DEF CallOK
<1>5. FirstOK(j)'
  BY <1>1, <1>2 DEF FirstOK
<1>6. StaleOK(j)'
  BY <1>1, <1>2 DEF StaleOK, Stale
<1>7. ReportsOK(j)' /\ RetryOK(j)' /\ EndOK(j)'
  BY <1>1, <1>3 DEF ReportsOK, RetryOK, EndOK
<1> QED  BY <1>4, <1>5, <1>6, <1>7 DEF JobOK

\* The worker that halted the job may not have closed its channel; in the second
\* attempt that channel is another one.
LEMMA JobRecycles ==
  ASSUME TypeInv, OwnInv, RequestTypeOK, NEW j \in Jobs, JobOK(j), rpc[j] = "resubmit",
         NEW S \in (SUBSET Peers) \ {{}}, NEW f,
         Recycle(j, S, f, ntasks[j], ResubmitFlags, ctxDone[j]),
         Reach(j, "enqueue"), msgBuf' = [msgBuf EXCEPT ![j] = {}], UNCHANGED result
  PROVE  JobOK(j)'
<1>1. /\ rpc'[j] = "enqueue" /\ msgBuf'[j] = {} /\ result' = result
      /\ client'[j] = "enqueue" /\ parts'[j] = S /\ round[j] = 0 /\ round'[j] = 1
      /\ feedback'[j] = "open" /\ lastErr[j] = "Halted" /\ ctxDone'[j] = ctxDone[j]
      /\ UNCHANGED <<wpc, wjob, outcome, progress>>
  BY DEF Recycle, isJobHalted, Reach, RequestTypeOK, TypeInv, TypeOK, JobTypeOK, workerVars
<1>2. \A w \in Workers : ~Active(w, j)'
  BY <1>1 DEF OwnInv, Placed, Driven, Active
<1>3. Phase(j, 0)' = {}
  BY <1>1 DEF Phase
<1>4. CallOK(j)'
  <2>1. S # {}
    OBVIOUS
  <2>2. result[j] = {}
    BY DEF JobOK, CallOK
  <2> QED  BY <1>1, <2>1, <2>2 DEF CallOK
<1>5. FirstOK(j)'
  BY <1>1 DEF FirstOK
<1>6. StaleOK(j)'
  <2> SUFFICES ASSUME NEW w \in Workers, Stale(w, j)'
               PROVE  progress[j] > 0 \/ ctxDone[j]
    BY <1>1, <1>2, <1>3 DEF StaleOK
  <2>1. ~Spent(j)
    BY <1>1 DEF Spent, Stale
  <2> QED  BY <2>1 DEF JobOK, RetryOK
<1>7. ReportsOK(j)' /\ RetryOK(j)' /\ EndOK(j)'
  BY <1>1, <1>3 DEF ReportsOK, RetryOK, EndOK
<1> QED  BY <1>4, <1>5, <1>6, <1>7 DEF JobOK

LEMMA JobEnqueues ==
  ASSUME TypeInv, RequestTypeOK, NEW j \in Jobs, JobOK(j), rpc[j] = "enqueue", Enqueue(j),
         Reach(j, "process"), UNCHANGED <<msgBuf, result, err>>
  PROVE  JobOK(j)'
<1>1. /\ rpc'[j] = "process" /\ msgBuf' = msgBuf /\ result' = result
      /\ client[j] = "enqueue" /\ client'[j] = "watch"
      /\ UNCHANGED <<wpc, wjob, outcome, progress, parts, ntasks, round, feedback, lastErr,
                     ctxDone>>
  BY DEF Enqueue, Reach, RequestTypeOK, TypeInv, TypeOK, JobTypeOK, workerVars, instrVars
<1>2. msgBuf[j] = {} /\ round[j] # 0
  BY <1>1 DEF JobOK, CallOK, FirstOK, TypeInv, TypeOK, JobTypeOK
<1>3. Phase(j, 0)' = {}
  BY <1>1, <1>2 DEF Phase
<1>4. CallOK(j)'
  BY <1>1 DEF JobOK, CallOK
<1>5. FirstOK(j)'
  BY <1>1, <1>2 DEF FirstOK
<1>6. StaleOK(j)'
  <2>1. \A w \in Workers : (Stale(w, j)' <=> Stale(w, j)) /\ (Active(w, j)' <=> Active(w, j))
    BY <1>1 DEF Stale, Active
  <2> QED  BY <1>1, <1>3, <2>1 DEF JobOK, StaleOK
<1>7. ReportsOK(j)' /\ RetryOK(j)' /\ EndOK(j)'
  BY <1>1, <1>3 DEF ReportsOK, RetryOK, EndOK
<1> QED  BY <1>4, <1>5, <1>6, <1>7 DEF JobOK

LEMMA JobExpires ==
  ASSUME TypeInv, NEW j \in Jobs, JobOK(j), Deadline(j)
  PROVE  JobOK(j)'
<1>1. /\ SameCall(j) /\ ctxDone'[j] = TRUE
      /\ UNCHANGED <<queue, wpc, wjob, outcome, client, parts, ntasks, round, progress, feedback,
                     lastErr>>
  BY DEF Deadline, Expire, requestVars, SameCall, TypeInv, TypeOK, JobTypeOK, poolVars,
         workerVars, instrVars
<1>2. \A k : Phase(j, k)' = Phase(j, k) /\ Reporters(j, k)' = Reporters(j, k)
  BY <1>1, PhaseKept DEF SameCall
<1>3. CallOK(j)' /\ ReportsOK(j)' /\ EndOK(j)'
  BY <1>1, <1>2 DEF JobOK, CallOK, ReportsOK, EndOK, SameCall
<1>4. FirstOK(j)'
  BY <1>1 DEF JobOK, FirstOK, Spent, Queued
<1>5. RetryOK(j)'
  BY <1>1 DEF RetryOK
<1>6. StaleOK(j)'
  <2>1. \A w \in Workers : (Stale(w, j)' <=> Stale(w, j)) /\ (Active(w, j)' <=> Active(w, j))
    BY <1>1 DEF Stale, Active
  <2> QED  BY <1>1, <1>2, <2>1 DEF JobOK, StaleOK, SameCall
<1> QED  BY <1>3, <1>4, <1>5, <1>6 DEF JobOK

\* A result comes from the worker that drives the job, in the phase it is in.
LEMMA JobReceives ==
  ASSUME TypeInv, RequestTypeOK, NEW j \in Jobs, JobOK(j),
         NEW w \in Workers, NEW r \in resps[w], ReceiveResult(j, w, r), CoverOK(w)
  PROVE  JobOK(j)'
<1>1. /\ rpc[j] = "process" /\ wpc[w] = "feedback" /\ wjob[w] = j /\ feedback[j] = "open"
      /\ UNCHANGED <<queue, wpc, wjob, outcome, originVars, progress, feedback, lastErr>>
  BY DEF ReceiveResult, SendFeedback, poolVars, jobVars
<1>2. progress[j] \in Nat /\ progress[j] < ntasks[j] /\ ntasks[j] \in Nat
  BY <1>1 DEF CoverOK, TypeInv, TypeOK, JobTypeOK
<1>3. \A m \in msgBuf[j] : m.phase \in Nat /\ m.phase <= progress[j]
  BY DEF RequestTypeOK, JobOK, CallOK
<1>4. CASE ProcessFails(j) /\ ~ (Phase(j, progress[j]) # {} \/
               \A k \in {m.phase : m \in msgBuf[j]} \ {progress[j]} : Consistent(j, k))
  <2>1. progress[j] > 0
    BY <1>2, <1>3, <1>4
  <2>2. CallStill(j)
    BY <1>1, <1>4 DEF CallStill, ProcessFails, Fail, originVars, instrVars, Queued
  <2> QED  BY <1>1, <1>4, <2>1, <2>2, JobFails
<1>5. CASE /\ msgBuf' = [msgBuf EXCEPT ![j] = @ \cup
                {[phase |-> progress[j], peer |-> r.peer, val |-> r.val]}]
           /\ UNCHANGED <<rpc, result, err>>
  <2>1. msgBuf'[j] = msgBuf[j] \cup {[phase |-> progress[j], peer |-> r.peer, val |-> r.val]}
    BY <1>5 DEF RequestTypeOK
  <2>2. /\ \A k : Reporters(j, k) \subseteq Reporters(j, k)'
        /\ progress[j] # 0 => Phase(j, 0)' = Phase(j, 0)
    BY <2>1 DEF Reporters, Phase
  <2>3. CallOK(j)'
    BY <1>1, <1>2, <1>5, <2>1 DEF JobOK, CallOK, originVars, instrVars
  <2>4. ReportsOK(j)'
    <3> SUFFICES ASSUME Phase(j, 0)' # {}, NEW k \in 0..(progress[j] - 1)
                 PROVE  parts[j] \subseteq Reporters(j, k)'
      BY <1>1 DEF ReportsOK, originVars, instrVars
    <3>1. Phase(j, 0) # {}
      BY <1>2, <2>2
    <3> QED  BY <1>1, <2>2, <3>1 DEF JobOK, ReportsOK
  <2>5. FirstOK(j)'
    BY <1>1 DEF JobOK, FirstOK, Spent, Queued, originVars, instrVars
  <2>6. StaleOK(j)'
    <3>1. \A v \in Workers : Stale(v, j)' <=> Stale(v, j)
      BY <1>1 DEF Stale
    <3>2. Active(w, j)
      BY <1>1 DEF Active
    <3> QED  BY <1>1, <2>2, <3>1, <3>2 DEF JobOK, StaleOK
  <2>7. RetryOK(j)' /\ EndOK(j)'
    BY <1>1, <1>5 DEF RetryOK, EndOK
  <2> QED  BY <2>3, <2>4, <2>5, <2>6, <2>7 DEF JobOK
<1> QED  BY <1>4, <1>5 DEF ReceiveResult

-----------------------------------------------------------------------------
(* The requests' steps together *)

LEMMA JobResubmits ==
  ASSUME TypeInv, OwnInv, RequestTypeOK, NEW j \in Jobs, JobOK(j),
         rpc[j] = "resubmit",
         NEW S \in (SUBSET Peers) \ {{}}, NEW f, Resubmit(j, S, f)
  PROVE  JobOK(j)'
<1>1. CASE Recycle(j, S, f, ntasks[j], ResubmitFlags, ctxDone[j]) /\ Reach(j, "enqueue")
             /\ msgBuf' = [msgBuf EXCEPT ![j] = {}] /\ UNCHANGED <<result, err>>
  BY <1>1, JobRecycles
<1>2. CASE Fail(j, "done") /\ (UNCHANGED vars \/ \E T \in SUBSET S : RecycleRefused(j, S, f, T))
  <2>1. /\ rpc'[j] = "done" /\ msgBuf' = msgBuf
        /\ UNCHANGED <<queue, progress, ntasks, round, feedback, client, wpc, wjob, outcome>>
    BY <1>2 DEF Fail, Reach, RequestTypeOK, RecycleRefused, vars, poolVars, workerVars, jobVars,
                originVars, instrVars
  <2>2. CallStill(j)
    BY <2>1 DEF CallStill, Queued
  <2> QED  BY <2>1, <2>2, JobQuits
<1> QED  BY <1>1, <1>2 DEF Resubmit

LEMMA JobEnds ==
  ASSUME RequestTypeOK, NEW j \in Jobs, JobOK(j), StreamEnds(j)
  PROVE  JobOK(j)'
<1>1. /\ rpc[j] = "process" /\ feedback[j] = "closed"
      /\ UNCHANGED <<queue, progress, ntasks, round, feedback, client, wpc, wjob, outcome,
                     originVars>>
  BY DEF StreamEnds, vars, poolVars, workerVars, jobVars, originVars, instrVars
<1>2. CASE Complete(j)
  <2>1. rpc'[j] = "done" /\ msgBuf' = msgBuf
    BY <1>2 DEF StreamEnds, Reach, RequestTypeOK
  <2>2. CallStill(j)
    BY <1>1, <2>1 DEF CallStill, Queued
  <2> QED  BY <1>1, <2>1, <2>2, JobQuits
<1>3. CASE ~Complete(j)
  <2>1. ProcessFails(j) /\ CallStill(j)
    BY <1>1, <1>3 DEF StreamEnds, ProcessFails, Fail, CallStill, Queued
  <2> QED  BY <1>1, <2>1, JobFails
<1> QED  BY <1>2, <1>3

\* The steps after which the call has ended or is about to.
LEMMA JobStops ==
  ASSUME TypeInv, RequestTypeOK, NEW j \in Jobs, JobOK(j),
         \/ CallRequest(j) \/ SubmitFails(j) \/ ResubmitFails(j) \/ NothingChanged(j) \/ GiveUp(j)
         \/ rpc[j] = "enqueue" /\ EnqueueTimeout(j) /\ Fail(j, "done")
  PROVE  JobOK(j)'
<1> USE DEF poolVars, workerVars, jobVars, originVars, instrVars
<1>1. /\ rpc'[j] \in {"submit", "abort", "done"}
      /\ rpc'[j] = "submit" => rpc[j] = "ready"
      /\ rpc[j] # "done"
      /\ msgBuf' = msgBuf /\ result' = result
  BY DEF CallRequest, SubmitFails, ResubmitFails, NothingChanged, GiveUp, Fail, Reach, RequestTypeOK
<1>2. result'[j] = {}
  BY <1>1 DEF JobOK, CallOK
<1>3. UNCHANGED <<queue, progress, ntasks, round, feedback, wpc, wjob, outcome>>
  BY DEF CallRequest, SubmitFails, SubmitTimeout, ResubmitFails, NothingChanged, GiveUp, Abort,
         EnqueueTimeout, vars
<1>4. client'[j] \in {client[j], "refused", "watch"}
  BY DEF CallRequest, SubmitFails, SubmitTimeout, ResubmitFails, NothingChanged, GiveUp, Abort,
         EnqueueTimeout, vars, TypeInv, TypeOK, JobTypeOK
<1>5. CallStill(j)
  BY <1>1, <1>3 DEF CallStill, Queued
<1> QED  BY <1>1, <1>2, <1>4, <1>5, JobQuits

LEMMA JobRequest ==
  ASSUME PoolInv, RequestTypeOK, NEW j \in Jobs, JobOK(j), \A w \in Workers : CoverOK(w),
         CallRequest(j) \/ Request(j) \/ Deadline(j)
  PROVE  JobOK(j)'
<1>0. TypeInv /\ OwnInv
  BY DEF PoolInv
<1>1. CASE Receive(j)
  BY <1>0, <1>1, JobReceives DEF Receive, ReceiveResult
<1>2. CASE ProcessTimeout(j)
  <2>1. /\ rpc[j] = "process" /\ ctxDone[j] /\ ProcessFails(j)
        /\ UNCHANGED <<queue, progress, ntasks, round, feedback, client, wpc, wjob, outcome,
                       originVars>>
    BY <1>2 DEF ProcessTimeout, vars, poolVars, workerVars, jobVars, originVars, instrVars
  <2>2. CallStill(j)
    BY <2>1 DEF CallStill, Queued, ProcessFails, Fail
  <2> QED  BY <2>1, <2>2, JobFails
<1>3. CASE Reschedule(j)
  BY <1>0, <1>3, JobEnqueues, JobStops DEF Reschedule
<1>4. ASSUME rpc[j] \in {"submit", "resubmit"},
             NEW S \in (SUBSET Peers) \ {{}}, NEW f \in Numberings(S),
             Resubmit(j, S, f) \/ \E n \in TaskCounts : Submit(j, S, f, n)
      PROVE  JobOK(j)'
  <2>1. CASE Resubmit(j, S, f)
    BY <1>0, <2>1, JobResubmits DEF Resubmit
  <2>2. CASE \E n \in TaskCounts : Submit(j, S, f, n)
    BY <1>0, <2>2, JobSubmits
  <2> QED  BY <1>4, <2>1, <2>2
<1> QED  BY <1>0, <1>1, <1>2, <1>3, <1>4, JobStops, JobEnds, JobExpires DEF Request

\* The job of a worker that drives it is left to the worker.
Holds(j) ==
  /\ parts'[j] = parts[j] /\ ntasks'[j] = ntasks[j] /\ chats'[j] = chats[j]
  /\ progress'[j] = progress[j] /\ lastErr'[j] = lastErr[j]
  /\ rpc'[j] = "process" => rpc[j] = "process" /\ msgBuf'[j] = msgBuf[j]

LEMMA RequestHolds ==
  ASSUME OwnInv, RequestTypeOK, NEW j \in Jobs, Driven(j), ~Receive(j),
         CallRequest(j) \/ Request(j) \/ Deadline(j)
  PROVE  Holds(j)
<1> USE DEF jobVars, originVars, instrVars, isJobHalted
<1>1. client[j] = "watch" /\ lastErr[j] # "Halted"
  BY DEF OwnInv, Placed
<1>2. CASE \/ CallRequest(j) \/ ResubmitFails(j) \/ NothingChanged(j) \/ GiveUp(j)
  BY <1>1, <1>2 DEF CallRequest, ResubmitFails, NothingChanged, GiveUp, Abort, Fail, Reach, vars,
                    Holds, RequestTypeOK
<1>3. CASE StreamEnds(j) \/ ProcessTimeout(j)
  BY <1>3 DEF StreamEnds, ProcessTimeout, ProcessFails, Fail, Reach, vars, Holds, RequestTypeOK
<1>4. CASE Deadline(j)
  BY <1>4 DEF Deadline, Expire, requestVars, Holds
<1>5. ~SubmitFails(j) /\ ~Reschedule(j)
  BY <1>1 DEF SubmitFails, SubmitTimeout, Reschedule, Enqueue, EnqueueTimeout
<1>6. ASSUME NEW S, NEW f, Resubmit(j, S, f) PROVE Holds(j)
  BY <1>1, <1>6 DEF Resubmit, Recycle, RecycleRefused, Fail, Reach, vars, Holds, RequestTypeOK
<1>7. \A S, f, n : ~Submit(j, S, f, n)
  BY <1>1 DEF Submit, SubmitJob
<1> QED  BY <1>2, <1>3, <1>4, <1>5, <1>6, <1>7 DEF Request

\* The result that leaves the worker is in the buffer.
LEMMA CoverReceives ==
  ASSUME TypeInv, RequestTypeOK, NEW j \in Jobs, NEW w \in Workers, NEW r \in resps[w],
         ReceiveResult(j, w, r), CoverOK(w)
  PROVE  CoverOK(w)'
<1>1. /\ rpc[j] = "process" /\ wpc[w] = "feedback" /\ wjob[w] = j
      /\ UNCHANGED <<wpc, wjob, outcome, jobVars>>
      /\ resps'[w] = resps[w] \ {r}
  BY DEF ReceiveResult, SendFeedback, TypeInv, TypeOK, WorkerTypeOK
<1>2. UNCHANGED <<parts, chats, ntasks, progress>>
  BY <1>1 DEF jobVars, originVars, instrVars
<1>3. /\ progress[j] < ntasks[j]
      /\ outcome[w] = "nil" =>
           /\ parts[j] \subseteq chats[j]
           /\ parts[j] \subseteq {q.peer : q \in resps[w]} \cup Reporters(j, progress[j])
  BY <1>1 DEF CoverOK
<1>4. ASSUME rpc'[j] = "process"
      PROVE  {q.peer : q \in resps[w]} \cup Reporters(j, progress[j])
               \subseteq {q.peer : q \in resps'[w]} \cup Reporters(j, progress[j])'
  <2>1. msgBuf'[j] = msgBuf[j] \cup {[phase |-> progress[j], peer |-> r.peer, val |-> r.val]}
    BY <1>4 DEF ReceiveResult, ProcessFails, Fail, Reach, RequestTypeOK
  <2>2. r.peer \in Reporters(j, progress[j])'
    BY <1>2, <2>1 DEF Reporters, Phase
  <2>3. Reporters(j, progress[j]) \subseteq Reporters(j, progress[j])'
    BY <1>2, <2>1 DEF Reporters, Phase
  <2> QED  BY <1>1, <2>2, <2>3
<1> QED  BY <1>1, <1>2, <1>3, <1>4 DEF CoverOK

LEMMA CoverRequest ==
  ASSUME PoolInv, RequestTypeOK, NEW j \in Jobs, Apart(j), \A w \in Workers : CoverOK(w),
         CallRequest(j) \/ Request(j) \/ Deadline(j), NEW v \in Workers
  PROVE  CoverOK(v)'
<1>0. TypeInv /\ OwnInv
  BY DEF PoolInv
<1>1. ASSUME resps'[v] = resps[v], Active(v, j) => Holds(j) PROVE CoverOK(v)'
  <2>1. /\ wpc'[v] = wpc[v] /\ wjob'[v] = wjob[v] /\ todo'[v] = todo[v] /\ cur'[v] = cur[v]
        /\ errPeers'[v] = errPeers[v] /\ resps'[v] = resps[v] /\ outcome'[v] = outcome[v]
    BY <1>1 DEF Apart
  <2>2. ASSUME wpc[v] # "idle", Active(v, wjob[v]) PROVE Holds(wjob[v])
    <3>1. PICK i \in Jobs : i = wjob[v]
      BY <1>0, <2>2 DEF TypeInv, TypeOK, WorkerTypeOK, Assigned
    <3>2. CASE i = j
      BY <1>1, <2>2, <3>1, <3>2
    <3>3. CASE i # j
      <4>1. SameCall(i) /\ SameFields(i) /\ chats'[i] = chats[i]
        BY <3>3 DEF Apart
      <4>2. UNCHANGED progress
        BY DEF Apart
      <4> QED  BY <3>1, <4>1, <4>2 DEF SameCall, SameFields, Holds
    <3> QED  BY <3>2, <3>3
  <2>3. CoverOK(v)
    OBVIOUS
  <2> QED  BY <2>1, <2>2, <2>3, CoverFrame DEF Holds
<1>2. CASE ~Receive(j)
  BY <1>0, <1>1, <1>2, RequestHolds DEF Apart, Driven, queryVars
<1>3. ASSUME NEW w \in Workers, NEW r \in resps[w], ReceiveResult(j, w, r) PROVE CoverOK(v)'
  <2>1. CASE v = w
    BY <1>0, <1>3, <2>1, CoverReceives
  <2>2. CASE v # w
    <3>1. Active(w, j) /\ resps'[v] = resps[v]
      BY <1>3, <2>2 DEF ReceiveResult, SendFeedback, Active
    <3>2. ~Active(v, j)
      BY <1>0, <2>2, <3>1 DEF OwnInv, ExclusiveJob
    <3> QED  BY <1>1, <3>1, <3>2
  <2> QED  BY <2>1, <2>2
<1> QED  BY <1>2, <1>3 DEF Receive

-----------------------------------------------------------------------------
(* What a call returns *)

\* A returned result stays with the instruction that led to it.
LEMMA ResultKept ==
  ASSUME RequestInv, [OrchNext]_allVars, NEW j \in Jobs, result'[j] # {}, ~StreamEnds(j)
  PROVE  /\ result'[j] = result[j] /\ msgBuf'[j] = msgBuf[j]
         /\ parts'[j] = parts[j] /\ ntasks'[j] = ntasks[j]
<1> DEFINE Kept == /\ result'[j] = result[j] /\ msgBuf'[j] = msgBuf[j]
                   /\ parts'[j] = parts[j] /\ ntasks'[j] = ntasks[j]
<1>0. TypeInv /\ RequestTypeOK /\ CountsOK /\ CallOK(j)
  BY DEF RequestInv, PoolInv, JobOK
<1>1. CASE UNCHANGED <<poolVars, workerVars, jobVars, requestVars>>
  BY <1>1 DEF jobVars, originVars, instrVars, requestVars
<1>2. ASSUME NEW w \in Workers, Work(w) PROVE Kept
  BY <1>2, OriginKept DEF Work, originVars, instrVars, requestVars
<1>3. ASSUME CallRequest(j) \/ Request(j) \/ Deadline(j) PROVE Kept
  <2>1. CASE Deadline(j)
    BY <2>1 DEF Deadline, Expire, requestVars, instrVars
  <2>2. CASE CallRequest(j) \/ Request(j)
    <3>1. rpc[j] # "done"
      BY <2>2 DEF CallRequest, Request, SubmitFails, Receive, ReceiveResult, StreamEnds,
                  ProcessTimeout, ResubmitFails, NothingChanged, Reschedule, GiveUp
    <3>2. result[j] = {}
      BY <1>0, <3>1 DEF CallOK
    <3>3. result' = result
      <4>1. CASE CallRequest(j) \/ SubmitFails(j) \/ ProcessTimeout(j) \/ ResubmitFails(j)
                   \/ NothingChanged(j) \/ Reschedule(j) \/ GiveUp(j)
        BY <4>1 DEF CallRequest, SubmitFails, ProcessTimeout, ProcessFails, ResubmitFails,
                    NothingChanged, Reschedule, GiveUp, Fail
      <4>2. CASE Receive(j)
        BY <4>2 DEF Receive, ReceiveResult, ProcessFails, Fail
      <4>3. ASSUME NEW S, NEW f, Resubmit(j, S, f) \/ \E n \in TaskCounts : Submit(j, S, f, n)
            PROVE  result' = result
        BY <4>3 DEF Resubmit, Submit, Fail
      <4> QED  BY <2>2, <4>1, <4>2, <4>3 DEF Request
    <3> QED  BY <3>2, <3>3
  <2> QED  BY <1>3, <2>1, <2>2
<1>4. ASSUME NEW i \in Jobs, i # j, CallRequest(i) \/ Request(i) \/ Deadline(i) PROVE Kept
  BY <1>0, <1>4, RequestElsewhere DEF Apart, SameCall, SameFields
<1> QED  BY <1>1, <1>2, <1>3, <1>4, OrchCases

\* All participants have reported when the stream ends well.
LEMMA AllReported ==
  ASSUME RequestInv, NEW j \in Jobs, rpc[j] = "process", feedback[j] = "closed", Complete(j),
         NEW k \in 0..(ntasks[j] - 1)
  PROVE  parts[j] \subseteq Reporters(j, k)
<1>1. lastErr[j] = "nil" /\ Phase(j, 0) # {}
  BY DEF Complete
<1>2. ntasks[j] <= progress[j] /\ ntasks[j] \in Nat /\ progress[j] \in Nat
  BY <1>1 DEF RequestInv, JobOK, EndOK, PoolInv, TypeInv, TypeOK, JobTypeOK
<1>3. k \in 0..(progress[j] - 1)
  BY <1>2
<1> QED  BY <1>1, <1>3 DEF RequestInv, JobOK, ReportsOK

LEMMA SoundStep ==
  ASSUME RequestInv, [OrchNext]_allVars
  PROVE  ResultSound'
<1> SUFFICES ASSUME NEW j \in Jobs, result'[j] # {}
             PROVE  /\ \A k \in 0..(ntasks'[j] - 1) : parts'[j] \subseteq Reporters(j, k)'
                    /\ \A m \in Phase(j, ntasks[j] - 1)' : result'[j] = m.val
  BY DEF ResultSound, Reporters
<1>1. CASE ~StreamEnds(j)
  <2>1. /\ result'[j] = result[j] /\ msgBuf'[j] = msgBuf[j]
        /\ parts'[j] = parts[j] /\ ntasks'[j] = ntasks[j]
    BY <1>1, ResultKept
  <2>2. /\ \A k : Reporters(j, k)' = Reporters(j, k)
        /\ Phase(j, ntasks[j] - 1)' = Phase(j, ntasks[j] - 1)
    BY <2>1 DEF Reporters, Phase
  <2> QED  BY <2>1, <2>2 DEF RequestInv, ResultSound, Reporters
<1>2. CASE StreamEnds(j)
  <2>0. result[j] = {}
    BY <1>2 DEF StreamEnds, RequestInv, JobOK, CallOK
  <2>1. Complete(j) /\ rpc[j] = "process" /\ feedback[j] = "closed"
    BY <1>2, <2>0 DEF StreamEnds, ProcessFails, Fail
  <2>2. /\ msgBuf' = msgBuf /\ parts' = parts /\ ntasks' = ntasks
        /\ \E m \in Phase(j, ntasks[j] - 1) : result'[j] = m.val
    BY <1>2, <2>1
    DEF StreamEnds, vars, jobVars, originVars, instrVars, RequestInv, RequestTypeOK
  <2>3. /\ \A k : Reporters(j, k)' = Reporters(j, k)
        /\ Phase(j, ntasks[j] - 1)' = Phase(j, ntasks[j] - 1)
    BY <2>2 DEF Reporters, Phase
  <2>4. \A m \in Phase(j, ntasks[j] - 1) : result'[j] = m.val
    BY <2>1, <2>2 DEF Complete, Consistent
  <2> QED  BY <2>1, <2>2, <2>3, <2>4, AllReported
<1> QED  BY <1>1, <1>2

-----------------------------------------------------------------------------
(* The invariant holds *)

LEMMA RequestTypeStep ==
  ASSUME TypeInv, RequestTypeOK, [OrchNext]_allVars
  PROVE  RequestTypeOK'
<1> USE DEF Reach, Fail, ProcessFails, RequestTypeOK, requestVars
<1>1. CASE UNCHANGED requestVars
  BY <1>1
<1>2. ASSUME NEW j \in Jobs, Receive(j) PROVE RequestTypeOK'
  <2>0. PICK w \in Workers : \E r \in resps[w] : ReceiveResult(j, w, r)
    BY <1>2 DEF Receive
  <2>1. PICK r \in resps[w] : ReceiveResult(j, w, r)
    BY <2>0
  <2>2. CASE ProcessFails(j)
    BY <2>2
  <2>3. CASE /\ msgBuf' = [msgBuf EXCEPT ![j] = @ \cup
                  {[phase |-> progress[j], peer |-> r.peer, val |-> r.val]}]
             /\ UNCHANGED <<rpc, result, err>>
    <3>1. progress[j] \in Nat /\ r \in PeerResult
      BY DEF TypeInv, TypeOK, JobTypeOK, WorkerTypeOK
    <3>2. [phase |-> progress[j], peer |-> r.peer, val |-> r.val]
            \in [phase : Nat, peer : Peers, val : SUBSET Vals]
      BY <3>1 DEF PeerResult
    <3> QED  BY <2>3, <3>2
  <2> QED  BY <2>1, <2>2, <2>3 DEF ReceiveResult
<1>3. ASSUME NEW j \in Jobs, StreamEnds(j) PROVE RequestTypeOK'
  <2>1. CASE Complete(j)
    <3>1. PICK m \in Phase(j, ntasks[j] - 1) : result' = [result EXCEPT ![j] = m.val]
      BY <1>3, <2>1 DEF StreamEnds
    <3>2. m.val \in SUBSET Vals
      BY DEF Phase
    <3> QED  BY <1>3, <2>1, <3>1, <3>2 DEF StreamEnds
  <2>2. CASE ~Complete(j)
    BY <1>3, <2>2 DEF StreamEnds
  <2> QED  BY <2>1, <2>2
<1>4. ASSUME NEW j \in Jobs,
             \/ CallRequest(j) \/ Deadline(j) \/ SubmitFails(j) \/ ProcessTimeout(j)
             \/ ResubmitFails(j) \/ NothingChanged(j) \/ Reschedule(j) \/ GiveUp(j)
      PROVE  RequestTypeOK'
  BY <1>4 DEF CallRequest, Deadline, SubmitFails, ProcessTimeout, ResubmitFails, NothingChanged,
              Reschedule, GiveUp
<1>5. ASSUME NEW j \in Jobs, NEW S, NEW f,
             Resubmit(j, S, f) \/ \E n \in TaskCounts : Submit(j, S, f, n)
      PROVE  RequestTypeOK'
  BY <1>5 DEF Resubmit, Submit
<1> QED  BY <1>1, <1>2, <1>3, <1>4, <1>5, OrchCases DEF Request, Work

LEMMA PoolInvStep ==
  ASSUME PoolInv, [Next]_vars
  PROVE  PoolInv'
BY NextType, NextOwn, NextChat, NextOutcome DEF PoolInv

LEMMA InitRequest == OrchInit => RequestInv
<1> SUFFICES ASSUME OrchInit PROVE RequestInv
  OBVIOUS
<1>1. PoolInv
  BY InitType, InitOwn, InitChat, InitOutcome DEF OrchInit, PoolInv
<1>2. CountsOK /\ RequestTypeOK /\ ResultSound
  BY DEF OrchInit, Init, CountsOK, RequestTypeOK, ResultSound
<1>3. ASSUME NEW j \in Jobs PROVE JobOK(j)
  <2>1. /\ rpc[j] = "ready" /\ msgBuf[j] = {} /\ result[j] = {} /\ client[j] = "new"
        /\ round[j] = 0 /\ feedback[j] = "open" /\ \A w \in Workers : wjob[w] # j
    BY WorkerAssumption DEF OrchInit, Init
  <2> QED  BY <2>1 DEF JobOK, CallOK, ReportsOK, FirstOK, RetryOK, StaleOK, EndOK
<1>4. \A w \in Workers : CoverOK(w)
  BY DEF OrchInit, Init, CoverOK
<1> QED  BY <1>1, <1>2, <1>3, <1>4 DEF RequestInv

LEMMA NextRequest == RequestInv /\ [OrchNext]_allVars => RequestInv'
<1> SUFFICES ASSUME RequestInv, [OrchNext]_allVars PROVE RequestInv'
  OBVIOUS
<1>0. PoolInv /\ TypeInv /\ CountsOK /\ RequestTypeOK
  BY DEF RequestInv, PoolInv
<1>1. PoolInv' /\ CountsOK' /\ RequestTypeOK' /\ ResultSound'
  BY <1>0, PoolStep, PoolInvStep, CountsStep, RequestTypeStep, SoundStep
<1>2. CASE UNCHANGED <<poolVars, workerVars, jobVars, requestVars>>
  <2>1. ASSUME NEW j \in Jobs PROVE JobOK(j)'
    <3>1. SameCall(j) /\ SameFields(j) /\ SameWork(j)
      BY <1>2 DEF SameCall, SameFields, SameWork, Queued, poolVars, workerVars, jobVars,
                  originVars, instrVars, requestVars
    <3> QED  BY <3>1, JobFrame DEF RequestInv
  <2>2. ASSUME NEW w \in Workers PROVE CoverOK(w)'
    <3>1. CoverOK(w) /\ UNCHANGED <<wpc, wjob, todo, cur, errPeers, resps, outcome>>
             /\ UNCHANGED <<parts, ntasks, chats, progress, lastErr, rpc, msgBuf>>
      BY <1>2 DEF workerVars, queryVars, jobVars, originVars, instrVars, requestVars, RequestInv
    <3> QED  BY <3>1, CoverFrame
  <2> QED  BY <1>1, <2>1, <2>2 DEF RequestInv
<1>3. ASSUME NEW w \in Workers, Work(w) PROVE RequestInv'
  <2>1. \A j \in Jobs : JobOK(j)'
    BY <1>0, <1>3, JobWork DEF RequestInv
  <2>2. \A v \in Workers : CoverOK(v)'
    BY <1>0, <1>3, CoverWork DEF RequestInv
  <2> QED  BY <1>1, <2>1, <2>2 DEF RequestInv
<1>4. ASSUME NEW j \in Jobs, CallRequest(j) \/ Request(j) \/ Deadline(j) PROVE RequestInv'
  <2>1. Apart(j)
    BY <1>0, <1>4, RequestElsewhere
  <2>2. ASSUME NEW i \in Jobs PROVE JobOK(i)'
    <3>1. CASE i = j
      BY <1>0, <1>4, <3>1, JobRequest DEF RequestInv
    <3>2. CASE i # j
      <4>1. SameCall(i) /\ SameFields(i) /\ SameWork(i)
        BY <2>1, <3>2 DEF Apart, SameWork
      <4> QED  BY <4>1, JobFrame DEF RequestInv
    <3> QED  BY <3>1, <3>2
  <2>3. \A v \in Workers : CoverOK(v)'
    BY <1>0, <1>4, <2>1, CoverRequest DEF RequestInv
  <2> QED  BY <1>1, <2>2, <2>3 DEF RequestInv
<1> QED  BY <1>2, <1>3, <1>4, OrchCases

LEMMA RequestInvariant == OrchSpec => []RequestInv
<1> QED  BY InitRequest, NextRequest, PTL DEF OrchSpec

-----------------------------------------------------------------------------
(* Theorems *)

\* FifoOrchestration.Request is an originator as module Worker has it: it submits
\* a job once, reschedules it at most once, with no task less, and takes results
\* only from the worker that has them.  So what is proved of the pool under any
\* originator holds under this one.
THEOREM RequestsUseThePool == OrchSpec => Spec
<1>1. OrchInit => Init
  BY DEF OrchInit
<1>2. RequestInv /\ [OrchNext]_allVars => [Next]_vars
  BY PoolStep DEF RequestInv, PoolInv
<1> QED  BY <1>1, <1>2, RequestInvariant, PTL DEF OrchSpec, Spec

\* Every variable of the calls has its type.
THEOREM RequestTypes == OrchSpec => []RequestTypeOK
<1>1. RequestInv => RequestTypeOK
  BY DEF RequestInv
<1> QED  BY <1>1, RequestInvariant, PTL

\* A result Request returns was reported in the last phase by every participant of
\* the job's last instruction, all of whom answered in every phase before: no
\* reschedule, late answer or late close of a channel makes a call return less.
THEOREM ResultsAreSound == OrchSpec => []ResultSound
<1>1. RequestInv => ResultSound
  BY DEF RequestInv
<1> QED  BY <1>1, RequestInvariant, PTL

\* When the stream of results ends without an error and with a first phase, the
\* last phase is in Process's buffer: the index it takes is in range.
THEOREM FinalPhasesAreReported == OrchSpec => []FinalPhaseReported
<1>1. RequestInv => FinalPhaseReported
  <2> SUFFICES ASSUME RequestInv, NEW j \in Jobs, rpc[j] = "process", feedback[j] = "closed",
                      Complete(j)
               PROVE  Phase(j, ntasks[j] - 1) # {}
    BY DEF FinalPhaseReported
  <2>1. PICK m \in msgBuf[j] : TRUE
    BY DEF Complete, Phase
  <2>2. ntasks[j] - 1 \in 0..(ntasks[j] - 1)
    BY <2>1 DEF RequestInv, JobOK, CallOK, PoolInv, TypeInv, TypeOK, JobTypeOK
  <2>3. parts[j] \subseteq Reporters(j, ntasks[j] - 1) /\ parts[j] # {}
    BY <2>2, AllReported DEF RequestInv, JobOK, CallOK
  <2> QED  BY <2>3 DEF Reporters
<1> QED  BY <1>1, RequestInvariant, PTL

=============================================================================
