---------------------------- MODULE LifeProofs ----------------------------
(***************************************************************************)
(* Module Worker implements JobLife, for all values of the constants.  A   *)
(* step of a worker or an originator is a step of one job or of none; the  *)
(* ownership invariant of WorkerProofs says which stage the job is in.     *)
(***************************************************************************)
EXTENDS WorkerProofs

-----------------------------------------------------------------------------
(* How stages change *)

\* The stage of a job, stage by stage.
LEMMA StageCases ==
  ASSUME TypeInv, NEW j \in Jobs
  PROVE  /\ client[j] = "new" => StageOf(j) = "new"
         /\ client[j] = "enqueue" => StageOf(j) = "refilled"
         /\ client[j] = "refused" => StageOf(j) = "over"
         /\ client[j] = "watch" /\ Queued(j) => StageOf(j) = "queued"
         /\ client[j] = "watch" /\ ~Queued(j) /\ Driven(j) => StageOf(j) = "running"
         /\ client[j] = "watch" /\ ~Queued(j) /\ ~Driven(j) =>
              StageOf(j) = IF lastErr[j] = "Halted" THEN "halted" ELSE "over"
BY DEF StageOf, isJobHalted

\* What decides about the stage of job j stays as it is.
Unmoved(j) ==
  /\ client'[j] = client[j] /\ lastErr'[j] = lastErr[j]
  /\ Queued(j)' <=> Queued(j)
  /\ Driven(j)' <=> Driven(j)

LEMMA StageKept ==
  ASSUME NEW j \in Jobs, Unmoved(j)
  PROVE  StageOf(j)' = StageOf(j)
BY DEF Unmoved, StageOf, isJobHalted

\* A step of some job.
SomeStep == \E j \in Jobs : Life!Step(j)

\* A step that moves no job, or finishes a phase of none, is a stutter.
LEMMA LifeStutter ==
  ASSUME \A j \in Jobs : Unmoved(j), UNCHANGED <<progress, round>>
  PROVE  UNCHANGED Life!lifeVars
BY StageKept DEF Life!lifeVars

\* A step that moves job j only.
LEMMA LifeMove ==
  ASSUME NEW j \in Jobs, \A i \in Jobs \ {j} : Unmoved(i),
         NEW a, NEW b, StageOf(j) = a, StageOf(j)' = b
  PROVE  Life!Move(j, a, b)
<1>1. \A i \in Jobs \ {j} : StageOf(i)' = StageOf(i)
  BY StageKept
<1> QED  BY <1>1 DEF Life!Move

-----------------------------------------------------------------------------
(* Steps of a worker *)

\* Before the first error a worker has met none.
OutcomeOK ==
  \A w \in Workers :
    wpc[w] \notin {"feedback", "halt", "closefb", "closechats"} => outcome[w] = "nil"

\* jobWorker takes a job.
LEMMA LifeTake ==
  ASSUME TypeInv, TypeInv', OwnInv, OwnInv', NEW w \in Workers, TakeJob(w)
  PROVE  SomeStep
<1>0. queue \in Seq(Jobs) /\ queue # <<>>
  BY DEF TakeJob, TypeInv, TypeOK
<1> PICK j \in Jobs : j = Head(queue)
  BY <1>0, HeadTailProperties
<1>1. /\ Len(queue) \in Nat \ {0} /\ Len(queue') = Len(queue) - 1
      /\ j = queue[1]
      /\ \A i \in 1..Len(queue') : queue'[i] = queue[i + 1]
  BY <1>0, HeadTailProperties, LenProperties, EmptySeq DEF TakeJob
<1>2. /\ wpc[w] = "idle" /\ wjob[w] = NoJob
      /\ wpc' = [wpc EXCEPT ![w] = "start"] /\ wjob' = [wjob EXCEPT ![w] = j]
      /\ UNCHANGED <<outcome, client, lastErr, progress, round>>
      /\ DOMAIN wpc = Workers /\ DOMAIN wjob = Workers
  BY DEF TakeJob, Goto, TypeInv, TypeOK, WorkerTypeOK, Assigned, jobVars, originVars,
         instrVars
<1>3. Queued(j)
  BY <1>1 DEF Queued
<1>4. Driven(j)'
  BY <1>2 DEF Driven, Active
<1>5. client[j] = "watch" /\ client'[j] = "watch" /\ ~Queued(j)'
  BY <1>2, <1>3, <1>4 DEF OwnInv, Placed
<1>6. ASSUME NEW i \in Jobs \ {j} PROVE Unmoved(i)
  <2>1. Queued(i)' => Queued(i)
    BY <1>1 DEF Queued
  <2>2. Queued(i) => Queued(i)'
    <3> SUFFICES ASSUME NEW k \in 1..Len(queue), queue[k] = i PROVE Queued(i)'
      BY DEF Queued
    <3>1. k - 1 \in 1..Len(queue') /\ queue'[k - 1] = i
      BY <1>1
    <3> QED  BY <3>1 DEF Queued
  <2>3. Driven(i)' <=> Driven(i)
    BY <1>2, WorkerAssumption DEF Driven, Active
  <2> QED  BY <1>2, <2>1, <2>2, <2>3 DEF Unmoved
<1>7. StageOf(j) = "queued" /\ StageOf(j)' = "running"
  BY <1>3, <1>4, <1>5, StageCases DEF StageOf
<1>8. Life!Move(j, "queued", "running")
  BY <1>6, <1>7, LifeMove
<1> QED  BY <1>2, <1>8 DEF SomeStep, Life!Step, Life!Drive

\* haltOrAbort sets lastErr: halting, the worker gives the job up; aborting, it
\* still has to close the job's chats.
LEMMA LifeSetErr ==
  ASSUME TypeInv, TypeInv', OwnInv, OwnInv', NEW w \in Workers, SetErr(w)
  PROVE  SomeStep \/ UNCHANGED Life!lifeVars
<1> PICK j \in Jobs : j = wjob[w]
  BY DEF SetErr, TypeInv, TypeOK, WorkerTypeOK, Assigned
<1>1. /\ Active(w, j) /\ wpc[w] = "halt"
      /\ wpc' = [wpc EXCEPT ![w] = "closefb"]
      /\ lastErr' = [lastErr EXCEPT ![j] = outcome[w]]
      /\ UNCHANGED <<queue, wjob, outcome, client, progress, round>>
      /\ DOMAIN wpc = Workers /\ DOMAIN lastErr = Jobs
  BY DEF SetErr, Goto, Active, TypeInv, TypeOK, WorkerTypeOK, JobTypeOK, Assigned,
         poolVars, originVars, instrVars
<1>2. \A i \in Jobs : Queued(i)' <=> Queued(i)
  BY <1>1 DEF Queued
<1>3. \A i \in Jobs \ {j} : Unmoved(i)
  BY <1>1, <1>2 DEF Unmoved, Driven, Active
<1>4. Driven(j) /\ ~Queued(j) /\ client[j] = "watch" /\ lastErr[j] # "Halted"
  BY <1>1 DEF OwnInv, Placed, Driven
<1>5. StageOf(j) = "running"
  BY <1>4, StageCases
<1>6. CASE outcome[w] = "Halted"
  <2>1. ~Driven(j)' /\ ~Queued(j)' /\ client'[j] = "watch" /\ lastErr'[j] = "Halted"
    BY <1>1, <1>2, <1>4, <1>6 DEF OwnInv, Placed
  <2>2. StageOf(j)' = "halted"
    BY <2>1 DEF StageOf, isJobHalted
  <2>3. Life!Move(j, "running", "halted")
    BY <1>3, <1>5, <2>2, LifeMove
  <2> QED  BY <1>1, <2>3 DEF SomeStep, Life!Step, Life!Halt
<1>7. CASE outcome[w] # "Halted"
  <2>1. Driven(j)' /\ ~Queued(j)' /\ client'[j] = "watch"
    BY <1>1, <1>2, <1>4, <1>7 DEF Driven, Active
  <2>2. StageOf(j)' = "running"
    BY <2>1 DEF StageOf
  <2>3. \A i \in Jobs : StageOf(i)' = StageOf(i)
    BY <1>3, <1>5, <2>2, StageKept
  <2> QED  BY <1>1, <2>3 DEF Life!lifeVars
<1> QED  BY <1>6, <1>7

\* The chats of a job that is over are closed, and its worker leaves it.
LEMMA LifeEnd ==
  ASSUME TypeInv, TypeInv', OwnInv, OwnInv', NEW w \in Workers, EndJob(w)
  PROVE  SomeStep
<1> PICK j \in Jobs : j = wjob[w]
  BY DEF EndJob, TypeInv, TypeOK, WorkerTypeOK, Assigned
<1>1. /\ Active(w, j) /\ wpc[w] = "closechats"
      /\ wpc' = [wpc EXCEPT ![w] = "idle"]
      /\ wjob' = [wjob EXCEPT ![w] = NoJob]
      /\ outcome' = [outcome EXCEPT ![w] = "nil"]
      /\ UNCHANGED <<queue, client, lastErr, progress, round>>
      /\ DOMAIN wpc = Workers /\ DOMAIN wjob = Workers /\ DOMAIN outcome = Workers
  BY DEF EndJob, Release, Goto, Active, TypeInv, TypeOK, WorkerTypeOK, JobTypeOK,
         Assigned, poolVars, originVars, instrVars
<1>2. \A i \in Jobs : Queued(i)' <=> Queued(i)
  BY <1>1 DEF Queued
<1>3. ASSUME NEW i \in Jobs \ {j} PROVE Unmoved(i)
  <2>1. \A v \in Workers : Active(v, i)' <=> Active(v, i)
    BY <1>1, WorkerAssumption DEF Active
  <2> QED  BY <1>1, <1>2, <2>1 DEF Unmoved, Driven
<1>4. Driven(j) /\ ~Queued(j) /\ client[j] = "watch" /\ lastErr[j] # "Halted"
  BY <1>1 DEF OwnInv, Placed, Driven
<1>5. ~Driven(j)'
  <2>1. \A v \in Workers : Active(v, j)' => Active(v, j) /\ v # w
    BY <1>1, WorkerAssumption DEF Active
  <2> QED  BY <1>1, <2>1 DEF Driven, OwnInv, ExclusiveJob
<1>6. StageOf(j) = "running"
  BY <1>4, StageCases
<1>7. StageOf(j)' = "over"
  BY <1>1, <1>2, <1>4, <1>5 DEF StageOf, isJobHalted
<1>8. Life!Move(j, "running", "over")
  BY <1>3, <1>6, <1>7, LifeMove
<1> QED  BY <1>1, <1>6, <1>8 DEF SomeStep, Life!Step, Life!Finish, Life!Move

\* The next phase starts when the last one's results are with the originator.
LEMMA LifeNextTask ==
  ASSUME TypeInv, OwnInv, OutcomeOK, NEW w \in Workers, NextTask(w)
  PROVE  SomeStep \/ UNCHANGED Life!lifeVars
<1> PICK j \in Jobs : j = wjob[w]
  BY DEF NextTask, TypeInv, TypeOK, WorkerTypeOK, Assigned
<1>1. /\ Active(w, j) /\ outcome[w] = "nil"
      /\ wpc' = [wpc EXCEPT ![w] = "instruct"] \/ wpc' = [wpc EXCEPT ![w] = "closefb"]
      /\ wpc[w] \notin {"idle", "closefb"}
      /\ UNCHANGED <<queue, wjob, outcome, client, lastErr, round>>
      /\ progress' = progress \/ progress' = [progress EXCEPT ![j] = @ + 1]
      /\ DOMAIN wpc = Workers
  BY DEF NextTask, Goto, Active, OutcomeOK, TypeInv, TypeOK, WorkerTypeOK, Assigned,
         poolVars, originVars, instrVars
<1>2. \A v \in Workers, i \in Jobs : Active(v, i)' <=> Active(v, i)
  BY <1>1 DEF Active
<1>3. \A i \in Jobs : Unmoved(i)
  BY <1>1, <1>2 DEF Unmoved, Queued, Driven
<1>4. CASE progress' = progress
  BY <1>1, <1>3, <1>4, LifeStutter
<1>5. CASE progress' = [progress EXCEPT ![j] = @ + 1]
  <2>1. Driven(j) /\ ~Queued(j) /\ client[j] = "watch"
    BY <1>1 DEF OwnInv, Placed, Driven
  <2>2. StageOf(j) = "running"
    BY <2>1, StageCases
  <2>3. \A i \in Jobs : StageOf(i)' = StageOf(i)
    BY <1>3, StageKept
  <2>4. Life!Advance(j)
    BY <1>1, <1>5, <2>2, <2>3 DEF Life!Advance
  <2> QED  BY <2>4 DEF SomeStep, Life!Step
<1> QED  BY <1>1, <1>4, <1>5

\* The steps that move no job.
LEMMA LifeWorker ==
  ASSUME TypeInv, TypeInv', OwnInv, OwnInv', OutcomeOK, NEW w \in Workers, ProcessJob(w)
  PROVE  SomeStep \/ UNCHANGED Life!lifeVars
<1> USE DEF chatVars, poolVars, workerVars, jobVars, originVars, instrVars, Goto
<1> DEFINE Keeps == /\ UNCHANGED <<queue, client, lastErr, progress, round>>
                    /\ \A v \in Workers, j \in Jobs : Active(v, j)' <=> Active(v, j)
<1>0. /\ DOMAIN wpc = Workers /\ DOMAIN wjob = Workers
      /\ DOMAIN outcome = Workers
      /\ \A v \in Workers : wpc[v] # "idle" => wjob[v] \in Jobs
      /\ wpc[w] \notin {"feedback", "halt", "closefb", "closechats"} => outcome[w] = "nil"
  BY DEF OutcomeOK, TypeInv, TypeOK, WorkerTypeOK, Assigned
<1>1. ASSUME JobExpired(w) PROVE Keeps
  BY <1>0, <1>1 DEF JobExpired, Active
<1>2. ASSUME StartJob(w) PROVE Keeps
  BY <1>0, <1>2 DEF StartJob, Active
<1>3. ASSUME RequestTimeout(w) PROVE Keeps
  BY <1>0, <1>3 DEF RequestTimeout, Active
<1>4. ASSUME OpenFails(w) PROVE Keeps
  BY <1>0, <1>4 DEF OpenFails, Active
<1>5. ASSUME InstructDone(w) PROVE Keeps
  BY <1>0, <1>5 DEF InstructDone, Active
<1>6. ASSUME QueryDone(w) PROVE Keeps
  BY <1>0, <1>6 DEF QueryDone, Active
<1>7. ASSUME FeedbackDone(w) PROVE Keeps
  BY <1>0, <1>7 DEF FeedbackDone, Active
<1>8. ASSUME Panic(w) PROVE Keeps
  BY <1>0, <1>8 DEF Panic, Active
<1>9. ASSUME CloseFeedback(w) PROVE Keeps
  <2>1. CASE Release(w) /\ outcome[w] = "Halted"
    BY <1>0, <1>9, <2>1, WorkerAssumption DEF CloseFeedback, Release, Active
  <2>2. CASE Goto(w, "closechats") /\ UNCHANGED <<wjob, outcome>> /\ outcome[w] # "Halted"
    BY <1>0, <1>9, <2>2 DEF CloseFeedback, Active
  <2> QED  BY <1>9, <2>1, <2>2 DEF CloseFeedback
<1>10. ASSUME NEW p \in Peers, ReuseChat(w, p) PROVE Keeps
  BY <1>0, <1>10 DEF ReuseChat, Active
<1>11. ASSUME NEW p \in Peers, RequestBlocks(w, p) PROVE Keeps
  BY <1>0, <1>11 DEF RequestBlocks, Active
<1>12. ASSUME NEW p \in Peers, RequestChat(w, p) PROVE Keeps
  BY <1>0, <1>12 DEF RequestChat, Active
<1>13. ASSUME NEW p \in Peers, Instruct(w, p) PROVE Keeps
  BY <1>0, <1>13 DEF Instruct, Active
<1>14. ASSUME NEW p \in Peers, InstructTimeout(w, p) PROVE Keeps
  BY <1>0, <1>14 DEF InstructTimeout, Active
<1>15. ASSUME NEW p \in Peers, PullWaits(w, p) PROVE Keeps
  BY <1>0, <1>15 DEF PullWaits, Active
<1>16. ASSUME NEW p \in Peers, PullResult(w, p) PROVE Keeps
  BY <1>0, <1>16 DEF PullResult, Active
<1>17. ASSUME NEW p \in Peers, PullFails(w, p) PROVE Keeps
  BY <1>0, <1>17 DEF PullFails, Active
<1>18. Keeps => UNCHANGED Life!lifeVars
  <2> SUFFICES ASSUME Keeps PROVE UNCHANGED Life!lifeVars
    OBVIOUS
  <2>1. \A j \in Jobs : Unmoved(j)
    BY DEF Unmoved, Queued, Driven
  <2> QED  BY <2>1, LifeStutter
<1> HIDE DEF Keeps
<1> QED
  BY <1>1, <1>2, <1>3, <1>4, <1>5, <1>6, <1>7, <1>8, <1>9, <1>10, <1>11, <1>12, <1>13, <1>14,
     <1>15, <1>16, <1>17, <1>18, LifeTake, LifeSetErr, LifeEnd, LifeNextTask DEF ProcessJob

-----------------------------------------------------------------------------
(* Steps of an originator *)

\* Queueing a job leaves the others where they are.
LEMMA LifeAppend ==
  ASSUME TypeInv, TypeInv', NEW j \in Jobs, queue' = Append(queue, j),
         client' = [client EXCEPT ![j] = "watch"],
         UNCHANGED <<lastErr, wpc, wjob, outcome>>
  PROVE  /\ \A i \in Jobs \ {j} : Unmoved(i)
         /\ StageOf(j)' = "queued"
<1>1. /\ Len(queue) \in Nat /\ Len(queue') = Len(queue) + 1
      /\ \A i \in 1..Len(queue) : queue'[i] = queue[i]
      /\ queue'[Len(queue) + 1] = j
  BY AppendProperties, LenProperties DEF TypeInv, TypeOK
<1>2. \A i \in Jobs \ {j} : Queued(i)' <=> Queued(i)
  BY <1>1 DEF Queued
<1>3. \A i \in Jobs \ {j} : Unmoved(i)
  BY <1>2 DEF Unmoved, Driven, Active, TypeInv, TypeOK, JobTypeOK
<1>4. Queued(j)' /\ client'[j] = "watch"
  BY <1>1 DEF Queued, TypeInv, TypeOK, JobTypeOK
<1>5. StageOf(j)' = "queued"
  BY <1>4 DEF StageOf
<1> QED  BY <1>3, <1>5

LEMMA LifeOriginator ==
  ASSUME TypeInv, TypeInv', OwnInv, OwnInv', NEW j \in Jobs, Originator(j)
  PROVE  SomeStep \/ UNCHANGED Life!lifeVars
<1> USE DEF poolVars, workerVars, instrVars, originVars
<1>0. /\ DOMAIN client = Jobs /\ DOMAIN lastErr = Jobs /\ DOMAIN round = Jobs
      /\ Queued(j) \/ Driven(j) => client[j] = "watch" /\ lastErr[j] # "Halted"
      /\ client[j] \in {"new", "enqueue"} => lastErr[j] # "Halted"
  BY DEF OwnInv, Placed, TypeInv, TypeOK, JobTypeOK
<1>1. ASSUME UNCHANGED <<queue, wpc, wjob, outcome>>
      PROVE  \A i \in Jobs : (Queued(i)' <=> Queued(i)) /\ (Driven(i)' <=> Driven(i))
  BY <1>1 DEF Queued, Driven, Active
<1>2. ASSUME UNCHANGED <<queue, wpc, wjob, outcome, client, lastErr>>
      PROVE  \A i \in Jobs : Unmoved(i)
  BY <1>1, <1>2 DEF Unmoved
<1>3. CASE SubmitTimeout(j)
  <2>1. \A i \in Jobs \ {j} : Unmoved(i)
    BY <1>0, <1>1, <1>3 DEF SubmitTimeout, Unmoved
  <2>2. StageOf(j) = "new"
    BY <1>3, StageCases DEF SubmitTimeout
  <2>3. client'[j] = "refused"
    BY <1>0, <1>3 DEF SubmitTimeout
  <2>4. StageOf(j)' = "over"
    BY <2>3 DEF StageOf
  <2>5. Life!Move(j, "new", "over")
    BY <2>1, <2>2, <2>4, LifeMove
  <2> QED  BY <1>3, <2>2, <2>5 DEF SubmitTimeout, SomeStep, Life!Step, Life!Finish, Life!Move
<1>4. CASE Expire(j)
  BY <1>2, <1>4, LifeStutter DEF Expire
<1>5. CASE Enqueue(j)
  <2>1. (\A i \in Jobs \ {j} : Unmoved(i)) /\ StageOf(j)' = "queued"
    BY <1>5, LifeAppend DEF Enqueue
  <2>2. StageOf(j) = "refilled"
    BY <1>5, StageCases DEF Enqueue
  <2>3. Life!Move(j, "refilled", "queued")
    BY <2>1, <2>2, LifeMove
  <2> QED  BY <1>5, <2>3 DEF Enqueue, SomeStep, Life!Step, Life!Queue
<1>6. CASE EnqueueTimeout(j)
  <2>1. \A i \in Jobs \ {j} : Unmoved(i)
    BY <1>0, <1>1, <1>6 DEF EnqueueTimeout, Unmoved
  <2>2. StageOf(j) = "refilled"
    BY <1>6, StageCases DEF EnqueueTimeout
  <2>3. client'[j] = "watch" /\ ~Queued(j)' /\ ~Driven(j)' /\ lastErr'[j] # "Halted"
    BY <1>0, <1>1, <1>6 DEF EnqueueTimeout
  <2>4. StageOf(j)' = "over"
    BY <2>3 DEF StageOf, isJobHalted
  <2>5. Life!Move(j, "refilled", "over")
    BY <2>1, <2>2, <2>4, LifeMove
  <2> QED  BY <1>6, <2>2, <2>5 DEF EnqueueTimeout, SomeStep, Life!Step, Life!Finish, Life!Move
<1>7. CASE Abort(j)
  <2>1. UNCHANGED <<queue, wpc, wjob, outcome>>
    BY <1>7 DEF Abort
  <2>2. \A i \in Jobs \ {j} : Unmoved(i)
    BY <1>0, <1>1, <1>7, <2>1 DEF Abort, Unmoved
  <2>3. client[j] = "watch" /\ ~Queued(j) /\ ~Driven(j) /\ lastErr[j] = "Halted"
    BY <1>0, <1>7 DEF Abort, isJobHalted
  <2>4. StageOf(j) = "halted"
    BY <2>3, StageCases
  <2>5. client'[j] = "watch" /\ ~Queued(j)' /\ ~Driven(j)' /\ lastErr'[j] = "nil"
    BY <1>0, <1>1, <1>7, <2>1, <2>3 DEF Abort
  <2>6. StageOf(j)' = "over"
    BY <2>5 DEF StageOf, isJobHalted
  <2>7. Life!Move(j, "halted", "over")
    BY <2>2, <2>4, <2>6, LifeMove
  <2> QED  BY <1>7, <2>4, <2>7 DEF Abort, SomeStep, Life!Step, Life!Finish, Life!Move
<1>8. ASSUME NEW S, NEW f, NEW n, NEW fl, SubmitJob(j, S, f, n, fl)
      PROVE  SomeStep
  <2>1. (\A i \in Jobs \ {j} : Unmoved(i)) /\ StageOf(j)' = "queued"
    BY <1>8, LifeAppend DEF SubmitJob
  <2>2. StageOf(j) = "new"
    BY <1>8, StageCases DEF SubmitJob
  <2>3. Life!Move(j, "new", "queued")
    BY <2>1, <2>2, LifeMove
  <2> QED  BY <1>8, <2>3 DEF SubmitJob, SomeStep, Life!Step, Life!Queue
<1>9. ASSUME NEW S, NEW f, NEW n, NEW fl, NEW done, Recycle(j, S, f, n, fl, done)
      PROVE  SomeStep
  <2>1. UNCHANGED <<queue, wpc, wjob, outcome>>
    BY <1>9 DEF Recycle
  <2>2. \A i \in Jobs \ {j} : Unmoved(i)
    BY <1>0, <1>1, <1>9, <2>1 DEF Recycle, Unmoved
  <2>3. client[j] = "watch" /\ ~Queued(j) /\ ~Driven(j) /\ lastErr[j] = "Halted"
    BY <1>0, <1>9 DEF Recycle, isJobHalted
  <2>4. StageOf(j) = "halted"
    BY <2>3, StageCases
  <2>5. client'[j] = "enqueue"
    BY <1>0, <1>9 DEF Recycle
  <2>6. StageOf(j)' = "refilled"
    BY <2>5 DEF StageOf
  <2>7. Life!Move(j, "halted", "refilled")
    BY <2>2, <2>4, <2>6, LifeMove
  <2>8. round[j] = 0 /\ round' = [round EXCEPT ![j] = @ + 1] /\ progress' = progress
    BY <1>9 DEF Recycle
  <2>9. round[j] + 1 < 2
    BY <2>8
  <2>10. Life!Refill(j)
    BY <2>7, <2>8, <2>9, Zenon DEF Life!Refill
  <2> QED  BY <2>10 DEF SomeStep, Life!Step
<1>10. ASSUME NEW S, NEW f, NEW T, RecycleRefused(j, S, f, T)
       PROVE  UNCHANGED Life!lifeVars
  BY <1>2, <1>10, LifeStutter DEF RecycleRefused
<1>11. ASSUME NEW S, NEW f, Instruction(j, S, f)
       PROVE  SomeStep \/ UNCHANGED Life!lifeVars
  BY <1>8, <1>9, <1>10, <1>11 DEF Instruction
<1> QED
  BY <1>3, <1>4, <1>5, <1>6, <1>7, <1>11 DEF Originator

-----------------------------------------------------------------------------
(* The refinement *)

LEMMA InitOutcome == Init => OutcomeOK
BY DEF Init, OutcomeOK

LEMMA NextOutcome == TypeInv /\ OutcomeOK /\ [Next]_vars => OutcomeOK'
<1> SUFFICES ASSUME TypeInv, OutcomeOK, [Next]_vars PROVE OutcomeOK'
  OBVIOUS
<1> USE DEF workerVars, queryVars, OutcomeOK
<1>1. CASE ChatNext /\ UNCHANGED <<queue, crashed, workerVars, jobVars>>
  BY <1>1
<1>2. ASSUME NEW w \in Workers, ProcessJob(w) PROVE OutcomeOK'
  <2> DEFINE Far == {"feedback", "halt", "closefb", "closechats"}
  <2>0. DOMAIN wpc = Workers /\ DOMAIN outcome = Workers
    BY DEF TypeInv, TypeOK, WorkerTypeOK
  <2>1. \A v \in Workers \ {w} : wpc'[v] = wpc[v] /\ outcome'[v] = outcome[v]
    BY <1>2, <2>0
    DEF ProcessJob, Goto, Release, TakeJob, JobExpired, StartJob, RequestTimeout,
        OpenFails, NextTask, InstructDone, QueryDone, FeedbackDone, SetErr,
        CloseFeedback, EndJob, Panic, ReuseChat, RequestBlocks, RequestChat,
        Instruct, InstructTimeout, PullWaits, PullResult, PullFails
  <2>2. wpc'[w] \in Far \/ outcome'[w] = "nil"
    BY <1>2, <2>0
    DEF ProcessJob, Goto, Release, TakeJob, JobExpired, StartJob, RequestTimeout,
        OpenFails, NextTask, InstructDone, QueryDone, FeedbackDone, SetErr,
        CloseFeedback, EndJob, Panic, ReuseChat, RequestBlocks, RequestChat,
        Instruct, InstructTimeout, PullWaits, PullResult, PullFails
  <2> QED  BY <2>1, <2>2
<1>3. ASSUME NEW w \in Workers, NEW r \in resps[w], SendFeedback(w, r) PROVE OutcomeOK'
  BY <1>3 DEF SendFeedback
<1>4. ASSUME NEW j \in Jobs, Originator(j) PROVE OutcomeOK'
  BY <1>4, OriginatorFrame
<1>5. CASE UNCHANGED vars
  BY <1>5 DEF vars
<1> QED  BY <1>1, <1>2, <1>3, <1>4, <1>5, NextCases

LEMMA LifeInitial == Init => Life!LifeInit
<1> SUFFICES ASSUME Init PROVE Life!LifeInit
  OBVIOUS
<1>1. TypeInv /\ \A j \in Jobs : client[j] = "new"
  BY InitType DEF Init
<1>2. \A j \in Jobs : StageOf(j) = "new"
  BY <1>1, StageCases
<1> QED  BY <1>2 DEF Init, Life!LifeInit

LEMMA LifeStep ==
  ASSUME TypeInv, TypeInv', OwnInv, OwnInv', OutcomeOK, [Next]_vars
  PROVE  SomeStep \/ UNCHANGED Life!lifeVars
<1> DEFINE Keeps == UNCHANGED <<queue, wpc, wjob, outcome, client, lastErr, progress, round>>
<1>1. Keeps => UNCHANGED Life!lifeVars
  <2> SUFFICES ASSUME Keeps PROVE UNCHANGED Life!lifeVars
    OBVIOUS
  <2>1. \A j \in Jobs : Unmoved(j)
    BY DEF Unmoved, Queued, Driven, Active
  <2> QED  BY <2>1, LifeStutter
<1>2. CASE ChatNext /\ UNCHANGED <<queue, crashed, workerVars, jobVars>>
  BY <1>1, <1>2 DEF workerVars, jobVars, originVars, instrVars
<1>3. ASSUME NEW w \in Workers, ProcessJob(w)
      PROVE  SomeStep \/ UNCHANGED Life!lifeVars
  BY <1>3, LifeWorker
<1>4. ASSUME NEW w \in Workers, NEW r \in resps[w], SendFeedback(w, r)
      PROVE  UNCHANGED Life!lifeVars
  BY <1>1, <1>4 DEF SendFeedback, poolVars, jobVars, originVars, instrVars
<1>5. ASSUME NEW j \in Jobs, Originator(j)
      PROVE  SomeStep \/ UNCHANGED Life!lifeVars
  BY <1>5, LifeOriginator
<1>6. CASE UNCHANGED vars
  BY <1>1, <1>6 DEF vars, poolVars, workerVars, jobVars, originVars, instrVars
<1> HIDE DEF Keeps
<1> QED  BY <1>2, <1>3, <1>4, <1>5, <1>6, NextCases

\* The worker pool keeps its promise about the life of a job (comm.go, job.go) for
\* any number of jobs, peers and workers: no interleaving of halts, time-outs,
\* reschedules and aborts drives a job that is over or skips one of its stages.
THEOREM JobsLiveAsPromised == Spec => LifeImplemented
<1>1. Init => TypeInv /\ OwnInv /\ OutcomeOK
  BY InitType, InitOwn, InitOutcome
<1>2. TypeInv /\ OwnInv /\ OutcomeOK /\ [Next]_vars => TypeInv' /\ OwnInv' /\ OutcomeOK'
  BY NextType, NextOwn, NextOutcome
<1>3. Init => Life!LifeInit
  BY LifeInitial
<1>4. TypeInv /\ OwnInv /\ OutcomeOK /\ TypeInv' /\ OwnInv' /\ [Next]_vars
        => [Life!LifeNext]_(Life!lifeVars)
  BY LifeStep DEF SomeStep, Life!LifeNext
<1> QED  BY <1>1, <1>2, <1>3, <1>4, PTL DEF Spec, LifeImplemented, Life!LifeSpec
=============================================================================
