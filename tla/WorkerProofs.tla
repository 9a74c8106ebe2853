--------------------------- MODULE WorkerProofs ---------------------------
(* Theorems about module Worker, for all values of its constants. *)
EXTENDS Worker, FiniteSetTheorems, SequenceTheorems, TLAPS

-----------------------------------------------------------------------------
(* Types *)

\* The peers' new channel IDs are numbers.
LEMMA RenumberType ==
  ASSUME JobTypeOK, NEW j \in Jobs, NEW S \in SUBSET Peers, NEW f \in Numberings(S),
         NEW T \in SUBSET S
  PROVE  Renumber(j, T, f) \in [Jobs -> [Peers -> Nat]]
<1>1. IsFiniteSet(S) /\ Cardinality(S) \in Nat
  BY PeersAssumption, FS_Subset, FS_CardinalityType
<1>2. \A p \in T : f[p] \in Nat
  BY <1>1 DEF Numberings
<1> QED  BY <1>2 DEF Renumber, JobTypeOK

\* Closing chats keeps the types.
LEMMA RevokeType ==
  ASSUME ChatTypeOK, JobTypeOK, NEW j, NEW S, RevokePeerChats(j, S)
  PROVE  /\ closed' \in [Jobs -> [Peers -> BOOLEAN]]
         /\ answered' \in [Jobs -> [Peers -> Nat]]
         /\ chats' \in [Jobs -> SUBSET Peers]
BY DEF RevokePeerChats, Close, ChatTypeOK, JobTypeOK

\* What happens under the chats of the jobs.
LEMMA ChatType ==
  ASSUME ChatTypeOK, ChatNext
  PROVE  ChatTypeOK'
<1> USE DEF ChatTypeOK
<1>1. ASSUME NEW p \in Peers, AwaitSMCRound(p) PROVE ChatTypeOK'
  BY <1>1 DEF AwaitSMCRound
<1>2. ASSUME NEW p \in Peers, LeaveSMCRound(p) PROVE ChatTypeOK'
  BY <1>2 DEF LeaveSMCRound
<1>3. ASSUME NEW j \in Jobs, NEW p \in Peers, ChatLoop(j, p) PROVE ChatTypeOK'
  <2>1. CASE TakeInstruction(j, p)
    BY <2>1 DEF TakeInstruction
  <2>2. CASE EndChat(j, p)
    BY <2>2 DEF EndChat
  <2>3. CASE SendToPeer(j, p)
    BY <2>3 DEF SendToPeer, Cmd
  <2>4. CASE SendFails(j, p)
    BY <2>4 DEF SendFails
  <2>5. CASE ForwardResult(j, p)
    <3>1. ABORTED \in SUBSET Bits /\ DENIED \in SUBSET Bits
      BY DEF ABORTED, DENIED, Bits
    <3>2. \A s \in Answers : s \in SUBSET Bits
      BY <3>1, StatusAssumption DEF Answers
    <3> QED  BY <2>5, <3>2 DEF ForwardResult, Cmd, CmdResult
  <2>6. CASE ForwardLoss(j, p)
    BY <2>6 DEF ForwardLoss, Cmd, CmdResult, STREAM_ERR, Bits
  <2> QED  BY <1>3, <2>1, <2>2, <2>3, <2>4, <2>5, <2>6 DEF ChatLoop
<1>4. ASSUME NEW j \in Jobs, NEW p \in Peers, LoseStream(j, p) PROVE ChatTypeOK'
  BY <1>4 DEF LoseStream
<1> QED  BY <1>1, <1>2, <1>3, <1>4 DEF ChatNext

\* What an originator does.
LEMMA OriginatorType ==
  ASSUME TypeOK, NEW j \in Jobs, Originator(j)
  PROVE  TypeOK'
<1> USE DEF chatVars, serveVars, poolVars, workerVars, queryVars,
            originVars, instrVars, jobVars
<1>0. /\ ChatTypeOK /\ WorkerTypeOK /\ JobTypeOK
      /\ queue \in Seq(Jobs) /\ crashed \in BOOLEAN
  BY DEF TypeOK
<1>1. CASE SubmitTimeout(j)
  BY <1>1 DEF SubmitTimeout, TypeOK, ChatTypeOK, WorkerTypeOK, JobTypeOK
<1>2. CASE Expire(j)
  BY <1>2 DEF Expire, TypeOK, ChatTypeOK, WorkerTypeOK, JobTypeOK
<1>3. CASE Enqueue(j)
  BY <1>3 DEF Enqueue, TypeOK, ChatTypeOK, WorkerTypeOK, JobTypeOK
<1>4. CASE EnqueueTimeout(j)
  BY <1>4 DEF EnqueueTimeout, TypeOK, ChatTypeOK, WorkerTypeOK, JobTypeOK
<1>5. CASE Abort(j)
  <2>1. /\ closed' \in [Jobs -> [Peers -> BOOLEAN]]
        /\ answered' \in [Jobs -> [Peers -> Nat]]
        /\ chats' \in [Jobs -> SUBSET Peers]
    BY <1>0, <1>5, RevokeType DEF Abort, CloseAllChats
  <2> QED  BY <1>5, <2>1 DEF Abort, TypeOK, ChatTypeOK, WorkerTypeOK, JobTypeOK, Status
<1>6. ASSUME NEW S \in SUBSET Peers, NEW f \in Numberings(S), NEW n \in TaskCounts,
             NEW fl \in FlagChoices, SubmitJob(j, S, f, n, fl)
      PROVE  TypeOK'
  <2>1. chanID' \in [Jobs -> [Peers -> Nat]]
    BY <1>0, <1>6, RenumberType DEF SubmitJob
  <2>2. n \in Nat /\ fl \in SUBSET Bits
    BY WorkerAssumption
  <2>3. ChatTypeOK' /\ WorkerTypeOK' /\ crashed' \in BOOLEAN
    BY <1>0, <1>6 DEF SubmitJob, ChatTypeOK, WorkerTypeOK
  <2>4. JobTypeOK'
    BY <1>0, <1>6, <2>1, <2>2 DEF SubmitJob, JobTypeOK
  <2>5. queue' \in Seq(Jobs)
    BY <1>0, <1>6, AppendProperties DEF SubmitJob
  <2> QED  BY <2>3, <2>4, <2>5 DEF TypeOK
<1>7. ASSUME NEW S \in SUBSET Peers, NEW f \in Numberings(S), NEW n \in TaskCounts,
             NEW fl \in FlagChoices, NEW done \in {FALSE, ctxDone[j]},
             Recycle(j, S, f, n, fl, done)
      PROVE  TypeOK'
  <2>1. /\ closed' \in [Jobs -> [Peers -> BOOLEAN]]
        /\ answered' \in [Jobs -> [Peers -> Nat]]
        /\ chats' \in [Jobs -> SUBSET Peers]
    BY <1>0, <1>7, RevokeType DEF Recycle
  <2>2. chanID' \in [Jobs -> [Peers -> Nat]]
    BY <1>0, <1>7, RenumberType DEF Recycle
  <2>3. n \in Nat /\ fl \in SUBSET Bits /\ done \in BOOLEAN
    BY <1>0, WorkerAssumption DEF JobTypeOK
  <2>4. ChatTypeOK' /\ WorkerTypeOK' /\ queue' \in Seq(Jobs) /\ crashed' \in BOOLEAN
    BY <1>0, <1>7, <2>1 DEF Recycle, ChatTypeOK, WorkerTypeOK
  <2>5. /\ client' \in [Jobs -> {"new", "watch", "enqueue", "refused"}]
        /\ ctxDone' \in [Jobs -> BOOLEAN]
        /\ progress' \in [Jobs -> Nat]
        /\ round' \in [Jobs -> Nat]
    BY <1>0, <1>7, <2>3 DEF Recycle, JobTypeOK
  <2>6. /\ parts' \in [Jobs -> SUBSET Peers]
        /\ ntasks' \in [Jobs -> Nat]
        /\ flags' \in [Jobs -> SUBSET Bits]
        /\ feedback' \in [Jobs -> {"open", "closed"}]
        /\ lastErr' \in [Jobs -> Status]
    BY <1>0, <1>7, <2>3 DEF Recycle, JobTypeOK, Status
  <2> QED  BY <2>1, <2>2, <2>4, <2>5, <2>6 DEF TypeOK, JobTypeOK
<1>8. ASSUME NEW S \in SUBSET Peers, NEW f \in Numberings(S), NEW T \in SUBSET S,
             RecycleRefused(j, S, f, T)
      PROVE  TypeOK'
  <2>1. chanID' \in [Jobs -> [Peers -> Nat]]
    BY <1>0, <1>8, RenumberType DEF RecycleRefused
  <2> QED  BY <1>8, <2>1 DEF RecycleRefused, TypeOK, ChatTypeOK, WorkerTypeOK, JobTypeOK
<1>9. ASSUME NEW S \in SUBSET Peers, NEW f \in Numberings(S), Instruction(j, S, f)
      PROVE  TypeOK'
  <2>1. CASE \E n \in TaskCounts, fl \in FlagChoices : SubmitJob(j, S, f, n, fl)
    BY <2>1, <1>6
  <2>2. CASE \E n \in TaskCounts, fl \in FlagChoices :
               \E done \in {FALSE, ctxDone[j]} : Recycle(j, S, f, n, fl, done)
    BY <2>2, <1>7
  <2>3. CASE \E T \in SUBSET S : RecycleRefused(j, S, f, T)
    BY <2>3, <1>8
  <2> QED  BY <1>9, <2>1, <2>2, <2>3 DEF Instruction
<1> QED
  BY <1>1, <1>2, <1>3, <1>4, <1>5, <1>9 DEF Originator

\* A worker has a job unless it waits for one.
Assigned == \A w \in Workers : wjob[w] = NoJob <=> wpc[w] = "idle"

TypeInv == TypeOK /\ Assigned

\* What a worker does on its own.
LEMMA WorkerType ==
  ASSUME TypeInv, NEW w \in Workers, ProcessJob(w)
  PROVE  TypeInv'
<1> USE DEF chatVars, serveVars, poolVars, workerVars, queryVars,
            originVars, instrVars, jobVars, Goto
<1> DEFINE j == wjob[w]
<1>0. /\ ChatTypeOK /\ WorkerTypeOK /\ JobTypeOK
      /\ queue \in Seq(Jobs) /\ crashed \in BOOLEAN
      /\ Assigned
      /\ wpc[w] # "idle" => j \in Jobs
  BY DEF TypeInv, TypeOK, Assigned, WorkerTypeOK
<1>1. CASE TakeJob(w)
  <2>1. Head(queue) \in Jobs /\ Tail(queue) \in Seq(Jobs)
    BY <1>0, <1>1, HeadTailProperties DEF TakeJob
  <2> QED  BY <1>0, <1>1, <2>1, WorkerAssumption
       DEF TakeJob, TypeInv, Assigned, TypeOK, ChatTypeOK, WorkerTypeOK, JobTypeOK
<1>2. CASE JobExpired(w)
  BY <1>0, <1>2 DEF JobExpired, Status, TypeInv, Assigned,
     TypeOK, ChatTypeOK, WorkerTypeOK, JobTypeOK
<1>3. CASE StartJob(w)
  BY <1>0, <1>3 DEF StartJob, TypeInv, Assigned,
     TypeOK, ChatTypeOK, WorkerTypeOK, JobTypeOK
<1>4. CASE RequestTimeout(w)
  BY <1>0, <1>4 DEF RequestTimeout, TypeInv, Assigned,
     TypeOK, ChatTypeOK, WorkerTypeOK, JobTypeOK
<1>5. CASE OpenFails(w)
  BY <1>0, <1>5 DEF OpenFails, Status, TypeInv, Assigned,
     TypeOK, ChatTypeOK, WorkerTypeOK, JobTypeOK
<1>6. CASE NextTask(w)
  <2>1. j \in Jobs
    BY <1>0, <1>6 DEF NextTask
  <2>2. progress' \in [Jobs -> Nat]
    <3>1. progress' = progress \/ progress' = [progress EXCEPT ![j] = @ + 1]
      BY <1>6 DEF NextTask
    <3>2. progress \in [Jobs -> Nat]
      BY <1>0 DEF JobTypeOK
    <3>3. progress[j] + 1 \in Nat
      BY <2>1, <3>2
    <3> QED  BY <2>1, <3>1, <3>2, <3>3
  <2>3. todo' \in [Workers -> SUBSET Peers]
    <3>1. todo' = todo \/ todo' = [todo EXCEPT ![w] = chats[j]]
      BY <1>6 DEF NextTask
    <3> QED  BY <1>0, <2>1, <3>1 DEF WorkerTypeOK, JobTypeOK
  <2>4. ChatTypeOK' /\ queue' \in Seq(Jobs) /\ crashed' \in BOOLEAN
    BY <1>0, <1>6 DEF NextTask, ChatTypeOK
  <2>5. wpc' = [wpc EXCEPT ![w] = "instruct"] \/ wpc' = [wpc EXCEPT ![w] = "closefb"]
    BY <1>6 DEF NextTask
  <2>6. WorkerTypeOK' /\ Assigned'
    BY <1>0, <2>1, <2>3, <2>5, <1>6 DEF NextTask, WorkerTypeOK, Assigned
  <2>7. JobTypeOK'
    BY <1>0, <2>2, <1>6 DEF NextTask, JobTypeOK
  <2> QED  BY <2>4, <2>6, <2>7 DEF TypeInv, TypeOK
<1>7. CASE InstructDone(w)
  BY <1>0, <1>7 DEF InstructDone, TypeInv, Assigned,
     TypeOK, ChatTypeOK, WorkerTypeOK, JobTypeOK
<1>8. CASE QueryDone(w)
  <2>1. /\ closed' \in [Jobs -> [Peers -> BOOLEAN]]
        /\ answered' \in [Jobs -> [Peers -> Nat]]
        /\ chats' \in [Jobs -> SUBSET Peers]
    BY <1>0, <1>8, RevokeType DEF QueryDone
  <2> QED  BY <1>0, <1>8, <2>1 DEF QueryDone, Status, TypeInv, Assigned,
                TypeOK, ChatTypeOK, WorkerTypeOK, JobTypeOK
<1>9. CASE FeedbackDone(w)
  BY <1>0, <1>9 DEF FeedbackDone, TypeInv, Assigned,
     TypeOK, ChatTypeOK, WorkerTypeOK, JobTypeOK
<1>10. CASE SetErr(w)
  BY <1>0, <1>10 DEF SetErr, TypeInv, Assigned,
     TypeOK, ChatTypeOK, WorkerTypeOK, JobTypeOK
<1>11. CASE CloseFeedback(w)
  <2>1. ChatTypeOK' /\ JobTypeOK' /\ queue' \in Seq(Jobs) /\ crashed' \in BOOLEAN
    BY <1>0, <1>11 DEF CloseFeedback, ChatTypeOK, JobTypeOK
  <2>2. CASE Release(w)
    BY <1>0, <2>1, <2>2, <1>11
    DEF CloseFeedback, Release, WorkerTypeOK, Status, Assigned, TypeInv, TypeOK
  <2>3. CASE Goto(w, "closechats") /\ UNCHANGED <<wjob, outcome>>
    BY <1>0, <2>1, <2>3, <1>11
    DEF CloseFeedback, WorkerTypeOK, Assigned, TypeInv, TypeOK
  <2> QED  BY <1>11, <2>2, <2>3 DEF CloseFeedback
<1>12. CASE EndJob(w)
  <2>1. /\ closed' \in [Jobs -> [Peers -> BOOLEAN]]
        /\ answered' \in [Jobs -> [Peers -> Nat]]
        /\ chats' \in [Jobs -> SUBSET Peers]
    BY <1>0, <1>12, RevokeType DEF EndJob, CloseAllChats
  <2> QED  BY <1>0, <1>12, <2>1 DEF EndJob, Release, Status, TypeInv, Assigned,
                TypeOK, ChatTypeOK, WorkerTypeOK, JobTypeOK
<1>13. CASE Panic(w)
  BY <1>0, <1>13 DEF Panic, TypeInv, Assigned,
     TypeOK, ChatTypeOK, WorkerTypeOK, JobTypeOK
<1>14. ASSUME NEW p \in Peers, ReuseChat(w, p) PROVE TypeInv'
  BY <1>0, <1>14 DEF ReuseChat, TypeInv, Assigned,
     TypeOK, ChatTypeOK, WorkerTypeOK, JobTypeOK
<1>15. ASSUME NEW p \in Peers, RequestBlocks(w, p) PROVE TypeInv'
  BY <1>0, <1>15 DEF RequestBlocks, TypeInv, Assigned,
     TypeOK, ChatTypeOK, WorkerTypeOK, JobTypeOK
<1>16. ASSUME NEW p \in Peers, RequestChat(w, p) PROVE TypeInv'
  <2>1. ChatTypeOK'
    BY <1>0, <1>16 DEF RequestChat, Handover, ChatTypeOK
  <2>2. WorkerTypeOK' /\ Assigned'
    BY <1>0, <1>16 DEF RequestChat, WorkerTypeOK, Assigned
  <2>3. JobTypeOK' /\ queue' \in Seq(Jobs) /\ crashed' \in BOOLEAN
    BY <1>0, <1>16 DEF RequestChat, JobTypeOK
  <2> QED  BY <2>1, <2>2, <2>3 DEF TypeInv, TypeOK
<1>17. ASSUME NEW p \in Peers, Instruct(w, p) PROVE TypeInv'
  <2>1. ChatTypeOK'
    BY <1>0, <1>17 DEF Instruct, ChatTypeOK, JobTypeOK, Cmd
  <2>2. WorkerTypeOK' /\ Assigned'
    BY <1>0, <1>17 DEF Instruct, WorkerTypeOK, Assigned
  <2>3. JobTypeOK' /\ queue' \in Seq(Jobs) /\ crashed' \in BOOLEAN
    BY <1>0, <1>17 DEF Instruct, JobTypeOK
  <2> QED  BY <2>1, <2>2, <2>3 DEF TypeInv, TypeOK
<1>18. ASSUME NEW p \in Peers, InstructTimeout(w, p) PROVE TypeInv'
  <2>1. ChatTypeOK' /\ JobTypeOK' /\ queue' \in Seq(Jobs) /\ crashed' \in BOOLEAN
    BY <1>0, <1>18 DEF InstructTimeout, ChatTypeOK, JobTypeOK
  <2>2. acc' \in [Workers -> SUBSET Bits]
    BY <1>0, <1>18 DEF InstructTimeout, WorkerTypeOK, STREAM_ERR, Bits
  <2>3. WorkerTypeOK' /\ Assigned'
    BY <1>0, <2>2, <1>18 DEF InstructTimeout, WorkerTypeOK, Assigned
  <2> QED  BY <2>1, <2>3 DEF TypeInv, TypeOK
<1>19. ASSUME NEW p \in Peers, PullWaits(w, p) PROVE TypeInv'
  BY <1>0, <1>19 DEF PullWaits, TypeInv, Assigned,
     TypeOK, ChatTypeOK, WorkerTypeOK, JobTypeOK
<1>20. ASSUME NEW p \in Peers, PullResult(w, p) PROVE TypeInv'
  <2>1. PICK r \in from[j][p] :
          LET errFlag == r.status \cap ALL_ERROR_CLASSES
              res     == [peer |-> p, val |-> r.val] IN
            /\ acc' = [acc EXCEPT ![w] = @ \cup errFlag]
            /\ errPeers' = IF errFlag = {} THEN errPeers
                             ELSE [errPeers EXCEPT ![w] = @ \cup {p}]
            /\ resps' = IF errFlag = {} THEN [resps EXCEPT ![w] = @ \cup {res}]
                          ELSE resps
            /\ RevokePeerChats(j, IF errFlag \cap ERR_CLASS_COMM = {} THEN {} ELSE {p})
    BY <1>20 DEF PullResult
  <2>2. j \in Jobs /\ r \in CmdResult
    BY <1>0, <1>20 DEF PullResult, ChatTypeOK
  <2>3. /\ acc' \in [Workers -> SUBSET Bits]
        /\ errPeers' \in [Workers -> SUBSET Peers]
    BY <1>0, <2>1, <2>2 DEF WorkerTypeOK, CmdResult, ALL_ERROR_CLASSES, Bits
  <2>4. resps' \in [Workers -> SUBSET PeerResult]
    BY <1>0, <2>1, <2>2 DEF WorkerTypeOK, CmdResult, PeerResult
  <2>5. /\ closed' \in [Jobs -> [Peers -> BOOLEAN]]
        /\ answered' \in [Jobs -> [Peers -> Nat]]
        /\ chats' \in [Jobs -> SUBSET Peers]
    BY <1>0, <2>1, RevokeType
  <2>6. ChatTypeOK' /\ JobTypeOK' /\ queue' \in Seq(Jobs) /\ crashed' \in BOOLEAN
    BY <1>0, <2>5, <1>20 DEF PullResult, ChatTypeOK, JobTypeOK
  <2>7. WorkerTypeOK' /\ Assigned'
    BY <1>0, <2>3, <2>4, <1>20 DEF PullResult, WorkerTypeOK, Assigned
  <2> QED  BY <2>6, <2>7 DEF TypeInv, TypeOK
<1>21. ASSUME NEW p \in Peers, PullFails(w, p) PROVE TypeInv'
  <2>1. acc' \in [Workers -> SUBSET Bits]
    BY <1>0, <1>21 DEF PullFails, WorkerTypeOK, STREAM_ERR, Bits
  <2>2. /\ closed' \in [Jobs -> [Peers -> BOOLEAN]]
        /\ answered' \in [Jobs -> [Peers -> Nat]]
        /\ chats' \in [Jobs -> SUBSET Peers]
    BY <1>0, <1>21, RevokeType DEF PullFails
  <2>3. ChatTypeOK' /\ JobTypeOK' /\ queue' \in Seq(Jobs) /\ crashed' \in BOOLEAN
    BY <1>0, <2>2, <1>21 DEF PullFails, ChatTypeOK, JobTypeOK
  <2>4. WorkerTypeOK' /\ Assigned'
    BY <1>0, <2>1, <1>21 DEF PullFails, WorkerTypeOK, Assigned
  <2> QED  BY <2>3, <2>4 DEF TypeInv, TypeOK
<1> QED
  BY <1>1, <1>2, <1>3, <1>4, <1>5, <1>6, <1>7, <1>8, <1>9, <1>10, <1>11, <1>12,
     <1>13, <1>14, <1>15, <1>16, <1>17, <1>18, <1>19, <1>20, <1>21 DEF ProcessJob
\* The originator leaves the workers alone.
LEMMA OriginatorFrame ==
  ASSUME NEW j \in Jobs, Originator(j)
  PROVE  UNCHANGED <<wpc, wjob, outcome, crashed>>
<1> USE DEF poolVars, workerVars
<1>1. ASSUME NEW S, NEW f, NEW n, NEW fl, NEW done,
             SubmitJob(j, S, f, n, fl) \/ Recycle(j, S, f, n, fl, done)
               \/ RecycleRefused(j, S, f, n)
      PROVE  UNCHANGED <<wpc, wjob, outcome, crashed>>
  BY <1>1 DEF SubmitJob, Recycle, RecycleRefused
<1>2. ASSUME NEW S, NEW f, Instruction(j, S, f)
      PROVE  UNCHANGED <<wpc, wjob, outcome, crashed>>
  BY <1>1, <1>2 DEF Instruction
<1> QED
  BY <1>2 DEF Originator, SubmitTimeout, Expire, Enqueue, EnqueueTimeout, Abort

\* The kinds of steps: chats', workers', rendezvous', originators'.
LEMMA NextCases ==
  ASSUME [Next]_vars
  PROVE  \/ ChatNext /\ UNCHANGED <<queue, crashed, workerVars, jobVars>>
         \/ \E w \in Workers : ProcessJob(w)
         \/ \E w \in Workers : \E r \in resps[w] : SendFeedback(w, r)
         \/ \E j \in Jobs : Originator(j)
         \/ UNCHANGED vars
BY DEF Next

LEMMA InitType == Init => TypeInv
<1> SUFFICES ASSUME Init PROVE TypeInv
  OBVIOUS
<1>1. ChatTypeOK
  BY DEF Init, ChatInit, ChatTypeOK
<1>2. WorkerTypeOK /\ Assigned
  BY DEF Init, WorkerTypeOK, Assigned, Status
<1>3. JobTypeOK
  BY DEF Init, JobTypeOK, Status
<1>4. queue \in Seq(Jobs) /\ crashed \in BOOLEAN
  BY EmptySeq DEF Init
<1> QED  BY <1>1, <1>2, <1>3, <1>4 DEF TypeInv, TypeOK

LEMMA NextType == TypeInv /\ [Next]_vars => TypeInv'
<1> SUFFICES ASSUME TypeInv, [Next]_vars PROVE TypeInv'
  OBVIOUS
<1>1. CASE ChatNext /\ UNCHANGED <<queue, crashed, workerVars, jobVars>>
  BY <1>1, ChatType
  DEF TypeInv, TypeOK, Assigned, WorkerTypeOK, JobTypeOK, workerVars, queryVars,
      jobVars, originVars, instrVars
<1>2. ASSUME NEW w \in Workers, ProcessJob(w) PROVE TypeInv'
  BY <1>2, WorkerType
<1>3. ASSUME NEW w \in Workers, NEW r \in resps[w], SendFeedback(w, r) PROVE TypeInv'
  BY <1>3
  DEF SendFeedback, TypeInv, TypeOK, Assigned, ChatTypeOK, WorkerTypeOK, JobTypeOK,
      chatVars, serveVars, poolVars, jobVars, originVars, instrVars
<1>4. ASSUME NEW j \in Jobs, Originator(j) PROVE TypeInv'
  BY <1>4, OriginatorType, OriginatorFrame DEF TypeInv, Assigned
<1>5. CASE UNCHANGED vars
  BY <1>5
  DEF vars, TypeInv, TypeOK, Assigned, ChatTypeOK, WorkerTypeOK, JobTypeOK, chatVars,
      serveVars, poolVars, workerVars, queryVars, jobVars, originVars, instrVars
<1> QED  BY <1>1, <1>2, <1>3, <1>4, <1>5, NextCases

\* In every reachable state each variable has its type.
THEOREM TypeCorrect == Spec => []TypeOK
<1>1. TypeInv => TypeOK
  BY DEF TypeInv
<1> QED  BY <1>1, InitType, NextType, PTL DEF Spec
-----------------------------------------------------------------------------
(* Ownership of a job *)

QueuedOnce == \A i, k \in 1..Len(queue) : queue[i] = queue[k] => i = k

\* Where a job can be: queued, driven by a worker, or with its originator, who
\* puts it into the queue only when it is new or halted.
Placed ==
  \A j \in Jobs :
    /\ ~(Queued(j) /\ Driven(j))
    /\ Queued(j) \/ Driven(j) => client[j] = "watch" /\ lastErr[j] # "Halted"
    /\ client[j] \in {"new", "enqueue"} => lastErr[j] # "Halted"

OwnInv == ExclusiveJob /\ QueuedOnce /\ Placed

\* A step that gives no worker a job and moves no job keeps the ownership.
LEMMA OwnFrame ==
  ASSUME OwnInv, UNCHANGED <<queue, client, lastErr>>,
         \A w \in Workers, j \in Jobs : Active(w, j)' => Active(w, j)
  PROVE  OwnInv'
<1>1. ExclusiveJob'
  BY DEF OwnInv, ExclusiveJob
<1>2. QueuedOnce'
  BY DEF OwnInv, QueuedOnce
<1>3. \A j \in Jobs : (Queued(j)' => Queued(j)) /\ (Driven(j)' => Driven(j))
  BY DEF Queued, Driven
<1>4. Placed'
  BY <1>3 DEF OwnInv, Placed
<1> QED  BY <1>1, <1>2, <1>4 DEF OwnInv

\* So does a step of the originator that only moves its own job.
LEMMA OwnMove ==
  ASSUME OwnInv, NEW j \in Jobs, UNCHANGED <<queue, wpc, wjob, outcome>>,
         \A i \in Jobs \ {j} : client'[i] = client[i] /\ lastErr'[i] = lastErr[i],
         Queued(j) \/ Driven(j) => client'[j] = "watch" /\ lastErr'[j] # "Halted",
         client'[j] \in {"new", "enqueue"} => lastErr'[j] # "Halted"
  PROVE  OwnInv'
<1>1. ExclusiveJob' /\ QueuedOnce'
  BY DEF OwnInv, ExclusiveJob, QueuedOnce, Active
<1>2. \A i \in Jobs : (Queued(i)' <=> Queued(i)) /\ (Driven(i)' <=> Driven(i))
  BY DEF Queued, Driven, Active
<1>3. ASSUME NEW i \in Jobs, i # j
      PROVE  /\ ~(Queued(i)' /\ Driven(i)')
             /\ Queued(i)' \/ Driven(i)' => client'[i] = "watch" /\ lastErr'[i] # "Halted"
             /\ client'[i] \in {"new", "enqueue"} => lastErr'[i] # "Halted"
  BY <1>2, <1>3 DEF OwnInv, Placed
<1>4. /\ ~(Queued(j)' /\ Driven(j)')
      /\ Queued(j)' \/ Driven(j)' => client'[j] = "watch" /\ lastErr'[j] # "Halted"
      /\ client'[j] \in {"new", "enqueue"} => lastErr'[j] # "Halted"
  BY <1>2 DEF OwnInv, Placed
<1> QED  BY <1>1, <1>3, <1>4 DEF OwnInv, Placed

\* Queueing a job that is neither queued nor driven keeps the ownership.
LEMMA OwnAppend ==
  ASSUME TypeInv, OwnInv, NEW j \in Jobs, ~Queued(j), ~Driven(j),
         queue' = Append(queue, j), client' = [client EXCEPT ![j] = "watch"],
         UNCHANGED <<lastErr, wpc, wjob, outcome>>, lastErr[j] # "Halted"
  PROVE  OwnInv'
<1>1. /\ queue \in Seq(Jobs) /\ queue' \in Seq(Jobs)
      /\ Len(queue) \in Nat /\ Len(queue') = Len(queue) + 1
      /\ \A i \in 1..Len(queue) : queue'[i] = queue[i]
      /\ queue'[Len(queue) + 1] = j
  BY AppendProperties, LenProperties DEF TypeInv, TypeOK
<1>2. ExclusiveJob'
  BY DEF OwnInv, ExclusiveJob, Active
<1>3. QueuedOnce'
  <2> SUFFICES ASSUME NEW i \in 1..Len(queue'), NEW k \in 1..Len(queue'),
                      queue'[i] = queue'[k]
               PROVE  i = k
    BY DEF QueuedOnce
  <2>1. CASE i \in 1..Len(queue) /\ k \in 1..Len(queue)
    BY <1>1, <2>1 DEF OwnInv, QueuedOnce
  <2>2. CASE i \notin 1..Len(queue) /\ k \notin 1..Len(queue)
    BY <1>1, <2>2
  <2>3. CASE i \in 1..Len(queue) /\ k \notin 1..Len(queue)
    BY <1>1, <2>3 DEF Queued
  <2>4. CASE i \notin 1..Len(queue) /\ k \in 1..Len(queue)
    BY <1>1, <2>4 DEF Queued
  <2> QED  BY <2>1, <2>2, <2>3, <2>4
<1>4. \A i \in Jobs : (Queued(i)' => Queued(i) \/ i = j) /\ (Driven(i)' => Driven(i))
  BY <1>1 DEF Queued, Driven, Active
<1>5. Placed'
  BY <1>4 DEF OwnInv, Placed, TypeInv, TypeOK, JobTypeOK
<1> QED  BY <1>2, <1>3, <1>5 DEF OwnInv

\* jobWorker takes a job: from the queue into one worker's hands.
LEMMA OwnTake ==
  ASSUME TypeInv, OwnInv, NEW w \in Workers, TakeJob(w)
  PROVE  OwnInv'
<1>0. queue \in Seq(Jobs) /\ queue # <<>>
  BY DEF TakeJob, TypeInv, TypeOK
<1> PICK j \in Jobs : j = Head(queue)
  BY <1>0, HeadTailProperties
<1>1. /\ queue \in Seq(Jobs) /\ queue # <<>> /\ queue' \in Seq(Jobs)
      /\ Len(queue) \in Nat \ {0} /\ Len(queue') = Len(queue) - 1
      /\ j = queue[1]
      /\ \A i \in 1..Len(queue') : queue'[i] = queue[i + 1]
  BY <1>0, HeadTailProperties, LenProperties, EmptySeq DEF TakeJob
<1>2. /\ wpc[w] = "idle" /\ wjob[w] = NoJob
      /\ wpc' = [wpc EXCEPT ![w] = "start"] /\ wjob' = [wjob EXCEPT ![w] = j]
      /\ UNCHANGED <<outcome, client, lastErr>>
      /\ DOMAIN wpc = Workers /\ DOMAIN wjob = Workers
  BY DEF TakeJob, Goto, TypeInv, TypeOK, WorkerTypeOK, Assigned, jobVars, originVars
<1>3. Queued(j) /\ ~Driven(j)
  BY <1>1 DEF OwnInv, Placed, Queued
<1>4. \A v \in Workers, i \in Jobs :
        Active(v, i)' <=> IF v = w THEN i = j ELSE Active(v, i)
  BY <1>1, <1>2, WorkerAssumption DEF Active
<1>5. ExclusiveJob'
  BY <1>3, <1>4 DEF OwnInv, ExclusiveJob, Driven
<1>6. QueuedOnce'
  BY <1>1 DEF OwnInv, QueuedOnce
<1>7. \A i \in Jobs : Driven(i)' => Driven(i) \/ i = j
  BY <1>4 DEF Driven
<1>8. ~Queued(j)'
  <2> SUFFICES ASSUME NEW i \in 1..Len(queue'), queue'[i] = j PROVE FALSE
    BY DEF Queued
  <2>1. queue[i + 1] = queue[1] /\ i + 1 \in 1..Len(queue) /\ 1 \in 1..Len(queue)
    BY <1>1
  <2> QED  BY <2>1 DEF OwnInv, QueuedOnce
<1>9. \A i \in Jobs : Queued(i)' => Queued(i)
  BY <1>1 DEF Queued
<1>10. Placed'
  BY <1>2, <1>3, <1>7, <1>8, <1>9 DEF OwnInv, Placed
<1> QED  BY <1>5, <1>6, <1>10 DEF OwnInv

\* haltOrAbort sets lastErr.  A worker that halts its job gives it up with that.
LEMMA OwnSetErr ==
  ASSUME TypeInv, OwnInv, NEW w \in Workers, SetErr(w)
  PROVE  OwnInv'
<1> PICK j \in Jobs : j = wjob[w]
  BY DEF SetErr, TypeInv, TypeOK, WorkerTypeOK, Assigned
<1>1. /\ Active(w, j) /\ wpc[w] = "halt"
      /\ wpc' = [wpc EXCEPT ![w] = "closefb"]
      /\ lastErr' = [lastErr EXCEPT ![j] = outcome[w]]
      /\ UNCHANGED <<queue, wjob, outcome, client>>
      /\ DOMAIN wpc = Workers /\ DOMAIN lastErr = Jobs
  BY DEF SetErr, Goto, Active, TypeInv, TypeOK, WorkerTypeOK, JobTypeOK, Assigned,
         poolVars, originVars
<1>2. \A v \in Workers, i \in Jobs :
        Active(v, i)' => Active(v, i) /\ ~(v = w /\ outcome[w] = "Halted")
  BY <1>1 DEF Active
<1>3. ExclusiveJob'
  BY <1>2 DEF OwnInv, ExclusiveJob
<1>4. QueuedOnce'
  BY <1>1 DEF OwnInv, QueuedOnce
<1>5. \A i \in Jobs : (Queued(i)' => Queued(i)) /\ (Driven(i)' => Driven(i))
  BY <1>1, <1>2 DEF Queued, Driven
<1>6. outcome[w] = "Halted" => ~Driven(j)'
  BY <1>1, <1>2 DEF OwnInv, ExclusiveJob, Driven
<1>7. Driven(j) /\ ~Queued(j) /\ client[j] = "watch"
  BY <1>1 DEF OwnInv, Placed, Driven
<1>8. Placed'
  BY <1>1, <1>5, <1>6, <1>7 DEF OwnInv, Placed
<1> QED  BY <1>3, <1>4, <1>8 DEF OwnInv

\* The other steps of a worker.
LEMMA OwnWorker ==
  ASSUME TypeInv, OwnInv, NEW w \in Workers, ProcessJob(w)
  PROVE  OwnInv'
<1> USE DEF chatVars, poolVars, workerVars, jobVars, originVars, Goto
<1> DEFINE Keeps == /\ UNCHANGED <<queue, client, lastErr>>
                    /\ \A v \in Workers, j \in Jobs : Active(v, j)' => Active(v, j)
<1>0. /\ DOMAIN wpc = Workers /\ DOMAIN wjob = Workers
      /\ DOMAIN outcome = Workers
      /\ \A v \in Workers : wpc[v] # "idle" => wjob[v] \in Jobs
  BY DEF TypeInv, TypeOK, WorkerTypeOK, Assigned
<1>1. ASSUME JobExpired(w) PROVE Keeps
  BY <1>0, <1>1 DEF JobExpired, Active
<1>2. ASSUME StartJob(w) PROVE Keeps
  BY <1>0, <1>2 DEF StartJob, Active
<1>3. ASSUME RequestTimeout(w) PROVE Keeps
  BY <1>0, <1>3 DEF RequestTimeout, Active
<1>4. ASSUME OpenFails(w) PROVE Keeps
  BY <1>0, <1>4 DEF OpenFails, Active
<1>5. ASSUME NextTask(w) PROVE Keeps
  <2>1. wpc' = [wpc EXCEPT ![w] = "instruct"] \/ wpc' = [wpc EXCEPT ![w] = "closefb"]
    BY <1>5 DEF NextTask
  <2> QED  BY <1>0, <1>5, <2>1 DEF NextTask, Active
<1>6. ASSUME InstructDone(w) PROVE Keeps
  BY <1>0, <1>6 DEF InstructDone, Active
<1>7. ASSUME QueryDone(w) PROVE Keeps
  BY <1>0, <1>7 DEF QueryDone, Active
<1>8. ASSUME FeedbackDone(w) PROVE Keeps
  BY <1>0, <1>8 DEF FeedbackDone, Active
<1>9. ASSUME EndJob(w) PROVE Keeps
  BY <1>0, <1>9, WorkerAssumption DEF EndJob, Release, Active
<1>10. ASSUME Panic(w) PROVE Keeps
  BY <1>0, <1>10 DEF Panic, Active
<1>11. ASSUME CloseFeedback(w) PROVE Keeps
  <2>1. CASE Release(w)
    BY <1>0, <1>11, <2>1, WorkerAssumption DEF CloseFeedback, Release, Active
  <2>2. CASE Goto(w, "closechats") /\ UNCHANGED <<wjob, outcome>> /\ outcome[w] # "Halted"
    BY <1>0, <1>11, <2>2 DEF CloseFeedback, Active
  <2> QED  BY <1>11, <2>1, <2>2 DEF CloseFeedback
<1>12. ASSUME NEW p \in Peers, ReuseChat(w, p) PROVE Keeps
  BY <1>0, <1>12 DEF ReuseChat, Active
<1>13. ASSUME NEW p \in Peers, RequestBlocks(w, p) PROVE Keeps
  BY <1>0, <1>13 DEF RequestBlocks, Active
<1>14. ASSUME NEW p \in Peers, RequestChat(w, p) PROVE Keeps
  BY <1>0, <1>14 DEF RequestChat, Active
<1>15. ASSUME NEW p \in Peers, Instruct(w, p) PROVE Keeps
  BY <1>0, <1>15 DEF Instruct, Active
<1>16. ASSUME NEW p \in Peers, InstructTimeout(w, p) PROVE Keeps
  BY <1>0, <1>16 DEF InstructTimeout, Active
<1>17. ASSUME NEW p \in Peers, PullWaits(w, p) PROVE Keeps
  BY <1>0, <1>17 DEF PullWaits, Active
<1>18. ASSUME NEW p \in Peers, PullResult(w, p) PROVE Keeps
  BY <1>0, <1>18 DEF PullResult, Active
<1>19. ASSUME NEW p \in Peers, PullFails(w, p) PROVE Keeps
  BY <1>0, <1>19 DEF PullFails, Active
<1>20. Keeps => OwnInv'
  BY OwnFrame
<1> HIDE DEF Keeps
<1> QED
  BY <1>1, <1>2, <1>3, <1>4, <1>5, <1>6, <1>7, <1>8, <1>9, <1>10, <1>11, <1>12, <1>13, <1>14,
     <1>15, <1>16, <1>17, <1>18, <1>19, <1>20, OwnTake, OwnSetErr DEF ProcessJob

\* The originator's steps.
LEMMA OwnOriginator ==
  ASSUME TypeInv, OwnInv, NEW j \in Jobs, Originator(j)
  PROVE  OwnInv'
<1> USE DEF poolVars, workerVars, instrVars, originVars
<1>0. /\ DOMAIN client = Jobs /\ DOMAIN lastErr = Jobs
      /\ Queued(j) \/ Driven(j) => client[j] = "watch" /\ lastErr[j] # "Halted"
      /\ client[j] \in {"new", "enqueue"} => lastErr[j] # "Halted"
  BY DEF OwnInv, Placed, TypeInv, TypeOK, JobTypeOK
<1>1. CASE SubmitTimeout(j)
  BY <1>0, <1>1, OwnMove DEF SubmitTimeout
<1>2. CASE Expire(j)
  BY <1>0, <1>2, OwnMove DEF Expire
<1>3. CASE Enqueue(j)
  BY <1>0, <1>3, OwnAppend DEF Enqueue
<1>4. CASE EnqueueTimeout(j)
  BY <1>0, <1>4, OwnMove DEF EnqueueTimeout
<1>5. CASE Abort(j)
  BY <1>0, <1>5, OwnMove DEF Abort, isJobHalted
<1>6. ASSUME NEW S, NEW f, NEW n, NEW fl, SubmitJob(j, S, f, n, fl)
      PROVE  OwnInv'
  BY <1>0, <1>6, OwnAppend DEF SubmitJob
<1>7. ASSUME NEW S, NEW f, NEW n, NEW fl, NEW done, Recycle(j, S, f, n, fl, done)
      PROVE  OwnInv'
  BY <1>0, <1>7, OwnMove DEF Recycle, isJobHalted
<1>8. ASSUME NEW S, NEW f, NEW T, RecycleRefused(j, S, f, T)
      PROVE  OwnInv'
  BY <1>0, <1>8, OwnMove DEF RecycleRefused
<1>9. ASSUME NEW S, NEW f, Instruction(j, S, f)
      PROVE  OwnInv'
  BY <1>6, <1>7, <1>8, <1>9 DEF Instruction
<1> QED
  BY <1>1, <1>2, <1>3, <1>4, <1>5, <1>9 DEF Originator

LEMMA InitOwn == Init => OwnInv
<1> SUFFICES ASSUME Init PROVE OwnInv
  OBVIOUS
<1>1. \A w \in Workers, j \in Jobs : ~Active(w, j)
  BY WorkerAssumption DEF Init, Active
<1>2. \A j \in Jobs : ~Queued(j)
  BY DEF Init, Queued
<1> QED
  BY <1>1, <1>2 DEF Init, OwnInv, ExclusiveJob, QueuedOnce, Placed, Driven

LEMMA NextOwn == TypeInv /\ OwnInv /\ [Next]_vars => OwnInv'
<1> SUFFICES ASSUME TypeInv, OwnInv, [Next]_vars PROVE OwnInv'
  OBVIOUS
<1>1. CASE ChatNext /\ UNCHANGED <<queue, crashed, workerVars, jobVars>>
  BY <1>1, OwnFrame DEF workerVars, jobVars, originVars, Active
<1>2. ASSUME NEW w \in Workers, ProcessJob(w) PROVE OwnInv'
  BY <1>2, OwnWorker
<1>3. ASSUME NEW w \in Workers, NEW r \in resps[w], SendFeedback(w, r) PROVE OwnInv'
  BY <1>3, OwnFrame DEF SendFeedback, poolVars, jobVars, originVars, Active
<1>4. ASSUME NEW j \in Jobs, Originator(j) PROVE OwnInv'
  BY <1>4, OwnOriginator
<1>5. CASE UNCHANGED vars
  BY <1>5, OwnFrame DEF vars, poolVars, workerVars, jobVars, originVars, Active
<1> QED  BY <1>1, <1>2, <1>3, <1>4, <1>5, NextCases

\* However many workers there are, no two of them ever drive the chats of one
\* job: a job that is rescheduled while its last worker still closes the feedback
\* channel is safe to hand to another.
THEOREM JobsAreExclusive == Spec => []ExclusiveJob
<1>1. Init => TypeInv /\ OwnInv
  BY InitType, InitOwn
<1>2. TypeInv /\ OwnInv /\ [Next]_vars => TypeInv' /\ OwnInv'
  BY NextType, NextOwn
<1>3. OwnInv => ExclusiveJob
  BY DEF OwnInv
<1> QED  BY <1>1, <1>2, <1>3, PTL DEF Spec

=============================================================================
