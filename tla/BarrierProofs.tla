--------------------------- MODULE BarrierProofs ---------------------------
(* The barrier between the phases of a job, for all values of the constants. *)
EXTENDS ChatProofs

-----------------------------------------------------------------------------
(* The inductive invariant *)

\* Chats are opened in the first phase only.
EarlyOK ==
  \A j \in Jobs :
    /\ client[j] = "new" => progress[j] = 0
    /\ Prepared(j) /\ progress[j] > 0 => parts[j] \subseteq chats[j]

\* A peer has answered every phase before the current one, and the current one too
\* once an answer of it without an error is on its way to the worker.
AnsweredOK(j, p) ==
  p \in chats[j] =>
    /\ answered[j][p] >= progress[j]
    /\ \A r \in from[j][p] :
         r.status \cap ALL_ERROR_CLASSES = {} => answered[j][p] > r.phase

\* So has every peer whose answer worker w has collected without error.
CollectedOK(w) ==
  LET j == wjob[w] IN
  /\ wpc[w] \in {"pull", "wait"} =>
       \A p \in chats[j] :
         p \in todo[w] \cup cur[w] \cup errPeers[w] \/ answered[j][p] > progress[j]
  /\ wpc[w] = "feedback" /\ outcome[w] = "nil" =>
       \A p \in chats[j] : answered[j][p] > progress[j]

BarrierInv ==
  /\ EarlyOK
  /\ \A j \in Jobs, p \in Peers : AnsweredOK(j, p)
  /\ \A w \in Workers : CollectedOK(w)

-----------------------------------------------------------------------------
(* What the steps of a worker leave alone *)

\* The step concerns only the locals of the worker.
Still == UNCHANGED <<chatVars, chats, progress, client, instrVars>>

\* The other workers' locals, all that matter here, are as before.
OthersSame(w) ==
  \A v \in Workers : v # w =>
    /\ wpc'[v] = wpc[v] /\ wjob'[v] = wjob[v] /\ todo'[v] = todo[v]
    /\ cur'[v] = cur[v] /\ errPeers'[v] = errPeers[v] /\ outcome'[v] = outcome[v]

\* The history of a chat lasts until the chat is closed.
HistoryLasts ==
  \A j \in Jobs : \A p \in chats'[j] : answered'[j][p] = answered[j][p]

LEMMA RevokeHistory ==
  ASSUME TypeInv, NEW j \in Jobs, NEW S, RevokePeerChats(j, S)
  PROVE  HistoryLasts
BY DEF HistoryLasts, RevokePeerChats, Close, TypeInv, TypeOK, ChatTypeOK, JobTypeOK

LEMMA StillStep ==
  ASSUME NEW w \in Workers, ProcessJob(w)
  PROVE  \/ Still
         \/ NextTask(w) \/ QueryDone(w) \/ EndJob(w)
         \/ \E p \in Peers : \/ RequestChat(w, p) \/ Instruct(w, p)
                             \/ PullResult(w, p) \/ PullFails(w, p)
<1> USE DEF Still, poolVars, queryVars, jobVars, originVars, instrVars
<1>1. TakeJob(w) => Still
  BY DEF TakeJob
<1>2. JobExpired(w) => Still
  BY DEF JobExpired
<1>3. StartJob(w) => Still
  BY DEF StartJob
<1>4. RequestTimeout(w) => Still
  BY DEF RequestTimeout
<1>5. OpenFails(w) => Still
  BY DEF OpenFails
<1>6. InstructDone(w) => Still
  BY DEF InstructDone
<1>7. FeedbackDone(w) => Still
  BY DEF FeedbackDone
<1>8. SetErr(w) => Still
  BY DEF SetErr
<1>9. CloseFeedback(w) => Still
  BY DEF CloseFeedback
<1>10. Panic(w) => Still
  BY DEF Panic
<1>11. \A p \in Peers : ReuseChat(w, p) => Still
  BY DEF ReuseChat
<1>12. \A p \in Peers : RequestBlocks(w, p) => Still
  BY DEF RequestBlocks
<1>13. \A p \in Peers : InstructTimeout(w, p) => Still
  BY DEF InstructTimeout
<1>14. \A p \in Peers : PullWaits(w, p) => Still
  BY DEF PullWaits
<1> HIDE DEF Still
<1> QED
  BY <1>1, <1>2, <1>3, <1>4, <1>5, <1>6, <1>7, <1>8,
     <1>9, <1>10, <1>11, <1>12, <1>13, <1>14 DEF ProcessJob

LEMMA OthersStep ==
  ASSUME TypeInv, NEW w \in Workers, ProcessJob(w)
  PROVE  OthersSame(w)
<1> USE DEF OthersSame, Goto, workerVars, queryVars
<1>0. /\ DOMAIN wpc = Workers /\ DOMAIN wjob = Workers /\ DOMAIN todo = Workers
      /\ DOMAIN cur = Workers /\ DOMAIN errPeers = Workers /\ DOMAIN outcome = Workers
  BY DEF TypeInv, TypeOK, WorkerTypeOK
<1>1. TakeJob(w) => OthersSame(w)
  BY <1>0 DEF TakeJob
<1>2. JobExpired(w) => OthersSame(w)
  BY <1>0 DEF JobExpired
<1>3. StartJob(w) => OthersSame(w)
  BY <1>0 DEF StartJob
<1>4. RequestTimeout(w) => OthersSame(w)
  BY <1>0 DEF RequestTimeout
<1>5. OpenFails(w) => OthersSame(w)
  BY <1>0 DEF OpenFails
<1>6. InstructDone(w) => OthersSame(w)
  BY <1>0 DEF InstructDone
<1>7. FeedbackDone(w) => OthersSame(w)
  BY <1>0 DEF FeedbackDone
<1>8. SetErr(w) => OthersSame(w)
  BY <1>0 DEF SetErr
<1>9. CloseFeedback(w) => OthersSame(w)
  BY <1>0 DEF CloseFeedback, Release
<1>10. Panic(w) => OthersSame(w)
  BY <1>0 DEF Panic
<1>11. NextTask(w) => OthersSame(w)
  BY <1>0 DEF NextTask
<1>12. QueryDone(w) => OthersSame(w)
  BY <1>0 DEF QueryDone
<1>13. EndJob(w) => OthersSame(w)
  BY <1>0 DEF EndJob, Release
<1>14. \A p \in Peers : ReuseChat(w, p) => OthersSame(w)
  BY <1>0 DEF ReuseChat
<1>15. \A p \in Peers : RequestBlocks(w, p) => OthersSame(w)
  BY <1>0 DEF RequestBlocks
<1>16. \A p \in Peers : InstructTimeout(w, p) => OthersSame(w)
  BY <1>0 DEF InstructTimeout
<1>17. \A p \in Peers : PullWaits(w, p) => OthersSame(w)
  BY <1>0 DEF PullWaits
<1>18. \A p \in Peers : RequestChat(w, p) => OthersSame(w)
  BY <1>0 DEF RequestChat
<1>19. \A p \in Peers : Instruct(w, p) => OthersSame(w)
  BY <1>0 DEF Instruct
<1>20. \A p \in Peers : PullResult(w, p) => OthersSame(w)
  BY <1>0 DEF PullResult
<1>21. \A p \in Peers : PullFails(w, p) => OthersSame(w)
  BY <1>0 DEF PullFails
<1> HIDE DEF OthersSame
<1> QED
  BY <1>1, <1>2, <1>3, <1>4, <1>5, <1>6, <1>7, <1>8,
     <1>9, <1>10, <1>11, <1>12, <1>13, <1>14, <1>15,
     <1>16, <1>17, <1>18, <1>19, <1>20, <1>21 DEF ProcessJob

\* Who opens no chats has no prepared job.
LEMMA NotPrepared ==
  ASSUME OwnInv, NEW w \in Workers, NEW j \in Jobs, Active(w, j),
         wpc[w] \notin {"start", "open", "request"}
  PROVE  ~Prepared(j)
<1>1. client[j] = "watch" /\ ~Queued(j)
  BY DEF OwnInv, Placed, Driven
<1>2. ASSUME NEW v \in Workers, wjob[v] = j
      PROVE  wpc[v] \notin {"start", "open", "request"}
  BY <1>2 DEF OwnInv, ExclusiveJob, Active
<1> QED  BY <1>1, <1>2 DEF Prepared

\* A worker prepares no job but the one it takes from the queue.
LEMMA PreparedStep ==
  ASSUME TypeInv, ChatInv, NEW w \in Workers, ProcessJob(w)
  PROVE  \A j \in Jobs : Prepared(j)' => Prepared(j)
<1> USE DEF Goto, workerVars, queryVars, poolVars, jobVars, originVars
<1> DEFINE Starting == {"start", "open", "request"}
           Stays == /\ UNCHANGED <<queue, client>>
                    /\ wpc'[w] \in Starting => wpc[w] \in Starting /\ wjob'[w] = wjob[w]
<1>0. DOMAIN wpc = Workers /\ DOMAIN wjob = Workers
  BY DEF TypeInv, TypeOK, WorkerTypeOK
<1>1. JobExpired(w) => Stays
  BY <1>0 DEF JobExpired
<1>2. StartJob(w) => Stays
  BY <1>0 DEF StartJob
<1>3. RequestTimeout(w) => Stays
  BY <1>0 DEF RequestTimeout
<1>4. OpenFails(w) => Stays
  BY <1>0 DEF OpenFails
<1>5. InstructDone(w) => Stays
  BY <1>0 DEF InstructDone
<1>6. FeedbackDone(w) => Stays
  BY <1>0 DEF FeedbackDone
<1>7. SetErr(w) => Stays
  BY <1>0 DEF SetErr
<1>8. CloseFeedback(w) => Stays
  BY <1>0 DEF CloseFeedback, Release
<1>9. Panic(w) => Stays
  BY <1>0 DEF Panic
<1>10. NextTask(w) => Stays
  BY <1>0 DEF NextTask
<1>11. QueryDone(w) => Stays
  BY <1>0 DEF QueryDone
<1>12. EndJob(w) => Stays
  BY <1>0 DEF EndJob, Release
<1>13. \A p \in Peers : ReuseChat(w, p) => Stays
  BY <1>0 DEF ReuseChat
<1>14. \A p \in Peers : RequestBlocks(w, p) => Stays
  BY <1>0 DEF RequestBlocks
<1>15. \A p \in Peers : InstructTimeout(w, p) => Stays
  BY <1>0 DEF InstructTimeout
<1>16. \A p \in Peers : PullWaits(w, p) => Stays
  BY <1>0 DEF PullWaits
<1>17. \A p \in Peers : RequestChat(w, p) => Stays
  BY <1>0 DEF RequestChat
<1>18. \A p \in Peers : Instruct(w, p) => Stays
  BY <1>0 DEF Instruct
<1>19. \A p \in Peers : PullResult(w, p) => Stays
  BY <1>0 DEF PullResult
<1>20. \A p \in Peers : PullFails(w, p) => Stays
  BY <1>0 DEF PullFails
<1>21. SameWorkers(w)
  BY OthersStep DEF OthersSame, SameWorkers
<1>22. ASSUME Stays PROVE \A j \in Jobs : Prepared(j)' => Prepared(j)
  BY <1>21, <1>22, PreparedFrame
<1> HIDE DEF Stays
<1> QED
  BY <1>1, <1>2, <1>3, <1>4, <1>5, <1>6, <1>7, <1>8,
     <1>9, <1>10, <1>11, <1>12, <1>13, <1>14, <1>15,
     <1>16, <1>17, <1>18, <1>19, <1>20, <1>22, TakeEffect DEF ProcessJob

\* What a step that collects an answer, or ends a query or a job, does to the chats.
LEMMA RevokeStep ==
  ASSUME TypeInv, NEW w \in Workers,
         \/ \E p \in Peers : PullResult(w, p) \/ PullFails(w, p)
         \/ QueryDone(w) \/ EndJob(w)
  PROVE  /\ wjob[w] \in Jobs /\ Active(w, wjob[w])
         /\ wpc[w] \notin {"start", "open", "request"}
         /\ UNCHANGED <<to, serveVars, progress, client, instrVars>>
         /\ \A j \in Jobs : /\ chats'[j] \subseteq chats[j]
                            /\ j # wjob[w] => chats'[j] = chats[j]
                            /\ \A p \in Peers : from'[j][p] \subseteq from[j][p]
         /\ HistoryLasts
<1> USE DEF originVars
<1>1. wjob[w] \in Jobs /\ Active(w, wjob[w]) /\ wpc[w] \in {"pull", "wait", "closechats"}
  BY DEF PullResult, PullFails, QueryDone, EndJob, Active,
         TypeInv, TypeOK, WorkerTypeOK, Assigned
<1>2. UNCHANGED <<to, serveVars, progress, client, instrVars>>
  BY DEF PullResult, PullFails, QueryDone, EndJob
<1>3. PICK S : RevokePeerChats(wjob[w], S)
  BY DEF PullResult, PullFails, QueryDone, EndJob, CloseAllChats
<1>4. \A j \in Jobs : chats'[j] \subseteq chats[j] /\ (j # wjob[w] => chats'[j] = chats[j])
  BY <1>1, <1>3, RevokeEffect
<1>5. \A j \in Jobs, p \in Peers : from'[j][p] \subseteq from[j][p]
  <2>1. from' = from \/ \E p \in Peers : from' = [from EXCEPT ![wjob[w]][p] = {}]
    BY DEF PullResult, PullFails, QueryDone, EndJob
  <2>2. ASSUME NEW q \in Peers, from' = [from EXCEPT ![wjob[w]][q] = {}],
               NEW j \in Jobs, NEW p \in Peers
        PROVE  from'[j][p] \subseteq from[j][p]
    BY <1>1, <2>2 DEF TypeInv, TypeOK, ChatTypeOK
  <2> QED  BY <2>1, <2>2
<1> QED  BY <1>1, <1>2, <1>3, <1>4, <1>5, RevokeHistory

\* What the originators do to the chats.
LEMMA OriginStep ==
  ASSUME TypeInv, NEW j \in Jobs, Originator(j)
  PROVE  /\ UNCHANGED <<serveVars, to, from, progress, workerVars>>
         /\ \A i \in Jobs : chats'[i] \subseteq chats[i]
         /\ HistoryLasts \/ Enqueue(j)
<1> USE DEF originVars, instrVars, chatVars
<1>1. CASE SubmitTimeout(j) \/ Expire(j) \/ Enqueue(j) \/ EnqueueTimeout(j)
  BY <1>1 DEF SubmitTimeout, Expire, Enqueue, EnqueueTimeout, HistoryLasts
<1>2. CASE Abort(j)
  BY <1>2, RevokeEffect, RevokeHistory DEF Abort, CloseAllChats, poolVars
<1>3. ASSUME NEW S, NEW f, Instruction(j, S, f)
      PROVE  /\ UNCHANGED <<serveVars, to, from, progress, workerVars>>
             /\ \A i \in Jobs : chats'[i] \subseteq chats[i]
             /\ HistoryLasts
  <2>1. ASSUME NEW n, NEW fl, SubmitJob(j, S, f, n, fl)
        PROVE  UNCHANGED <<serveVars, to, from, progress, workerVars, chats, answered>>
    BY <2>1 DEF SubmitJob
  <2>2. ASSUME NEW T, RecycleRefused(j, S, f, T)
        PROVE  UNCHANGED <<serveVars, to, from, progress, workerVars, chats, answered>>
    BY <2>2 DEF RecycleRefused
  <2>3. ASSUME NEW n, NEW fl, NEW done, Recycle(j, S, f, n, fl, done)
        PROVE  /\ UNCHANGED <<serveVars, to, from, progress, workerVars>>
               /\ \A i \in Jobs : chats'[i] \subseteq chats[i]
               /\ HistoryLasts
    BY <2>3, RevokeEffect, RevokeHistory DEF Recycle
  <2> QED  BY <1>3, <2>1, <2>2, <2>3 DEF Instruction, HistoryLasts
<1> QED  BY <1>1, <1>2, <1>3 DEF Originator

-----------------------------------------------------------------------------
(* Chats are opened early *)

LEMMA EarlyFrame ==
  ASSUME EarlyOK, UNCHANGED parts,
         \A j \in Jobs :
           /\ client'[j] = "new" => client[j] = "new" /\ progress'[j] = progress[j]
           /\ Prepared(j)' => /\ Prepared(j) /\ progress'[j] = progress[j]
                              /\ chats[j] \subseteq chats'[j]
  PROVE  EarlyOK'
BY DEF EarlyOK

LEMMA EarlyWorker ==
  ASSUME TypeInv, OwnInv, ChatInv, EarlyOK, NEW w \in Workers, ProcessJob(w)
  PROVE  EarlyOK'
<1> USE DEF serveVars, chatVars, jobVars, originVars, instrVars
<1>0. /\ JobTypeOK /\ (wpc[w] # "idle" => wjob[w] \in Jobs)
      /\ \A j \in Jobs : Prepared(j)' => Prepared(j)
  BY PreparedStep DEF TypeInv, TypeOK, WorkerTypeOK, Assigned
<1>1. CASE Still
  BY <1>0, <1>1, EarlyFrame DEF Still
<1>2. CASE NextTask(w)
  <2>1. /\ UNCHANGED <<parts, client, chats>> /\ wjob[w] \in Jobs
        /\ \A i \in Jobs : i # wjob[w] => progress'[i] = progress[i]
        /\ Active(w, wjob[w]) /\ wpc[w] \in {"open", "feedback"}
        /\ wpc[w] = "open" => progress' = progress
    BY <1>0, <1>2 DEF NextTask, Active, JobTypeOK
  <2>2. client[wjob[w]] = "watch"
    BY <2>1 DEF OwnInv, Placed, Driven
  <2>3. wpc[w] = "feedback" => ~Prepared(wjob[w])
    BY <2>1, NotPrepared
  <2> QED  BY <1>0, <2>1, <2>2, <2>3, EarlyFrame
<1>3. ASSUME NEW p \in Peers, RequestChat(w, p) PROVE EarlyOK'
  <2>1. /\ UNCHANGED <<parts, client, progress>>
        /\ \A i \in Jobs : chats[i] \subseteq chats'[i]
    BY <1>0, <1>3 DEF RequestChat, JobTypeOK
  <2> QED  BY <1>0, <2>1, EarlyFrame
<1>4. ASSUME NEW p \in Peers, Instruct(w, p) PROVE EarlyOK'
  BY <1>0, <1>4, EarlyFrame DEF Instruct
<1>5. CASE \/ \E p \in Peers : PullResult(w, p) \/ PullFails(w, p)
           \/ QueryDone(w) \/ EndJob(w)
  <2>1. ~Prepared(wjob[w])
    BY <1>5, RevokeStep, NotPrepared
  <2> QED  BY <1>0, <1>5, <2>1, RevokeStep, EarlyFrame
<1> QED  BY <1>1, <1>2, <1>3, <1>4, <1>5, StillStep

LEMMA EarlyOriginator ==
  ASSUME TypeInv, OwnInv, ChatInv, EarlyOK, NEW j \in Jobs, Originator(j)
  PROVE  EarlyOK'
<1> USE DEF serveVars, chatVars, workerVars, queryVars, instrVars, originVars, poolVars
<1>0. JobTypeOK
  BY DEF TypeInv, TypeOK
<1>1. UNCHANGED <<progress, wpc, wjob>>
  BY OriginStep
<1>2. CASE SubmitTimeout(j) \/ Expire(j) \/ EnqueueTimeout(j)
  <2>1. /\ UNCHANGED <<parts, chats, queue>>
        /\ \A i \in Jobs : /\ client'[i] = "new" => client[i] = "new"
                           /\ client'[i] = "enqueue" => client[i] = "enqueue"
    BY <1>0, <1>2 DEF SubmitTimeout, Expire, EnqueueTimeout, JobTypeOK
  <2>2. \A i \in Jobs : Prepared(i)' => Prepared(i)
    BY <1>1, <2>1 DEF Prepared, Queued
  <2> QED  BY <1>1, <2>1, <2>2, EarlyFrame
<1>3. CASE Enqueue(j)
  <2>1. /\ UNCHANGED <<parts, chats>> /\ client[j] = "enqueue"
        /\ \A i \in Jobs : /\ client'[i] = "new" => client[i] = "new"
                           /\ client'[i] = "enqueue" => client[i] = "enqueue"
    BY <1>0, <1>3 DEF Enqueue, JobTypeOK
  <2>2. \A i \in Jobs : Queued(i)' => Queued(i) \/ i = j
    BY <1>3, QueuedAppend DEF Enqueue
  <2>3. \A i \in Jobs : Prepared(i)' => Prepared(i)
    BY <1>1, <2>1, <2>2 DEF Prepared
  <2> QED  BY <1>1, <2>1, <2>3, EarlyFrame
<1>4. CASE Abort(j)
  <2>1. UNCHANGED <<parts, client, queue>> /\ \A i \in Jobs : i # j => chats'[i] = chats[i]
    BY <1>4, RevokeEffect DEF Abort, CloseAllChats
  <2>2. \A i \in Jobs : Prepared(i)' => Prepared(i)
    BY <1>1, <2>1 DEF Prepared, Queued
  <2>3. ~Prepared(j)
    BY <1>4 DEF Abort, isJobHalted, OwnInv, Placed, Prepared, Driven, Active
  <2> QED  BY <1>1, <2>1, <2>2, <2>3, EarlyFrame
<1>5. ASSUME NEW S, NEW f, NEW n, NEW fl, SubmitJob(j, S, f, n, fl) PROVE EarlyOK'
  <2>1. /\ client[j] = "new" /\ UNCHANGED chats
        /\ \A i \in Jobs : i # j => client'[i] = client[i] /\ parts'[i] = parts[i]
        /\ client'[j] = "watch"
    BY <1>0, <1>5 DEF SubmitJob, JobTypeOK
  <2>2. \A i \in Jobs : Queued(i)' => Queued(i) \/ i = j
    BY <1>5, QueuedAppend DEF SubmitJob
  <2>3. \A i \in Jobs : i # j => (Prepared(i)' => Prepared(i))
    BY <1>1, <2>1, <2>2 DEF Prepared
  <2>4. ~ progress[j] > 0
    BY <2>1 DEF EarlyOK
  <2> QED  BY <1>1, <2>1, <2>3, <2>4 DEF EarlyOK
<1>6. ASSUME NEW S, NEW f, NEW T, RecycleRefused(j, S, f, T) PROVE EarlyOK'
  BY <1>1, <1>6, EarlyFrame DEF RecycleRefused, Prepared, Queued
<1>7. ASSUME NEW S, NEW f, NEW n, NEW fl, NEW done, Recycle(j, S, f, n, fl, done)
      PROVE  EarlyOK'
  <2>1. /\ S \subseteq chats[j] /\ UNCHANGED queue
        /\ \A i \in Jobs : i # j => client'[i] = client[i] /\ parts'[i] = parts[i]
        /\ client'[j] = "enqueue" /\ parts'[j] = S
    BY <1>0, <1>7 DEF Recycle, JobTypeOK
  <2>2. chats[j] \ parts[j] = {}
    BY <1>7 DEF Recycle, ChatInv, FreshOK
  <2>3. \A i \in Jobs : chats'[i] = chats[i]
    <3>1. RevokePeerChats(j, {})
      BY <1>7, <2>2 DEF Recycle
    <3>2. /\ \A i \in Jobs : i # j => chats'[i] = chats[i]
          /\ chats'[j] = chats[j] \ {}
      BY <3>1, RevokeEffect
    <3> QED  BY <3>2
  <2>4. \A i \in Jobs : i # j => (Prepared(i)' => Prepared(i))
    BY <1>1, <2>1 DEF Prepared, Queued
  <2> QED  BY <1>1, <2>1, <2>3, <2>4 DEF EarlyOK
<1>8. ASSUME NEW S, NEW f, Instruction(j, S, f) PROVE EarlyOK'
  BY <1>5, <1>6, <1>7, <1>8 DEF Instruction
<1> QED  BY <1>2, <1>3, <1>4, <1>8 DEF Originator

-----------------------------------------------------------------------------
(* What the peers have answered *)

LEMMA HistoryFrame ==
  ASSUME TypeInv, \A j \in Jobs, p \in Peers : AnsweredOK(j, p),
         progress' = progress, HistoryLasts,
         \A j \in Jobs : /\ chats'[j] \subseteq chats[j]
                         /\ \A p \in Peers : from'[j][p] \subseteq from[j][p]
  PROVE  \A j \in Jobs, p \in Peers : AnsweredOK(j, p)'
BY DEF AnsweredOK, HistoryLasts

LEMMA CollectedFrame ==
  ASSUME TypeInv, NEW w \in Workers, CollectedOK(w),
         wpc'[w] = wpc[w], wjob'[w] = wjob[w], todo'[w] = todo[w], cur'[w] = cur[w],
         errPeers'[w] = errPeers[w], outcome'[w] = outcome[w],
         wjob[w] \in Jobs /\ wpc[w] \in {"pull", "wait", "feedback"} =>
           \A p \in chats'[wjob[w]] :
             /\ p \in chats[wjob[w]]
             /\ answered[wjob[w]][p] > progress[wjob[w]] =>
                  answered'[wjob[w]][p] > progress'[wjob[w]]
  PROVE  CollectedOK(w)'
<1>1. wpc[w] # "idle" => wjob[w] \in Jobs
  BY DEF TypeInv, TypeOK, WorkerTypeOK, Assigned
<1> QED  BY <1>1 DEF CollectedOK

\* A handler that forwards an answer of a chat the job still has counts it: the
\* answer is of the current phase.
LEMMA BarrierHandler ==
  ASSUME TypeInv, ChatInv, Lockstep, BarrierInv, ChatNext,
         UNCHANGED <<queue, crashed, workerVars, jobVars>>
  PROVE  /\ \A j \in Jobs, p \in Peers : AnsweredOK(j, p)'
         /\ \A w \in Workers : CollectedOK(w)'
<1> USE DEF jobVars, workerVars, queryVars
<1>0. ChatTypeOK /\ JobTypeOK
  BY DEF TypeInv, TypeOK
<1> DEFINE Same(j, p) == /\ from'[j][p] \subseteq from[j][p]
                         /\ answered'[j][p] = answered[j][p]
           Fine(j, p) == /\ AnsweredOK(j, p)'
                         /\ p \in chats[j] /\ answered[j][p] > progress[j] =>
                              answered'[j][p] > progress[j]
<1>1. ASSUME NEW p \in Peers, AwaitSMCRound(p) \/ LeaveSMCRound(p)
      PROVE  \A i \in Jobs, q \in Peers : Same(i, q)
  BY <1>1 DEF AwaitSMCRound, LeaveSMCRound
<1>2. ASSUME NEW j \in Jobs, NEW p \in Peers, ChatLoop(j, p) \/ LoseStream(j, p)
      PROVE  \A i \in Jobs, q \in Peers : Same(i, q) \/ Fine(i, q)
  <2> DEFINE Elsewhere == \A i \in Jobs, q \in Peers : i # j \/ q # p => Same(i, q)
  <2>1. CASE \/ TakeInstruction(j, p) \/ SendToPeer(j, p) \/ SendFails(j, p)
             \/ LoseStream(j, p)
    BY <2>1 DEF TakeInstruction, SendToPeer, SendFails, LoseStream
  <2>2. CASE EndChat(j, p)
    BY <1>0, <2>2 DEF EndChat, ChatTypeOK
  <2>3. CASE ForwardLoss(j, p)
    <3>1. Elsewhere /\ UNCHANGED <<answered>>
      BY <1>0, <2>3 DEF ForwardLoss, ChatTypeOK
    <3>2. \A r \in from'[j][p] : r.status = STREAM_ERR
      BY <1>0, <2>3 DEF ForwardLoss, ChatTypeOK
    <3>3. STREAM_ERR \cap ALL_ERROR_CLASSES # {}
      BY DEF STREAM_ERR, ALL_ERROR_CLASSES
    <3>4. Fine(j, p)
      BY <3>1, <3>2, <3>3 DEF BarrierInv, AnsweredOK
    <3> QED  BY <3>1, <3>4
  <2>4. CASE ForwardResult(j, p)
    <3>1. PICK c \in relay[j][p], s \in Answers, v \in Vals :
            /\ from' = [from EXCEPT ![j][p] =
                 {[phase |-> c.phase, round |-> c.round, status |-> s,
                   val |-> IF s \cap ALL_ERROR_CLASSES = {} THEN {v} ELSE {}]}]
            /\ answered' = IF s \cap ALL_ERROR_CLASSES = {} /\ ~closed[j][p]
                             THEN [answered EXCEPT ![j][p] = c.phase + 1] ELSE answered
      BY <2>4 DEF ForwardResult
    <3>2. c \in Cmd
      BY <1>0 DEF ChatTypeOK
    <3>3. Elsewhere
      BY <1>0, <3>1 DEF ChatTypeOK
    <3>4. \A r \in from'[j][p] : r.phase = c.phase /\ r.status = s
      BY <1>0, <3>1 DEF ChatTypeOK
    <3>5. /\ ~closed[j][p] <=> p \in chats[j]
          /\ p \in chats[j] => c.phase = progress[j]
      BY <1>0, <2>4 DEF ForwardResult, Lockstep, ChatInv, ShapeOK
    <3>6. /\ AnsweredOK(j, p)
          /\ answered[j][p] \in Nat /\ c.phase \in Nat /\ progress[j] \in Nat
          /\ UNCHANGED <<chats, progress>>
      BY <1>0, <3>2 DEF BarrierInv, ChatTypeOK, JobTypeOK, Cmd
    <3>7. ASSUME s \cap ALL_ERROR_CLASSES = {}, ~closed[j][p] PROVE Fine(j, p)
      <4>1. answered'[j][p] = c.phase + 1
        BY <1>0, <3>1, <3>7 DEF ChatTypeOK
      <4>2. AnsweredOK(j, p)'
        BY <3>4, <3>5, <3>6, <4>1 DEF AnsweredOK
      <4> QED  BY <3>5, <3>6, <3>7, <4>1, <4>2
    <3>8. ASSUME ~(s \cap ALL_ERROR_CLASSES = {} /\ ~closed[j][p]) PROVE Fine(j, p)
      <4>1. answered' = answered
        BY <3>1, <3>8
      <4>2. AnsweredOK(j, p)'
        BY <3>4, <3>5, <3>6, <3>8, <4>1 DEF AnsweredOK
      <4> QED  BY <4>1, <4>2
    <3> QED  BY <3>3, <3>7, <3>8
  <2> HIDE DEF Fine, Same
  <2> QED  BY <1>2, <2>1, <2>2, <2>3, <2>4 DEF ChatLoop
<1>3. \A j \in Jobs, p \in Peers : Same(j, p) \/ Fine(j, p)
  <2> HIDE DEF Same, Fine
  <2> QED  BY <1>1, <1>2 DEF ChatNext
<1>4. ASSUME NEW j \in Jobs, NEW p \in Peers PROVE Fine(j, p)
  <2>1. AnsweredOK(j, p)
    BY DEF BarrierInv
  <2>2. CASE Same(j, p)
    BY <2>1, <2>2 DEF AnsweredOK
  <2> QED  BY <1>3, <2>2
<1>5. ASSUME NEW w \in Workers PROVE CollectedOK(w)'
  <2>1. /\ wjob[w] \in Jobs => chats'[wjob[w]] \subseteq Peers
        /\ UNCHANGED <<wpc, wjob, todo, cur, errPeers, outcome, chats, progress>>
    BY <1>0 DEF JobTypeOK
  <2>2. CollectedOK(w)
    BY DEF BarrierInv
  <2> QED  BY <1>4, <2>1, <2>2, CollectedFrame
<1> QED  BY <1>4, <1>5

\* Only the next phase and a new chat need a look at what the peers answered.
LEMMA HistoryWorker ==
  ASSUME TypeInv, OwnInv, ChatInv, BarrierInv, NEW w \in Workers, ProcessJob(w)
  PROVE  /\ \A j \in Jobs, p \in Peers : AnsweredOK(j, p)'
         /\ \A j \in Jobs : j # wjob[w] =>
              chats'[j] \subseteq chats[j] /\ progress'[j] = progress[j]
         /\ HistoryLasts
<1> USE DEF serveVars, chatVars, jobVars, originVars, instrVars, HistoryLasts
<1> DEFINE AllFine == \A j \in Jobs, p \in Peers : AnsweredOK(j, p)
           OthersFine == \A j \in Jobs : j # wjob[w] =>
                           chats'[j] \subseteq chats[j] /\ progress'[j] = progress[j]
<1>0. /\ ChatTypeOK /\ JobTypeOK /\ (wpc[w] # "idle" => wjob[w] \in Jobs) /\ AllFine
  BY DEF TypeInv, TypeOK, WorkerTypeOK, Assigned, BarrierInv
<1>1. CASE Still
  BY <1>0, <1>1, HistoryFrame DEF Still
<1>2. CASE NextTask(w)
  <2>1. /\ UNCHANGED <<chats, from, answered>> /\ wjob[w] \in Jobs
        /\ \A i \in Jobs : i # wjob[w] => progress'[i] = progress[i]
        /\ progress' # progress => /\ wpc[w] = "feedback" /\ outcome[w] = "nil"
                                   /\ progress'[wjob[w]] = progress[wjob[w]] + 1
    BY <1>0, <1>2 DEF NextTask, JobTypeOK
  <2>2. HistoryLasts /\ OthersFine
    BY <2>1
  <2>3. CASE progress' = progress
    BY <1>0, <2>1, <2>2, <2>3, HistoryFrame
  <2>4. CASE progress' # progress
    <3>1. \A p \in chats[wjob[w]] : answered[wjob[w]][p] > progress[wjob[w]]
      BY <2>1, <2>4 DEF BarrierInv, CollectedOK
    <3>2. ASSUME NEW i \in Jobs, NEW p \in Peers PROVE AnsweredOK(i, p)'
      <4>1. answered[i][p] \in Nat /\ progress[i] \in Nat
        BY <1>0 DEF ChatTypeOK, JobTypeOK
      <4> QED  BY <1>0, <2>1, <2>4, <3>1, <4>1 DEF AnsweredOK
    <3> QED  BY <2>2, <3>2
  <2> QED  BY <2>3, <2>4
<1>3. ASSUME NEW p \in Peers, RequestChat(w, p) PROVE AllFine' /\ OthersFine /\ HistoryLasts
  <2>1. PICK j \in Jobs : j = wjob[w]
    BY <1>0, <1>3 DEF RequestChat
  <2>2. /\ UNCHANGED <<progress, answered>> /\ from'[j][p] = {}
        /\ \A i \in Jobs, q \in Peers : i # j \/ q # p =>
             from'[i][q] = from[i][q] /\ (q \in chats'[i] => q \in chats[i])
        /\ \A i \in Jobs : i # j => chats'[i] = chats[i]
    BY <1>0, <1>3, <2>1 DEF RequestChat, Handover, ChatTypeOK, JobTypeOK
  <2>3. p \in parts[j] /\ p \notin chats[j] /\ Prepared(j)
    BY <1>3, <2>1 DEF RequestChat, ChatInv, LocalOK, Prepared
  <2>4. progress[j] \in Nat /\ answered[j][p] \in Nat /\ ~ progress[j] > 0
    BY <1>0, <2>3 DEF BarrierInv, EarlyOK, JobTypeOK, ChatTypeOK
  <2>5. AnsweredOK(j, p)'
    BY <1>0, <2>2, <2>4 DEF AnsweredOK
  <2>6. \A i \in Jobs, q \in Peers : i # j \/ q # p => AnsweredOK(i, q)'
    BY <1>0, <2>2 DEF AnsweredOK
  <2> QED  BY <2>1, <2>2, <2>5, <2>6
<1>4. ASSUME NEW p \in Peers, Instruct(w, p)
      PROVE  UNCHANGED <<progress, answered, from, chats>>
  BY <1>4 DEF Instruct
<1>5. CASE \E p \in Peers : Instruct(w, p)
  BY <1>0, <1>4, <1>5, HistoryFrame
<1>6. CASE \/ \E p \in Peers : PullResult(w, p) \/ PullFails(w, p)
           \/ QueryDone(w) \/ EndJob(w)
  BY <1>0, <1>6, RevokeStep, HistoryFrame
<1> QED  BY <1>1, <1>2, <1>3, <1>5, <1>6, StillStep DEF Still

-----------------------------------------------------------------------------
(* Whose answer was collected *)

\* After most steps the worker does not stand where it collects answers.
LEMMA AwayStep ==
  ASSUME TypeInv, NEW w \in Workers, ProcessJob(w)
  PROVE  \/ wpc'[w] \notin {"pull", "wait", "feedback"}
         \/ InstructDone(w) \/ QueryDone(w) \/ Panic(w)
         \/ \E p \in Peers : PullWaits(w, p) \/ PullResult(w, p) \/ PullFails(w, p)
<1> USE DEF Goto, workerVars, queryVars
<1> DEFINE Away == wpc'[w] \notin {"pull", "wait", "feedback"}
<1>0. DOMAIN wpc = Workers
  BY DEF TypeInv, TypeOK, WorkerTypeOK
<1>1. TakeJob(w) => Away
  BY <1>0 DEF TakeJob
<1>2. JobExpired(w) => Away
  BY <1>0 DEF JobExpired
<1>3. StartJob(w) => Away
  BY <1>0 DEF StartJob
<1>4. RequestTimeout(w) => Away
  BY <1>0 DEF RequestTimeout
<1>5. OpenFails(w) => Away
  BY <1>0 DEF OpenFails
<1>6. FeedbackDone(w) => Away
  BY <1>0 DEF FeedbackDone
<1>7. SetErr(w) => Away
  BY <1>0 DEF SetErr
<1>8. CloseFeedback(w) => Away
  BY <1>0 DEF CloseFeedback, Release
<1>9. NextTask(w) => Away
  BY <1>0 DEF NextTask
<1>10. EndJob(w) => Away
  BY <1>0 DEF EndJob, Release
<1>11. \A p \in Peers : ReuseChat(w, p) => Away
  BY <1>0 DEF ReuseChat
<1>12. \A p \in Peers : RequestBlocks(w, p) => Away
  BY <1>0 DEF RequestBlocks
<1>13. \A p \in Peers : RequestChat(w, p) => Away
  BY <1>0 DEF RequestChat
<1>14. \A p \in Peers : Instruct(w, p) => Away
  BY <1>0 DEF Instruct
<1>15. \A p \in Peers : InstructTimeout(w, p) => Away
  BY <1>0 DEF InstructTimeout
<1> HIDE DEF Away
<1> QED
  BY <1>1, <1>2, <1>3, <1>4, <1>5, <1>6, <1>7, <1>8,
     <1>9, <1>10, <1>11, <1>12, <1>13, <1>14, <1>15 DEF ProcessJob, Away

\* The answer a worker collects is the answer to the current phase.
LEMMA CollectedOwn ==
  ASSUME TypeInv, OwnInv, ChatInv, Lockstep, BarrierInv, NEW w \in Workers, ProcessJob(w)
  PROVE  CollectedOK(w)'
<1> USE DEF Goto, chatVars, serveVars, workerVars, queryVars, jobVars
<1>0. /\ ChatTypeOK /\ WorkerTypeOK /\ JobTypeOK /\ LocalOK(w) /\ CollectedOK(w)
      /\ (wpc[w] # "idle" => wjob[w] \in Jobs)
  BY DEF TypeInv, TypeOK, WorkerTypeOK, Assigned, ChatInv, BarrierInv
<1>1. CASE wpc'[w] \notin {"pull", "wait", "feedback"}
  BY <1>1 DEF CollectedOK
<1>2. CASE InstructDone(w)
  <2>1. wpc'[w] = "pull" /\ wjob' = wjob /\ todo'[w] = chats[wjob[w]] /\ chats' = chats
    BY <1>0, <1>2 DEF InstructDone, WorkerTypeOK
  <2> QED  BY <2>1 DEF CollectedOK
<1>3. CASE Panic(w)
  BY <1>0, <1>3 DEF Panic, CollectedOK
<1>4. ASSUME NEW p \in Peers, PullWaits(w, p) PROVE CollectedOK(w)'
  <2>1. /\ wpc[w] = "pull" /\ wpc'[w] = "wait" /\ wjob' = wjob /\ chats' = chats
        /\ todo'[w] = todo[w] \ {p} /\ cur'[w] = {p} /\ errPeers' = errPeers
        /\ UNCHANGED <<answered, progress>>
    BY <1>0, <1>4 DEF PullWaits, WorkerTypeOK
  <2>2. cur[w] = {}
    BY <1>0, <2>1 DEF LocalOK
  <2> QED  BY <1>0, <2>1, <2>2 DEF CollectedOK
<1>5. ASSUME NEW p \in Peers, PullResult(w, p) \/ PullFails(w, p) PROVE CollectedOK(w)'
  <2>1. /\ wpc[w] \in {"pull", "wait"} /\ wpc'[w] = "pull" /\ wjob' = wjob
        /\ todo'[w] = todo[w] \ {p} /\ cur'[w] = {} /\ p \in todo[w] \cup cur[w]
    BY <1>0, <1>5 DEF PullResult, PullFails, WorkerTypeOK
  <2>2. /\ wjob[w] \in Jobs /\ chats'[wjob[w]] \subseteq chats[wjob[w]]
        /\ progress' = progress
        /\ \A q \in chats'[wjob[w]] : answered'[wjob[w]][q] = answered[wjob[w]][q]
    <3>1. /\ wjob[w] \in Jobs /\ chats'[wjob[w]] \subseteq chats[wjob[w]]
          /\ progress' = progress /\ HistoryLasts
      BY <1>5, RevokeStep
    <3>2. chats[wjob[w]] \subseteq Peers
      BY <1>0, <3>1 DEF JobTypeOK
    <3> QED  BY <3>1, <3>2 DEF HistoryLasts
  <2>3. cur[w] \subseteq {p} /\ p \in chats[wjob[w]]
    BY <1>0, <1>5, <2>1 DEF PullResult, PullFails, LocalOK
  <2>4. errPeers[w] \subseteq errPeers'[w]
    BY <1>0, <1>5 DEF PullResult, PullFails, WorkerTypeOK
  <2>5. p \in errPeers'[w] \/ answered[wjob[w]][p] > progress[wjob[w]]
    <3>1. CASE PullFails(w, p)
      BY <1>0, <3>1 DEF PullFails, WorkerTypeOK
    <3>2. CASE PullResult(w, p)
      <4>1. PICK r \in from[wjob[w]][p] :
              errPeers' = IF r.status \cap ALL_ERROR_CLASSES = {} THEN errPeers
                            ELSE [errPeers EXCEPT ![w] = @ \cup {p}]
        BY <3>2 DEF PullResult
      <4>2. CASE r.status \cap ALL_ERROR_CLASSES = {}
        <5>1. AnsweredOK(wjob[w], p) /\ r.phase = progress[wjob[w]]
          BY <2>2, <2>3 DEF BarrierInv, Lockstep
        <5> QED  BY <2>3, <4>2, <5>1 DEF AnsweredOK
      <4>3. CASE r.status \cap ALL_ERROR_CLASSES # {}
        BY <1>0, <4>1, <4>3 DEF WorkerTypeOK
      <4> QED  BY <4>2, <4>3
    <3> QED  BY <1>5, <3>1, <3>2
  <2> QED  BY <1>0, <2>1, <2>2, <2>3, <2>4, <2>5 DEF CollectedOK
<1>6. CASE QueryDone(w)
  <2>1. /\ wpc[w] = "pull" /\ wpc'[w] = "feedback" /\ wjob' = wjob /\ todo[w] = {}
        /\ outcome'[w] = "nil" => errPeers[w] = {}
    BY <1>0, <1>6 DEF QueryDone, WorkerTypeOK
  <2>2. /\ wjob[w] \in Jobs /\ chats'[wjob[w]] \subseteq chats[wjob[w]]
        /\ progress' = progress /\ HistoryLasts
    BY <1>6, RevokeStep
  <2>3. chats[wjob[w]] \subseteq Peers /\ cur[w] = {}
    BY <1>0, <2>1, <2>2 DEF JobTypeOK, LocalOK
  <2>4. \A q \in chats'[wjob[w]] : answered'[wjob[w]][q] = answered[wjob[w]][q]
    BY <2>2, <2>3 DEF HistoryLasts
  <2> QED  BY <1>0, <2>1, <2>2, <2>3, <2>4 DEF CollectedOK
<1> QED  BY <1>1, <1>2, <1>3, <1>4, <1>5, <1>6, AwayStep

LEMMA BarrierWorker ==
  ASSUME TypeInv, OwnInv, ChatInv, Lockstep, BarrierInv, NEW w \in Workers, ProcessJob(w)
  PROVE  BarrierInv'
<1>1. EarlyOK'
  BY EarlyWorker DEF BarrierInv
<1>2. CollectedOK(w)'
  BY CollectedOwn
<1>3. Still \/ Active(w, wjob[w])
  <2>1. \/ NextTask(w)
        \/ \E p \in Peers : RequestChat(w, p) \/ Instruct(w, p)
        => Active(w, wjob[w])
    BY DEF NextTask, RequestChat, Instruct, Active
  <2> QED  BY <2>1, StillStep, RevokeStep
<1>4. ASSUME NEW v \in Workers, v # w PROVE CollectedOK(v)'
  <2>1. /\ wpc'[v] = wpc[v] /\ wjob'[v] = wjob[v] /\ todo'[v] = todo[v]
        /\ cur'[v] = cur[v] /\ errPeers'[v] = errPeers[v] /\ outcome'[v] = outcome[v]
    BY <1>4, OthersStep DEF OthersSame
  <2>2. ASSUME wjob[v] \in Jobs, wpc[v] \in {"pull", "wait", "feedback"}
        PROVE  /\ chats'[wjob[v]] \subseteq chats[wjob[v]]
               /\ progress'[wjob[v]] = progress[wjob[v]]
               /\ \A p \in chats'[wjob[v]] :
                    answered'[wjob[v]][p] = answered[wjob[v]][p]
    <3>1. Active(v, wjob[v])
      BY <2>2 DEF Active
    <3>2. Still \/ wjob[v] # wjob[w]
      BY <1>3, <1>4, <2>2, <3>1 DEF OwnInv, ExclusiveJob
    <3>3. /\ chats'[wjob[v]] \subseteq chats[wjob[v]]
          /\ progress'[wjob[v]] = progress[wjob[v]]
      BY <2>2, <3>2, HistoryWorker DEF Still
    <3>4. chats[wjob[v]] \subseteq Peers
      BY <2>2 DEF TypeInv, TypeOK, JobTypeOK
    <3> QED  BY <2>2, <3>3, <3>4, HistoryWorker DEF HistoryLasts
  <2>3. CollectedOK(v)
    BY DEF BarrierInv
  <2> QED  BY <2>1, <2>2, <2>3, CollectedFrame
<1> QED  BY <1>1, <1>2, <1>4, HistoryWorker DEF BarrierInv

\* A step that concerns none of the above.
LEMMA BarrierFrame ==
  ASSUME TypeInv, BarrierInv,
         UNCHANGED <<relay, to, from, answered, chats, progress, client, chanID,
                     parts, queue, wpc, wjob, todo, cur, errPeers, outcome>>
  PROVE  BarrierInv'
BY DEF BarrierInv, EarlyOK, Prepared, Queued, AnsweredOK, CollectedOK

\* A queued reschedule leaves the answers to the phases before, and no other answer
\* is in a chat of the job.
LEMMA BarrierEnqueue ==
  ASSUME TypeInv, OwnInv, ChatInv, BarrierInv, NEW j \in Jobs, Enqueue(j)
  PROVE  /\ \A i \in Jobs, p \in Peers : AnsweredOK(i, p)'
         /\ \A w \in Workers : CollectedOK(w)'
<1>0. ChatTypeOK /\ JobTypeOK
  BY DEF TypeInv, TypeOK
<1>1. /\ UNCHANGED <<from, progress, chats, workerVars>>
      /\ \A i \in Jobs : i # j => answered'[i] = answered[i]
      /\ \A p \in Peers : answered'[j][p] =
           IF answered[j][p] > progress[j] THEN progress[j] ELSE answered[j][p]
  BY <1>0 DEF Enqueue, ChatTypeOK
<1>2. \A w \in Workers : ~Active(w, j)
  BY DEF Enqueue, OwnInv, Placed, Driven
<1>3. \A p \in Peers : p \in chats[j] => from[j][p] = {}
  BY <1>2 DEF ChatInv, RestOK, Quiet, Asked, AskedBy, Active
<1>4. ASSUME NEW i \in Jobs, NEW p \in Peers PROVE AnsweredOK(i, p)'
  <2>1. AnsweredOK(i, p)
    BY DEF BarrierInv
  <2>2. CASE i # j
    BY <1>1, <2>1, <2>2 DEF AnsweredOK
  <2>3. CASE i = j
    <3>1. answered[j][p] \in Nat /\ progress[j] \in Nat
      BY <1>0 DEF ChatTypeOK, JobTypeOK
    <3> QED  BY <1>1, <1>3, <2>1, <2>3, <3>1 DEF AnsweredOK
  <2> QED  BY <2>2, <2>3
<1>5. ASSUME NEW w \in Workers PROVE CollectedOK(w)'
  <2>1. wpc[w] \in {"pull", "wait", "feedback"} => wjob[w] # j
    BY <1>2 DEF Active
  <2> QED
    BY <1>1, <2>1, CollectedFrame DEF BarrierInv, workerVars, queryVars
<1> QED  BY <1>4, <1>5

LEMMA BarrierOriginator ==
  ASSUME TypeInv, OwnInv, ChatInv, BarrierInv, NEW j \in Jobs, Originator(j)
  PROVE  BarrierInv'
<1> USE DEF serveVars, workerVars, queryVars
<1>1. EarlyOK'
  BY EarlyOriginator DEF BarrierInv
<1>2. /\ UNCHANGED <<serveVars, to, from, progress, workerVars>>
      /\ \A i \in Jobs : chats'[i] \subseteq chats[i]
  BY OriginStep
<1>3. ASSUME HistoryLasts
      PROVE  /\ \A i \in Jobs, p \in Peers : AnsweredOK(i, p)'
             /\ \A w \in Workers : CollectedOK(w)'
  <2>1. \A i \in Jobs, p \in Peers : AnsweredOK(i, p)'
    BY <1>2, <1>3, HistoryFrame DEF BarrierInv
  <2>2. ASSUME NEW w \in Workers PROVE CollectedOK(w)'
    <3>1. ASSUME wjob[w] \in Jobs, NEW p \in chats'[wjob[w]]
          PROVE  p \in chats[wjob[w]] /\ answered'[wjob[w]][p] = answered[wjob[w]][p]
      BY <1>2, <1>3, <3>1 DEF HistoryLasts
    <3> QED  BY <1>2, <3>1, CollectedFrame DEF BarrierInv
  <2> QED  BY <2>1, <2>2
<1> QED  BY <1>1, <1>3, OriginStep, BarrierEnqueue DEF BarrierInv

-----------------------------------------------------------------------------
(* The theorem *)

LEMMA InitBarrier == Init => BarrierInv
<1> SUFFICES ASSUME Init PROVE BarrierInv
  OBVIOUS
<1>1. EarlyOK
  BY DEF Init, EarlyOK
<1>2. \A j \in Jobs, p \in Peers : AnsweredOK(j, p)
  BY DEF Init, ChatInit, AnsweredOK
<1>3. \A w \in Workers : CollectedOK(w)
  BY DEF Init, CollectedOK
<1> QED  BY <1>1, <1>2, <1>3 DEF BarrierInv

LEMMA NextBarrier ==
  TypeInv /\ OwnInv /\ ChatInv /\ Lockstep /\ BarrierInv /\ [Next]_vars => BarrierInv'
<1> SUFFICES ASSUME TypeInv, OwnInv, ChatInv, Lockstep, BarrierInv, [Next]_vars
             PROVE  BarrierInv'
  OBVIOUS
<1>1. CASE ChatNext /\ UNCHANGED <<queue, crashed, workerVars, jobVars>>
  <2>1. UNCHANGED <<parts, chats, chanID, client, progress, queue, wpc, wjob>>
    BY <1>1 DEF workerVars, jobVars, originVars, instrVars
  <2>3. \A j \in Jobs : Prepared(j)' => Prepared(j)
    BY <2>1 DEF Prepared, Queued
  <2>4. EarlyOK'
    BY <2>1, <2>3, EarlyFrame DEF BarrierInv
  <2> QED  BY <1>1, <2>4, BarrierHandler DEF BarrierInv
<1>2. ASSUME NEW w \in Workers, ProcessJob(w) PROVE BarrierInv'
  BY <1>2, BarrierWorker
<1>3. ASSUME NEW w \in Workers, NEW r \in resps[w], SendFeedback(w, r) PROVE BarrierInv'
  BY <1>3, BarrierFrame
  DEF SendFeedback, chatVars, serveVars, poolVars, jobVars, originVars, instrVars
<1>4. ASSUME NEW j \in Jobs, Originator(j) PROVE BarrierInv'
  BY <1>4, BarrierOriginator
<1>5. CASE UNCHANGED vars
  BY <1>5, BarrierFrame
  DEF vars, chatVars, serveVars, poolVars, workerVars, queryVars, jobVars, originVars,
      instrVars
<1> QED  BY <1>1, <1>2, <1>3, <1>4, <1>5, NextCases

\* When a peer is asked for a phase, every peer the job still talks to has answered
\* all the phases before without an error, the one that was halted anew.
THEOREM PhasesAreBarriers == Spec => []PhaseBarrier
<1>1. TypeInv /\ Lockstep /\ BarrierInv => PhaseBarrier
  <2> SUFFICES ASSUME TypeInv, Lockstep, BarrierInv,
                      NEW j \in Jobs, NEW p \in chats[j], NEW q \in chats[j],
                      NEW c \in to[j][p] \cup relay[j][p]
               PROVE  answered[j][q] >= c.phase
    BY DEF PhaseBarrier
  <2>1. c.phase = progress[j] /\ q \in Peers
    BY DEF Lockstep, TypeInv, TypeOK, JobTypeOK
  <2> QED  BY <2>1 DEF BarrierInv, AnsweredOK
<1>2. Init => TypeInv /\ OwnInv /\ ChatInv /\ BarrierInv
  BY InitType, InitOwn, InitChat, InitBarrier
<1>3. TypeInv /\ OwnInv /\ ChatInv /\ Lockstep /\ BarrierInv /\ [Next]_vars
      => TypeInv' /\ OwnInv' /\ ChatInv' /\ BarrierInv'
  BY NextType, NextOwn, NextChat, NextBarrier
<1> QED  BY <1>1, <1>2, <1>3, PhasesDoNotMix, PTL DEF Spec

============================================================================
