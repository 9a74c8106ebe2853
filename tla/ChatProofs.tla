---------------------------- MODULE ChatProofs ----------------------------
(* Theorems about the chats of module Worker, for all values of its constants. *)
EXTENDS WorkerProofs

-----------------------------------------------------------------------------
(* The inductive invariant *)

\* A chat and its handler: at most one of command, relayed command and answer is
\* there, and the job knows the chat exactly while it is open.
ShapeOK(j, p) ==
  /\ handler[j][p] = "none" => to[j][p] = {} /\ from[j][p] = {} /\ p \notin chats[j]
  /\ to[j][p] # {} => handler[j][p] = "await" /\ from[j][p] = {}
  /\ handler[j][p] \in {"send", "recv"} => from[j][p] = {}
  /\ relay[j][p] # {} => handler[j][p] \in {"send", "recv"}
  /\ handler[j][p] = "gone" => \A r \in from[j][p] : r.status = STREAM_ERR
  /\ handler[j][p] # "none" => (closed[j][p] <=> p \notin chats[j])

\* The local variables of a worker: it visits participants, then open chats.
LocalOK(w) ==
  /\ wpc[w] \notin {"open", "request", "instruct", "pull", "wait"} => todo[w] = {}
  /\ wpc[w] \notin {"request", "wait"} => cur[w] = {}
  /\ \A p, q \in cur[w] : p = q
  /\ wpc[w] \in {"open", "request"} => todo[w] \cup cur[w] \subseteq parts[wjob[w]]
  /\ wpc[w] = "request" => cur[w] \cap chats[wjob[w]] = {}
  /\ wpc[w] \in {"instruct", "pull", "wait"} =>
       todo[w] \cup cur[w] \subseteq chats[wjob[w]]

\* Job j has an instruction whose chats are not all open yet.
Prepared(j) ==
  \/ client[j] = "enqueue" \/ Queued(j)
  \/ \E w \in Workers : wjob[w] = j /\ wpc[w] \in {"start", "open", "request"}

\* Where a chat is still to be opened, none was opened before.
FreshOK(j) ==
  /\ client[j] \in {"new", "refused"} =>
       round[j] = 0 /\ \A p \in Peers : handler[j][p] = "none"
  /\ round[j] = 0 => chats[j] \subseteq parts[j]
  /\ Prepared(j) =>
       \A p \in Peers : p \in parts[j] => p \in chats[j] \/ handler[j][p] = "none"

\* Worker w may have asked peer p and has not collected its answer.
AskedBy(w, p) ==
  \/ wpc[w] = "instruct" /\ p \notin todo[w]
  \/ wpc[w] \in {"pull", "wait"} /\ p \in todo[w] \cup cur[w]

Asked(j, p) == \E w \in Workers : wjob[w] = j /\ AskedBy(w, p)

\* A chat that the job knows is at rest unless its peer was asked.
RestOK(j, p) == p \in chats[j] => Quiet(j, p) \/ Asked(j, p)

ChatInv ==
  /\ \A j \in Jobs, p \in Peers : ShapeOK(j, p) /\ RestOK(j, p)
  /\ \A w \in Workers : LocalOK(w)
  /\ \A j \in Jobs : FreshOK(j)

\* The cells of chat (j, p) are as before.
SameChat(j, p) ==
  /\ to'[j][p] = to[j][p] /\ from'[j][p] = from[j][p] /\ closed'[j][p] = closed[j][p]
  /\ handler'[j][p] = handler[j][p] /\ relay'[j][p] = relay[j][p]

-----------------------------------------------------------------------------
(* Steps of the stream handlers *)

\* A step of one handler keeps the invariant if its chat keeps its shape and a
\* chat at rest is left alone.
LEMMA HandlerFrame ==
  ASSUME ChatInv, NEW j \in Jobs, NEW p \in Peers,
         UNCHANGED <<queue, client, round, parts, chats, wpc, wjob, todo, cur>>,
         \A i \in Jobs, q \in Peers : i # j \/ q # p => SameChat(i, q),
         ShapeOK(j, p)',
         p \in chats[j] /\ Quiet(j, p) => Quiet(j, p)',
         handler[j][p] = "none" => handler'[j][p] = "none"
  PROVE  ChatInv'
<1>1. ASSUME NEW i \in Jobs, NEW q \in Peers PROVE ShapeOK(i, q)'
  <2>1. CASE i # j \/ q # p
    BY <2>1 DEF ChatInv, ShapeOK, SameChat
  <2> QED  BY <2>1
<1>2. \A i \in Jobs, q \in Peers : Asked(i, q)' <=> Asked(i, q)
  BY DEF Asked, AskedBy
<1>3. ASSUME NEW i \in Jobs, NEW q \in Peers PROVE RestOK(i, q)'
  <2>1. CASE i # j \/ q # p
    BY <1>2, <2>1 DEF ChatInv, RestOK, Quiet, SameChat
  <2> QED  BY <1>2, <2>1 DEF ChatInv, RestOK
<1>4. \A w \in Workers : LocalOK(w)'
  BY DEF ChatInv, LocalOK
<1>5. \A i \in Jobs : Prepared(i)' <=> Prepared(i)
  BY DEF Prepared, Queued
<1>6. \A i \in Jobs, q \in Peers : handler[i][q] = "none" => handler'[i][q] = "none"
  BY DEF SameChat
<1>7. ASSUME NEW i \in Jobs PROVE FreshOK(i)'
  BY <1>5, <1>6 DEF ChatInv, FreshOK
<1> QED  BY <1>1, <1>3, <1>4, <1>7 DEF ChatInv

\* The steps of the handlers, and what happens to the streams.
LEMMA HandlerStep ==
  ASSUME TypeInv, ChatInv, ChatNext,
         UNCHANGED <<queue, client, round, parts, chats, wpc, wjob, todo, cur>>
  PROVE  ChatInv'
<1>0. ChatTypeOK
  BY DEF TypeInv, TypeOK
<1>1. ASSUME NEW p \in Peers, AwaitSMCRound(p) \/ LeaveSMCRound(p) PROVE ChatInv'
  BY <1>1
  DEF AwaitSMCRound, LeaveSMCRound, ChatInv, ShapeOK, LocalOK, FreshOK, RestOK,
      Quiet, Asked, AskedBy, Prepared, Queued
<1>2. ASSUME NEW j \in Jobs, NEW p \in Peers, ChatLoop(j, p) \/ LoseStream(j, p)
      PROVE  ChatInv'
  <2> DEFINE Others == \A i \in Jobs, q \in Peers : i # j \/ q # p => SameChat(i, q)
             Kept == /\ ShapeOK(j, p)'
                     /\ p \in chats[j] /\ Quiet(j, p) => Quiet(j, p)'
                     /\ handler[j][p] = "none" => handler'[j][p] = "none"
  <2>0. ShapeOK(j, p)
    BY DEF ChatInv
  <2>1. CASE TakeInstruction(j, p)
    <3>1. Others
      BY <1>0, <2>1 DEF TakeInstruction, SameChat, ChatTypeOK
    <3>2. Kept
      BY <1>0, <2>0, <2>1 DEF TakeInstruction, ShapeOK, Quiet, ChatTypeOK
    <3> QED  BY <3>1, <3>2, HandlerFrame
  <2>2. CASE EndChat(j, p)
    <3>1. Others
      BY <1>0, <2>2 DEF EndChat, SameChat, ChatTypeOK
    <3>2. Kept
      BY <1>0, <2>0, <2>2 DEF EndChat, ShapeOK, Quiet, ChatTypeOK
    <3> QED  BY <3>1, <3>2, HandlerFrame
  <2>3. CASE SendToPeer(j, p)
    <3>1. Others
      BY <1>0, <2>3 DEF SendToPeer, SameChat, ChatTypeOK
    <3>2. Kept
      BY <1>0, <2>0, <2>3 DEF SendToPeer, ShapeOK, Quiet, ChatTypeOK
    <3> QED  BY <3>1, <3>2, HandlerFrame
  <2>4. CASE SendFails(j, p)
    <3>1. Others
      BY <1>0, <2>4 DEF SendFails, SameChat, ChatTypeOK
    <3>2. Kept
      BY <1>0, <2>0, <2>4 DEF SendFails, ShapeOK, Quiet, ChatTypeOK
    <3> QED  BY <3>1, <3>2, HandlerFrame
  <2>5. CASE ForwardResult(j, p)
    <3>1. Others
      BY <1>0, <2>5 DEF ForwardResult, SameChat, ChatTypeOK
    <3>2. Kept
      BY <1>0, <2>0, <2>5 DEF ForwardResult, ShapeOK, Quiet, ChatTypeOK
    <3> QED  BY <3>1, <3>2, HandlerFrame
  <2>6. CASE ForwardLoss(j, p)
    <3>1. Others
      BY <1>0, <2>6 DEF ForwardLoss, SameChat, ChatTypeOK
    <3>2. Kept
      BY <1>0, <2>0, <2>6 DEF ForwardLoss, ShapeOK, Quiet, ChatTypeOK
    <3> QED  BY <3>1, <3>2, HandlerFrame
  <2>7. CASE LoseStream(j, p)
    BY <2>0, <2>7, HandlerFrame DEF LoseStream, SameChat, ShapeOK, Quiet
  <2> QED
    BY <1>2, <2>1, <2>2, <2>3, <2>4, <2>5, <2>6, <2>7 DEF ChatLoop
<1> QED  BY <1>1, <1>2 DEF ChatNext
-----------------------------------------------------------------------------
(* Steps of a worker *)

\* The other workers' locals are as before.
SameWorkers(w) ==
  \A v \in Workers : v # w => /\ wpc'[v] = wpc[v] /\ wjob'[v] = wjob[v]
                              /\ todo'[v] = todo[v] /\ cur'[v] = cur[v]

\* The other workers' locals, and the chats of all jobs but j, are as before.
SameElsewhere(w, j) ==
  /\ SameWorkers(w)
  /\ \A i \in Jobs : i # j =>
       chats'[i] = chats[i] /\ \A p \in Peers : SameChat(i, p)

\* Only its own driver has asked the peers of a job.
LEMMA AskedByDriver ==
  ASSUME OwnInv, NEW w \in Workers, NEW j \in Jobs, Active(w, j)
  PROVE  \A p : Asked(j, p) => AskedBy(w, p)
BY DEF OwnInv, ExclusiveJob, Active, Asked, AskedBy

\* A step of the driver of job j keeps the invariant if it keeps the parts that
\* speak of j and of the driver.
LEMMA DriverFrame ==
  ASSUME TypeInv, OwnInv, ChatInv,
         NEW w \in Workers, NEW j \in Jobs, Active(w, j), wjob'[w] \in {j, NoJob},
         UNCHANGED <<queue, client, round, parts>>, SameElsewhere(w, j),
         LocalOK(w)', FreshOK(j)',
         \A p \in Peers : ShapeOK(j, p)' /\ RestOK(j, p)'
  PROVE  ChatInv'
<1>1. ASSUME NEW v \in Workers PROVE LocalOK(v)'
  <2>1. CASE v # w /\ wjob[v] = j
    <3>1. wpc[v] = "closefb"
      BY <2>1 DEF OwnInv, ExclusiveJob, Active
    <3>2. wpc'[v] = "closefb" /\ todo'[v] = todo[v] /\ cur'[v] = cur[v]
      BY <2>1, <3>1 DEF SameElsewhere, SameWorkers
    <3>3. LocalOK(v)
      BY DEF ChatInv
    <3> QED  BY <3>1, <3>2, <3>3 DEF LocalOK
  <2>2. CASE v # w /\ wjob[v] # j
    <3>1. /\ wpc'[v] = wpc[v] /\ wjob'[v] = wjob[v]
          /\ todo'[v] = todo[v] /\ cur'[v] = cur[v]
      BY <2>2 DEF SameElsewhere, SameWorkers
    <3>2. wpc[v] = "idle" \/ chats'[wjob[v]] = chats[wjob[v]]
      BY <2>2 DEF SameElsewhere, SameWorkers, TypeInv, TypeOK, WorkerTypeOK, Assigned
    <3>3. LocalOK(v)
      BY DEF ChatInv
    <3> QED  BY <3>1, <3>2, <3>3 DEF LocalOK
  <2> QED  BY <2>1, <2>2
<1>2. ASSUME NEW i \in Jobs, i # j PROVE Prepared(i)' => Prepared(i)
  <2>1. wjob'[w] # i
    BY <1>2, WorkerAssumption
  <2> QED  BY <1>2, <2>1 DEF Prepared, Queued, SameElsewhere, SameWorkers
<1>3. ASSUME NEW i \in Jobs PROVE FreshOK(i)'
  <2>1. CASE i # j
    BY <1>2, <2>1 DEF ChatInv, FreshOK, SameElsewhere, SameChat
  <2> QED  BY <2>1
<1>4. ASSUME NEW i \in Jobs, NEW p \in Peers PROVE ShapeOK(i, p)' /\ RestOK(i, p)'
  <2>1. CASE i # j
    <3>1. Asked(i, p) => Asked(i, p)'
      BY <2>1 DEF Asked, AskedBy, SameElsewhere, SameWorkers, Active
    <3>2. ShapeOK(i, p) /\ RestOK(i, p)
      BY DEF ChatInv
    <3> QED  BY <2>1, <3>1, <3>2 DEF ShapeOK, RestOK, Quiet, SameElsewhere, SameChat
  <2> QED  BY <2>1
<1> QED  BY <1>1, <1>3, <1>4 DEF ChatInv

\* A step of a worker that touches no chat and starts no job.
LEMMA LocalFrame ==
  ASSUME ChatInv, NEW w \in Workers, SameWorkers(w), LocalOK(w)',
         UNCHANGED <<client, round, parts, chatVars, chats>>,
         \A i \in Jobs : Prepared(i)' => Prepared(i),
         \A p \in chats[wjob[w]] :
           AskedBy(w, p) => wjob'[w] = wjob[w] /\ AskedBy(w, p)'
  PROVE  ChatInv'
<1>1. \A v \in Workers : LocalOK(v)'
  BY DEF ChatInv, LocalOK, SameWorkers
<1>2. \A i \in Jobs : FreshOK(i)'
  BY DEF ChatInv, FreshOK, chatVars, serveVars
<1>3. ASSUME NEW i \in Jobs, NEW p \in Peers PROVE ShapeOK(i, p)' /\ RestOK(i, p)'
  <2>1. ShapeOK(i, p) /\ RestOK(i, p)
    BY DEF ChatInv
  <2>2. p \in chats[i] /\ Asked(i, p) => Asked(i, p)'
    BY DEF Asked, AskedBy, SameWorkers
  <2> QED  BY <2>1, <2>2 DEF ShapeOK, RestOK, Quiet, chatVars, serveVars
<1> QED  BY <1>1, <1>2, <1>3 DEF ChatInv

\* A worker with a prepared job keeps it prepared only while it opens chats.
LEMMA PreparedFrame ==
  ASSUME NEW w \in Workers, SameWorkers(w), UNCHANGED <<queue, client>>,
         wpc'[w] \in {"start", "open", "request"} =>
           wpc[w] \in {"start", "open", "request"} /\ wjob'[w] = wjob[w]
  PROVE  \A i \in Jobs : Prepared(i)' => Prepared(i)
BY DEF Prepared, Queued, SameWorkers


\* The steps of a worker that touch no chat.
LEMMA LocalStep ==
  ASSUME TypeInv, OwnInv, ChatInv, NEW w \in Workers,
         \/ JobExpired(w) \/ StartJob(w) \/ RequestTimeout(w) \/ OpenFails(w)
         \/ InstructDone(w) \/ FeedbackDone(w) \/ SetErr(w) \/ Panic(w)
         \/ \E p \in Peers : \/ ReuseChat(w, p) \/ RequestBlocks(w, p)
                             \/ InstructTimeout(w, p) \/ PullWaits(w, p)
  PROVE  ChatInv'
<1> USE DEF Goto, poolVars, queryVars, workerVars, jobVars, originVars, instrVars
<1> DEFINE Starting == {"start", "open", "request"}
           Same == UNCHANGED <<queue, client, round, parts, chatVars, chats>>
           Stays == /\ LocalOK(w)'
                    /\ wpc'[w] \in Starting => wpc[w] \in Starting /\ wjob'[w] = wjob[w]
                    /\ \A p \in chats[wjob[w]] :
                         AskedBy(w, p) => wjob'[w] = wjob[w] /\ AskedBy(w, p)'
           Good == SameWorkers(w) /\ Same /\ Stays
<1>0. /\ LocalOK(w)
      /\ DOMAIN wpc = Workers /\ DOMAIN wjob = Workers
      /\ DOMAIN todo = Workers /\ DOMAIN cur = Workers
  BY DEF ChatInv, TypeInv, TypeOK, WorkerTypeOK
<1>1. ASSUME JobExpired(w) PROVE Good
  BY <1>0, <1>1 DEF JobExpired, SameWorkers, LocalOK, AskedBy
<1>2. ASSUME StartJob(w) PROVE Good
  BY <1>0, <1>2 DEF StartJob, SameWorkers, LocalOK, AskedBy
<1>3. ASSUME RequestTimeout(w) PROVE Good
  BY <1>0, <1>3 DEF RequestTimeout, SameWorkers, LocalOK, AskedBy
<1>4. ASSUME OpenFails(w) PROVE Good
  BY <1>0, <1>4 DEF OpenFails, SameWorkers, LocalOK, AskedBy
<1>5. ASSUME InstructDone(w) PROVE Good
  BY <1>0, <1>5 DEF InstructDone, SameWorkers, LocalOK, AskedBy
<1>6. ASSUME FeedbackDone(w) PROVE Good
  BY <1>0, <1>6 DEF FeedbackDone, SameWorkers, LocalOK, AskedBy
<1>7. ASSUME SetErr(w) PROVE Good
  BY <1>0, <1>7 DEF SetErr, SameWorkers, LocalOK, AskedBy
<1>8. ASSUME Panic(w) PROVE Good
  BY <1>0, <1>8 DEF Panic, SameWorkers, LocalOK, AskedBy
<1>9. ASSUME NEW p \in Peers, ReuseChat(w, p) PROVE Good
  BY <1>0, <1>9 DEF ReuseChat, SameWorkers, LocalOK, AskedBy
<1>10. ASSUME NEW p \in Peers, RequestBlocks(w, p) PROVE Good
  BY <1>0, <1>10 DEF RequestBlocks, SameWorkers, LocalOK, AskedBy
<1>11. ASSUME NEW p \in Peers, InstructTimeout(w, p) PROVE Good
  BY <1>0, <1>11 DEF InstructTimeout, SameWorkers, LocalOK, AskedBy
<1>12. ASSUME NEW p \in Peers, PullWaits(w, p) PROVE Good
  BY <1>0, <1>12 DEF PullWaits, SameWorkers, LocalOK, AskedBy
<1>13. Good
  BY <1>1, <1>2, <1>3, <1>4, <1>5, <1>6, <1>7, <1>8,
     <1>9, <1>10, <1>11, <1>12
<1> QED  BY <1>13, LocalFrame, PreparedFrame


\* A worker prepares the job that it takes, which was prepared in the queue.
LEMMA TakeEffect ==
  ASSUME TypeInv, ChatInv, NEW w \in Workers, TakeJob(w)
  PROVE  SameWorkers(w) /\ LocalOK(w)' /\ \A i \in Jobs : Prepared(i)' => Prepared(i)
<1> USE DEF Goto, queryVars, jobVars, originVars, instrVars
<1>1. /\ queue \in Seq(Jobs) /\ queue # <<>> /\ queue' \in Seq(Jobs)
      /\ Len(queue) \in Nat \ {0} /\ Len(queue') = Len(queue) - 1
      /\ Head(queue) = queue[1]
      /\ \A i \in 1..Len(queue') : queue'[i] = queue[i + 1]
  BY HeadTailProperties, LenProperties, EmptySeq DEF TakeJob, TypeInv, TypeOK
<1>2. SameWorkers(w) /\ LocalOK(w)'
  <2>1. /\ wpc[w] = "idle" /\ wpc' = [wpc EXCEPT ![w] = "start"]
        /\ wjob' = [wjob EXCEPT ![w] = Head(queue)] /\ UNCHANGED <<todo, cur>>
        /\ DOMAIN wpc = Workers
    BY DEF TakeJob, TypeInv, TypeOK, WorkerTypeOK
  <2>2. todo[w] = {} /\ cur[w] = {}
    BY <2>1 DEF ChatInv, LocalOK
  <2> QED  BY <2>1, <2>2 DEF SameWorkers, LocalOK
<1>3. Queued(Head(queue)) /\ \A i \in Jobs : Queued(i)' => Queued(i)
  BY <1>1 DEF Queued
<1>4. wjob'[w] = Head(queue)
  BY DEF TakeJob, TypeInv, TypeOK, WorkerTypeOK
<1>5. \A i \in Jobs : Prepared(i)' => Prepared(i)
  BY <1>2, <1>3, <1>4 DEF TakeJob, Prepared, SameWorkers
<1> QED  BY <1>2, <1>5

LEMMA ChatTakeJob ==
  ASSUME TypeInv, ChatInv, NEW w \in Workers, TakeJob(w)
  PROVE  ChatInv'
BY TakeEffect, LocalFrame DEF TakeJob, AskedBy, queryVars, jobVars, originVars, instrVars

LEMMA ChatNextTask ==
  ASSUME TypeInv, ChatInv, NEW w \in Workers, NextTask(w)
  PROVE  ChatInv'
<1> USE DEF Goto, poolVars, originVars, instrVars
<1>1. /\ wpc[w] \in {"open", "feedback"} /\ todo[w] = {} /\ cur[w] = {}
      /\ wjob' = wjob /\ cur' = cur
      /\ DOMAIN wpc = Workers /\ DOMAIN todo = Workers
  BY DEF NextTask, ChatInv, LocalOK, TypeInv, TypeOK, WorkerTypeOK
<1>2. \/ /\ todo' = [todo EXCEPT ![w] = chats[wjob[w]]]
         /\ wpc' = [wpc EXCEPT ![w] = "instruct"]
      \/ todo' = todo /\ wpc' = [wpc EXCEPT ![w] = "closefb"]
  BY DEF NextTask
<1>3. UNCHANGED <<queue, client, round, parts, chatVars, chats>>
  BY DEF NextTask
<1>4. SameWorkers(w) /\ LocalOK(w)'
  BY <1>1, <1>2, <1>3 DEF SameWorkers, LocalOK
<1>5. \A i \in Jobs : Prepared(i)' => Prepared(i)
  BY <1>1, <1>2, <1>3, <1>4, PreparedFrame
<1>6. \A p \in chats[wjob[w]] : ~AskedBy(w, p)
  BY <1>1 DEF AskedBy
<1> QED  BY <1>3, <1>4, <1>5, <1>6, LocalFrame

LEMMA ChatCloseFeedback ==
  ASSUME TypeInv, ChatInv, NEW w \in Workers, CloseFeedback(w)
  PROVE  ChatInv'
<1> USE DEF Goto, poolVars, queryVars, originVars, instrVars
<1>1. \/ wpc' = [wpc EXCEPT ![w] = "idle"] /\ wjob' = [wjob EXCEPT ![w] = NoJob]
      \/ wpc' = [wpc EXCEPT ![w] = "closechats"] /\ wjob' = wjob
  BY DEF CloseFeedback, Release
<1>2. /\ wpc[w] = "closefb"
      /\ UNCHANGED <<queue, client, round, parts, chatVars, chats, todo, cur>>
      /\ DOMAIN wpc = Workers /\ DOMAIN wjob = Workers
  BY DEF CloseFeedback, TypeInv, TypeOK, WorkerTypeOK
<1>3. SameWorkers(w) /\ LocalOK(w)'
  BY <1>1, <1>2 DEF SameWorkers, LocalOK, ChatInv
<1>4. \A i \in Jobs : Prepared(i)' => Prepared(i)
  BY <1>1, <1>2, <1>3, PreparedFrame
<1> QED  BY <1>2, <1>3, <1>4, LocalFrame DEF AskedBy

LEMMA ChatSendFeedback ==
  ASSUME TypeInv, ChatInv, NEW w \in Workers, NEW r, SendFeedback(w, r)
  PROVE  ChatInv'
<1> USE DEF poolVars, jobVars, originVars, instrVars
<1>1. SameWorkers(w) /\ LocalOK(w)'
  BY DEF SendFeedback, SameWorkers, LocalOK, ChatInv
<1>2. \A i \in Jobs : Prepared(i)' => Prepared(i)
  BY <1>1, PreparedFrame DEF SendFeedback
<1> QED  BY <1>1, <1>2, LocalFrame DEF SendFeedback, AskedBy


\* What revokePeerChats does to the chats: those of S are closed and forgotten.
LEMMA RevokeEffect ==
  ASSUME TypeInv, NEW j \in Jobs, NEW S, RevokePeerChats(j, S)
  PROVE  /\ \A i \in Jobs : i # j => closed'[i] = closed[i] /\ chats'[i] = chats[i]
         /\ chats'[j] = chats[j] \ S
         /\ \A p \in Peers : closed'[j][p] = (closed[j][p] \/ p \in S \cap chats[j])
BY DEF RevokePeerChats, Close, TypeInv, TypeOK, ChatTypeOK, JobTypeOK

\* Revoking open chats keeps the shape of a chat.
LEMMA RevokeShape ==
  ASSUME TypeInv, ChatInv, NEW j \in Jobs, NEW S, RevokePeerChats(j, S),
         NEW p \in Peers,
         to'[j][p] = to[j][p], from'[j][p] \in {from[j][p], {}},
         handler'[j][p] = handler[j][p], relay'[j][p] = relay[j][p]
  PROVE  ShapeOK(j, p)'
<1>1. /\ chats'[j] = chats[j] \ S
      /\ closed'[j][p] = (closed[j][p] \/ p \in S \cap chats[j])
  BY RevokeEffect
<1>2. ShapeOK(j, p)
  BY DEF ChatInv
<1> QED  BY <1>1, <1>2 DEF ShapeOK

LEMMA ChatRequestChat ==
  ASSUME TypeInv, OwnInv, ChatInv, NEW w \in Workers, NEW p \in Peers, RequestChat(w, p)
  PROVE  ChatInv'
<1> USE DEF Goto, poolVars, originVars, instrVars
<1> PICK j \in Jobs : j = wjob[w]
  BY DEF RequestChat, TypeInv, TypeOK, WorkerTypeOK, Assigned
<1>0. ChatTypeOK /\ WorkerTypeOK /\ JobTypeOK
  BY DEF TypeInv, TypeOK
<1>1. /\ Active(w, j) /\ wjob'[w] = j /\ p \in parts[j] /\ p \notin chats[j]
      /\ wpc[w] \in {"open", "request"} /\ wpc'[w] = "open"
      /\ UNCHANGED <<queue, client, round, parts>>
      /\ todo[w] \cup cur[w] \subseteq parts[j]
  <2>1. p \in todo[w] \cup cur[w] /\ wpc[w] \in {"open", "request"}
    BY DEF RequestChat
  <2>2. todo[w] \cup cur[w] \subseteq parts[j]
    BY <2>1 DEF ChatInv, LocalOK
  <2>3. p \notin chats[j]
    BY DEF RequestChat, ChatInv, LocalOK
  <2> QED  BY <1>0, <2>1, <2>2, <2>3 DEF RequestChat, Active, WorkerTypeOK
<1>2. /\ handler[j][p] = "none" /\ relay[j][p] = {}
  <2>1. Prepared(j)
    BY <1>1 DEF Prepared
  <2> QED  BY <1>1, <2>1 DEF ChatInv, FreshOK, ShapeOK
<1>3. SameElsewhere(w, j)
  BY <1>0 DEF RequestChat, Handover, SameElsewhere, SameWorkers, SameChat,
              ChatTypeOK, WorkerTypeOK, JobTypeOK
<1>4. /\ \A q \in Peers : q # p => SameChat(j, q)
      /\ to'[j][p] = {} /\ from'[j][p] = {} /\ closed'[j][p] = FALSE
      /\ handler'[j][p] = "await" /\ relay'[j][p] = relay[j][p]
  BY <1>0 DEF RequestChat, Handover, SameChat, ChatTypeOK
<1>5. chats'[j] = chats[j] \cup {p}
  BY <1>0 DEF RequestChat, JobTypeOK
<1>6. LocalOK(w)'
  BY <1>0, <1>1 DEF RequestChat, LocalOK, WorkerTypeOK
<1>7. ASSUME NEW q \in Peers PROVE ShapeOK(j, q)' /\ RestOK(j, q)'
  <2>1. CASE q = p
    BY <1>2, <1>4, <1>5, <2>1 DEF ShapeOK, RestOK, Quiet
  <2>2. CASE q # p
    <3>1. ~Asked(j, q)
      BY <1>1, AskedByDriver DEF AskedBy
    <3> QED
      BY <1>4, <1>5, <2>2, <3>1 DEF ChatInv, ShapeOK, RestOK, Quiet, SameChat
  <2> QED  BY <2>1, <2>2
<1>8. FreshOK(j)'
  <2>1. Prepared(j) /\ client[j] \notin {"new", "refused"}
    BY <1>1 DEF Prepared, OwnInv, Placed, Driven
  <2> QED  BY <1>1, <1>4, <1>5, <2>1 DEF ChatInv, FreshOK, SameChat
<1> QED  BY <1>1, <1>3, <1>6, <1>7, <1>8, DriverFrame


LEMMA ChatInstruct ==
  ASSUME TypeInv, OwnInv, ChatInv, NEW w \in Workers, NEW p \in Peers, Instruct(w, p)
  PROVE  ChatInv'
<1> USE DEF poolVars, serveVars, jobVars, originVars, instrVars
<1> PICK j \in Jobs : j = wjob[w]
  BY DEF Instruct, TypeInv, TypeOK, WorkerTypeOK, Assigned
<1>0. ChatTypeOK /\ WorkerTypeOK /\ JobTypeOK /\ LocalOK(w)
  BY DEF TypeInv, TypeOK, ChatInv
<1>1. /\ Active(w, j) /\ wjob'[w] = j /\ wpc[w] = "instruct" /\ wpc' = wpc
      /\ UNCHANGED <<queue, client, round, parts, chats>>
      /\ todo'[w] = todo[w] \ {p} /\ cur' = cur
  BY <1>0 DEF Instruct, Active, WorkerTypeOK
<1>2. p \in todo[w] /\ p \in chats[j]
  BY <1>0, <1>1 DEF Instruct, LocalOK
<1>3. Quiet(j, p)
  <2>1. ~Asked(j, p)
    BY <1>1, <1>2, AskedByDriver DEF AskedBy
  <2> QED  BY <1>2, <2>1 DEF ChatInv, RestOK
<1>4. SameElsewhere(w, j)
  BY <1>0 DEF Instruct, SameElsewhere, SameWorkers, SameChat, ChatTypeOK, WorkerTypeOK
<1>5. /\ \A q \in Peers : q # p => SameChat(j, q)
      /\ from'[j][p] = from[j][p] /\ closed'[j][p] = closed[j][p]
      /\ handler'[j][p] = handler[j][p] /\ relay'[j][p] = relay[j][p]
  BY <1>0 DEF Instruct, SameChat, ChatTypeOK
<1>6. LocalOK(w)'
  BY <1>0, <1>1 DEF LocalOK
<1>7. ASSUME NEW q \in Peers PROVE ShapeOK(j, q)' /\ RestOK(j, q)'
  <2>0. ShapeOK(j, q) /\ RestOK(j, q)
    BY DEF ChatInv
  <2>1. CASE q = p
    <3>1. Asked(j, p)'
      BY <1>1 DEF Asked, AskedBy
    <3> QED  BY <1>1, <1>3, <1>5, <2>0, <2>1, <3>1 DEF ShapeOK, RestOK, Quiet
  <2>2. CASE q # p
    <3>1. Asked(j, q) => Asked(j, q)'
      BY <1>1, AskedByDriver DEF Asked, AskedBy
    <3> QED  BY <1>1, <1>5, <2>0, <2>2, <3>1 DEF ShapeOK, RestOK, Quiet, SameChat
  <2> QED  BY <2>1, <2>2
<1>8. FreshOK(j)'
  <2>1. Prepared(j)' => Prepared(j)
    BY <1>1, <1>4, PreparedFrame DEF SameElsewhere
  <2>2. handler' = handler
    BY DEF Instruct
  <2> QED  BY <1>1, <2>1, <2>2 DEF ChatInv, FreshOK
<1> QED  BY <1>1, <1>4, <1>6, <1>7, <1>8, DriverFrame

\* A step of the driver that at most empties result buffers and revokes chats: the
\* chats that stay are at rest, or still asked.
LEMMA RevokeFrame ==
  ASSUME TypeInv, OwnInv, ChatInv, NEW w \in Workers, NEW j \in Jobs, NEW S,
         Active(w, j), wjob'[w] \in {j, NoJob}, SameWorkers(w),
         wpc[w] \notin {"start", "open", "request"},
         wpc'[w] \notin {"start", "open", "request"},
         UNCHANGED <<queue, client, round, parts, to, serveVars>>,
         RevokePeerChats(j, S), LocalOK(w)',
         \A i \in Jobs, p \in Peers : i # j => from'[i][p] = from[i][p],
         \A p \in Peers : from'[j][p] \in {from[j][p], {}},
         \A p \in chats[j] \ S : Quiet(j, p)' \/ Asked(j, p)'
  PROVE  ChatInv'
<1> USE DEF serveVars
<1>1. /\ \A i \in Jobs : i # j => closed'[i] = closed[i] /\ chats'[i] = chats[i]
      /\ chats'[j] = chats[j] \ S
  BY RevokeEffect
<1>2. SameElsewhere(w, j)
  BY <1>1 DEF SameElsewhere, SameChat
<1>3. \A p \in Peers : ShapeOK(j, p)'
  BY RevokeShape
<1>4. \A p \in Peers : RestOK(j, p)'
  BY <1>1 DEF RestOK
<1>5. FreshOK(j)'
  <2>1. ~Prepared(j)'
    <3>1. Driven(j)
      BY DEF Driven
    <3>2. client[j] = "watch" /\ ~Queued(j)
      BY <3>1 DEF OwnInv, Placed
    <3>3. ASSUME NEW v \in Workers, wjob'[v] = j
          PROVE  wpc'[v] \notin {"start", "open", "request"}
      BY <3>3 DEF SameWorkers, OwnInv, ExclusiveJob, Active
    <3> QED  BY <3>2, <3>3 DEF Prepared, Queued
  <2>2. handler' = handler /\ chats'[j] \subseteq chats[j]
    BY <1>1
  <2> QED  BY <2>1, <2>2 DEF ChatInv, FreshOK
<1> QED  BY <1>2, <1>3, <1>4, <1>5, DriverFrame


\* A result in the buffer means that the handler has answered: it waits for the
\* next command, or it has gone and the result says so.
LEMMA ResultShape ==
  ASSUME ChatInv, NEW j \in Jobs, NEW p \in Peers, from[j][p] # {}, ChatTypeOK
  PROVE  /\ to[j][p] = {}
         /\ handler[j][p] \in {"await", "gone"}
         /\ handler[j][p] = "gone" => \A r \in from[j][p] : r.status = STREAM_ERR
<1>1. handler[j][p] \in {"none", "await", "send", "recv", "gone"}
  BY DEF ChatTypeOK
<1>2. ShapeOK(j, p)
  BY DEF ChatInv
<1> QED  BY <1>1, <1>2 DEF ShapeOK

LEMMA ChatPullResult ==
  ASSUME TypeInv, OwnInv, ChatInv, NEW w \in Workers, NEW p \in Peers, PullResult(w, p)
  PROVE  ChatInv'
<1> USE DEF poolVars, serveVars, originVars, instrVars, Goto
<1> PICK j \in Jobs : j = wjob[w]
  BY DEF PullResult, TypeInv, TypeOK, WorkerTypeOK, Assigned
<1>0. ChatTypeOK /\ WorkerTypeOK /\ JobTypeOK /\ LocalOK(w)
  BY DEF TypeInv, TypeOK, ChatInv
<1>1. /\ wpc[w] \in {"pull", "wait"} /\ Active(w, j)
      /\ wpc'[w] = "pull" /\ wjob' = wjob /\ todo'[w] = todo[w] \ {p} /\ cur'[w] = {}
      /\ UNCHANGED <<queue, client, round, parts, to, serveVars>> /\ SameWorkers(w)
      /\ cur[w] \subseteq {p}
  BY <1>0 DEF PullResult, Active, SameWorkers, WorkerTypeOK, LocalOK
<1>2. PICK S \in {{}, {p}}, r \in from[j][p] :
        /\ RevokePeerChats(j, S)
        /\ r.status = STREAM_ERR => S = {p}
  <2>1. PICK r \in from[j][p] :
          LET errFlag == r.status \cap ALL_ERROR_CLASSES IN
            RevokePeerChats(j, IF errFlag \cap ERR_CLASS_COMM = {} THEN {} ELSE {p})
    BY DEF PullResult
  <2>2. STREAM_ERR \cap ALL_ERROR_CLASSES \cap ERR_CLASS_COMM # {}
    BY DEF STREAM_ERR, ALL_ERROR_CLASSES, ERR_CLASS_COMM
  <2> QED  BY <2>1, <2>2
<1>3. from' = [from EXCEPT ![j][p] = {}]
  BY DEF PullResult
<1>4. LocalOK(w)'
  BY <1>0, <1>1, <1>2, RevokeEffect DEF LocalOK
<1>5. ASSUME NEW q \in chats[j] \ S PROVE Quiet(j, q)' \/ Asked(j, q)'
  <2>0. q \in Peers
    BY <1>0 DEF JobTypeOK
  <2>1. CASE q = p
    <3>1. S = {} /\ r.status # STREAM_ERR
      BY <1>2, <1>5, <2>1
    <3>2. handler[j][p] = "await" /\ to[j][p] = {}
      BY <1>0, <3>1, ResultShape
    <3> QED  BY <1>0, <1>1, <1>3, <2>1, <3>2 DEF Quiet, ChatTypeOK
  <2>2. CASE q # p
    <3>1. Quiet(j, q) => Quiet(j, q)'
      BY <1>0, <1>1, <1>3, <2>0, <2>2 DEF Quiet, ChatTypeOK
    <3>2. Asked(j, q) => AskedBy(w, q)
      BY <1>1, AskedByDriver
    <3>3. AskedBy(w, q) => Asked(j, q)'
      BY <1>1, <2>2 DEF AskedBy, Asked
    <3>4. RestOK(j, q)
      BY <2>0 DEF ChatInv
    <3> QED  BY <1>5, <3>1, <3>2, <3>3, <3>4 DEF RestOK
  <2> QED  BY <2>1, <2>2
<1>6. /\ \A i \in Jobs, q \in Peers : i # j => from'[i][q] = from[i][q]
      /\ \A q \in Peers : from'[j][q] \in {from[j][q], {}}
  BY <1>0, <1>3 DEF ChatTypeOK
<1> QED  BY <1>1, <1>2, <1>4, <1>5, <1>6, RevokeFrame

LEMMA ChatPullFails ==
  ASSUME TypeInv, OwnInv, ChatInv, NEW w \in Workers, NEW p \in Peers, PullFails(w, p)
  PROVE  ChatInv'
<1> USE DEF poolVars, serveVars, originVars, instrVars, Goto
<1> PICK j \in Jobs : j = wjob[w]
  BY DEF PullFails, TypeInv, TypeOK, WorkerTypeOK, Assigned
<1>0. ChatTypeOK /\ WorkerTypeOK /\ JobTypeOK /\ LocalOK(w)
  BY DEF TypeInv, TypeOK, ChatInv
<1>1. /\ wpc[w] \in {"pull", "wait"} /\ Active(w, j)
      /\ wpc'[w] = "pull" /\ wjob' = wjob /\ todo'[w] = todo[w] \ {p} /\ cur'[w] = {}
      /\ UNCHANGED <<queue, client, round, parts, to, from, serveVars>> /\ SameWorkers(w)
      /\ cur[w] \subseteq {p} /\ RevokePeerChats(j, {p})
  BY <1>0 DEF PullFails, Active, SameWorkers, WorkerTypeOK, LocalOK
<1>2. LocalOK(w)'
  BY <1>0, <1>1, RevokeEffect DEF LocalOK
<1>3. ASSUME NEW q \in chats[j] \ {p} PROVE Quiet(j, q)' \/ Asked(j, q)'
  <2>1. RestOK(j, q)
    BY <1>0 DEF ChatInv, JobTypeOK
  <2>2. Asked(j, q) => AskedBy(w, q)
    BY <1>1, AskedByDriver
  <2>3. AskedBy(w, q) => Asked(j, q)'
    BY <1>1 DEF AskedBy, Asked
  <2> QED  BY <1>1, <2>1, <2>2, <2>3 DEF RestOK, Quiet
<1> QED  BY <1>1, <1>2, <1>3, RevokeFrame

\* At the end of a query, or of a job, nothing is asked any more.
LEMMA ChatEnd ==
  ASSUME TypeInv, OwnInv, ChatInv, NEW w \in Workers, QueryDone(w) \/ EndJob(w)
  PROVE  ChatInv'
<1> USE DEF poolVars, serveVars, queryVars, originVars, instrVars, Goto
<1> PICK j \in Jobs : j = wjob[w]
  BY DEF QueryDone, EndJob, TypeInv, TypeOK, WorkerTypeOK, Assigned
<1>0. WorkerTypeOK /\ JobTypeOK /\ LocalOK(w)
  BY DEF TypeInv, TypeOK, ChatInv
<1>1. /\ Active(w, j) /\ wpc[w] \in {"pull", "closechats"} /\ todo[w] = {} /\ cur[w] = {}
      /\ UNCHANGED <<todo, cur, queue, client, round, parts, to, from, serveVars>>
  BY <1>0 DEF QueryDone, EndJob, Active, LocalOK
<1>2. PICK S : RevokePeerChats(j, S)
  BY DEF QueryDone, EndJob, CloseAllChats
<1>3. wjob'[w] \in {j, NoJob} /\ wpc'[w] \in {"feedback", "idle"} /\ SameWorkers(w)
  BY <1>0 DEF QueryDone, EndJob, Release, WorkerTypeOK, SameWorkers
<1>4. LocalOK(w)'
  BY <1>1, <1>3 DEF LocalOK
<1>5. ASSUME NEW q \in chats[j] \ S PROVE Quiet(j, q)'
  <2>1. RestOK(j, q)
    BY <1>0 DEF ChatInv, JobTypeOK
  <2>2. ~Asked(j, q)
    BY <1>1, AskedByDriver DEF AskedBy
  <2> QED  BY <1>1, <2>1, <2>2 DEF RestOK, Quiet
<1> QED  BY <1>1, <1>2, <1>3, <1>4, <1>5, RevokeFrame

LEMMA ChatWorker ==
  ASSUME TypeInv, OwnInv, ChatInv, NEW w \in Workers, ProcessJob(w)
  PROVE  ChatInv'
BY LocalStep, ChatTakeJob, ChatNextTask, ChatCloseFeedback, ChatRequestChat,
   ChatInstruct, ChatPullResult, ChatPullFails, ChatEnd DEF ProcessJob


-----------------------------------------------------------------------------
(* Steps of an originator *)

\* A step of the originator of job j, which no worker drives.
LEMMA OriginFrame ==
  ASSUME TypeInv, ChatInv, NEW j \in Jobs, ~Driven(j),
         UNCHANGED <<wpc, wjob, todo, cur, to, serveVars>>,
         \A i \in Jobs : i # j =>
           /\ parts'[i] = parts[i] /\ chats'[i] = chats[i] /\ client'[i] = client[i]
           /\ round'[i] = round[i] /\ closed'[i] = closed[i] /\ from'[i] = from[i]
           /\ Queued(i)' => Queued(i),
         FreshOK(j)', \A p \in Peers : ShapeOK(j, p)' /\ RestOK(j, p)'
  PROVE  ChatInv'
<1> USE DEF serveVars
<1>1. ASSUME NEW w \in Workers PROVE LocalOK(w)'
  <2>0. LocalOK(w)
    BY DEF ChatInv
  <2>1. CASE wjob[w] = j
    <3>1. wpc[w] = "closefb"
      BY <2>1 DEF Driven, Active
    <3> QED  BY <2>0, <3>1 DEF LocalOK
  <2>2. CASE wjob[w] # j
    <3>1. wpc[w] = "idle" \/ wjob[w] \in Jobs
      BY DEF TypeInv, TypeOK, WorkerTypeOK, Assigned
    <3> QED  BY <2>0, <2>2, <3>1 DEF LocalOK
  <2> QED  BY <2>1, <2>2
<1>2. ASSUME NEW i \in Jobs PROVE FreshOK(i)'
  <2>1. CASE i # j
    <3>1. Prepared(i)' => Prepared(i)
      BY <2>1 DEF Prepared
    <3> QED  BY <2>1, <3>1 DEF ChatInv, FreshOK
  <2> QED  BY <2>1
<1>3. ASSUME NEW i \in Jobs, NEW p \in Peers PROVE ShapeOK(i, p)' /\ RestOK(i, p)'
  <2>1. CASE i # j
    <3>1. ShapeOK(i, p) /\ RestOK(i, p)
      BY DEF ChatInv
    <3>2. Asked(i, p)' <=> Asked(i, p)
      BY DEF Asked, AskedBy
    <3> QED  BY <2>1, <3>1, <3>2 DEF ShapeOK, RestOK, Quiet
  <2> QED  BY <2>1
<1> QED  BY <1>1, <1>2, <1>3 DEF ChatInv

\* A step of an originator that touches neither chats nor instruction.
LEMMA ClientFrame ==
  ASSUME ChatInv, NEW j \in Jobs,
         UNCHANGED <<to, from, closed, serveVars, chats, parts, round, wpc, wjob, todo,
                     cur>>,
         \A i \in Jobs : Prepared(i)' => Prepared(i),
         \A i \in Jobs :
           client'[i] \in {"new", "refused"} => client[i] \in {"new", "refused"}
  PROVE  ChatInv'
<1> USE DEF chatVars, serveVars
<1>1. \A w \in Workers : LocalOK(w)'
  BY DEF ChatInv, LocalOK
<1>2. \A i \in Jobs : FreshOK(i)'
  BY DEF ChatInv, FreshOK
<1>3. \A i \in Jobs, p \in Peers : ShapeOK(i, p)' /\ RestOK(i, p)'
  BY DEF ChatInv, ShapeOK, RestOK, Quiet, Asked, AskedBy
<1> QED  BY <1>1, <1>2, <1>3 DEF ChatInv

\* A job that is queued becomes no other job.
LEMMA QueuedAppend ==
  ASSUME TypeInv, NEW j \in Jobs, queue' = Append(queue, j)
  PROVE  \A i \in Jobs : Queued(i)' => Queued(i) \/ i = j
<1>1. /\ queue \in Seq(Jobs) /\ Len(queue) \in Nat /\ Len(queue') = Len(queue) + 1
      /\ \A i \in 1..Len(queue) : queue'[i] = queue[i]
      /\ queue'[Len(queue) + 1] = j
  BY AppendProperties, LenProperties DEF TypeInv, TypeOK
<1> QED  BY <1>1 DEF Queued

LEMMA ChatSubmit ==
  ASSUME TypeInv, OwnInv, ChatInv, NEW j \in Jobs, NEW S, NEW f, NEW n, NEW fl,
         SubmitJob(j, S, f, n, fl)
  PROVE  ChatInv'
<1> USE DEF chatVars, serveVars, workerVars, queryVars
<1>1. /\ ~Driven(j) /\ FreshOK(j) /\ client[j] = "new"
      /\ \A p \in Peers : ShapeOK(j, p) /\ handler[j][p] = "none"
  BY DEF SubmitJob, OwnInv, Placed, ChatInv, FreshOK
<1>2. /\ client' = [client EXCEPT ![j] = "watch"] /\ parts' = [parts EXCEPT ![j] = S]
      /\ UNCHANGED <<wpc, wjob, todo, cur, chatVars, chats, round>>
      /\ DOMAIN client = Jobs /\ DOMAIN parts = Jobs /\ chats[j] \subseteq Peers
  BY DEF SubmitJob, TypeInv, TypeOK, JobTypeOK
<1>3. \A i \in Jobs : i # j => (Queued(i)' => Queued(i))
  BY QueuedAppend DEF SubmitJob
<1>4. chats[j] = {}
  BY <1>1, <1>2 DEF ShapeOK
<1>5. FreshOK(j)'
  BY <1>1, <1>2, <1>4 DEF FreshOK
<1>6. \A p \in Peers : ShapeOK(j, p)' /\ RestOK(j, p)'
  BY <1>1, <1>2, <1>4 DEF ShapeOK, RestOK
<1> QED  BY <1>1, <1>2, <1>3, <1>5, <1>6, OriginFrame

\* What a recycled or aborted job leaves open is at rest.
LEMMA RestBetween ==
  ASSUME ChatInv, NEW j \in Jobs, ~Driven(j), NEW p \in Peers, p \in chats[j]
  PROVE  Quiet(j, p)
BY DEF ChatInv, RestOK, Asked, AskedBy, Driven, Active

LEMMA ChatRecycle ==
  ASSUME TypeInv, OwnInv, ChatInv, NEW j \in Jobs, NEW S, NEW f, NEW n, NEW fl, NEW done,
         Recycle(j, S, f, n, fl, done)
  PROVE  ChatInv'
<1> USE DEF serveVars, poolVars, workerVars, queryVars
<1>0. /\ JobTypeOK /\ ~Driven(j) /\ ~Queued(j)
  BY DEF Recycle, isJobHalted, OwnInv, Placed, TypeInv, TypeOK
<1>1. chats[j] \subseteq parts[j]
  BY DEF Recycle, ChatInv, FreshOK
<1>2. /\ \A i \in Jobs : i # j => closed'[i] = closed[i] /\ chats'[i] = chats[i]
      /\ chats'[j] = chats[j]
  <2>1. RevokePeerChats(j, chats[j] \ parts[j])
    BY DEF Recycle
  <2>2. chats[j] \ (chats[j] \ parts[j]) = chats[j]
    BY <1>1
  <2> QED  BY <2>1, <2>2, RevokeEffect
<1>3. /\ parts' = [parts EXCEPT ![j] = S] /\ round' = [round EXCEPT ![j] = @ + 1]
      /\ client' = [client EXCEPT ![j] = "enqueue"]
      /\ UNCHANGED <<wpc, wjob, todo, cur, to, from, serveVars, queue>>
      /\ round[j] = 0 /\ S \subseteq chats[j]
  BY DEF Recycle
<1>4. FreshOK(j)'
  <2>1. parts'[j] = S /\ round'[j] = 1 /\ client'[j] = "enqueue"
    BY <1>0, <1>3 DEF JobTypeOK
  <2> QED  BY <1>2, <1>3, <2>1 DEF FreshOK
<1>5. ASSUME NEW p \in Peers PROVE ShapeOK(j, p)' /\ RestOK(j, p)'
  <2>1. ShapeOK(j, p)'
    BY <1>3, RevokeShape DEF Recycle
  <2>2. p \in chats'[j] => Quiet(j, p)'
    BY <1>0, <1>2, <1>3, RestBetween DEF Quiet
  <2> QED  BY <2>1, <2>2 DEF RestOK
<1>6. \A i \in Jobs : Queued(i)' => Queued(i)
  BY <1>3 DEF Queued
<1>7. \A i \in Jobs : i # j =>
        parts'[i] = parts[i] /\ client'[i] = client[i] /\ round'[i] = round[i]
  BY <1>0, <1>3 DEF JobTypeOK
<1> QED  BY <1>0, <1>2, <1>3, <1>4, <1>5, <1>6, <1>7, OriginFrame

LEMMA ChatAbort ==
  ASSUME TypeInv, OwnInv, ChatInv, NEW j \in Jobs, Abort(j)
  PROVE  ChatInv'
<1> USE DEF serveVars, poolVars, workerVars, queryVars, originVars, instrVars
<1>0. /\ ~Driven(j) /\ ~Queued(j) /\ client[j] = "watch"
  BY DEF Abort, isJobHalted, OwnInv, Placed
<1>1. RevokePeerChats(j, chats[j])
  BY DEF Abort, CloseAllChats
<1>2. /\ \A i \in Jobs : i # j => closed'[i] = closed[i] /\ chats'[i] = chats[i]
      /\ chats'[j] = {}
  BY <1>1, RevokeEffect
<1>3. UNCHANGED <<wpc, wjob, todo, cur, to, from, serveVars, queue, parts, client, round>>
  BY DEF Abort
<1>4. FreshOK(j)'
  <2>1. ~Prepared(j)'
    BY <1>0, <1>3 DEF Prepared, Queued, Driven, Active
  <2> QED  BY <1>0, <1>2, <1>3, <2>1 DEF FreshOK
<1>5. \A p \in Peers : ShapeOK(j, p)' /\ RestOK(j, p)'
  BY <1>1, <1>2, <1>3, RevokeShape DEF RestOK
<1>6. \A i \in Jobs : Queued(i)' => Queued(i)
  BY <1>3 DEF Queued
<1> QED  BY <1>0, <1>2, <1>3, <1>4, <1>5, <1>6, OriginFrame

LEMMA ChatOriginator ==
  ASSUME TypeInv, OwnInv, ChatInv, NEW j \in Jobs, Originator(j)
  PROVE  ChatInv'
<1> USE DEF chatVars, poolVars, workerVars, queryVars, instrVars
<1>0. DOMAIN client = Jobs
  BY DEF TypeInv, TypeOK, JobTypeOK
<1>1. CASE SubmitTimeout(j)
  BY <1>0, <1>1, ClientFrame DEF SubmitTimeout, Prepared, Queued
<1>2. CASE Expire(j)
  BY <1>2, ClientFrame DEF Expire, Prepared, Queued
<1>3. CASE Enqueue(j)
  <2>1. \A i \in Jobs : Queued(i)' => Queued(i) \/ i = j
    BY <1>3, QueuedAppend DEF Enqueue
  <2> QED  BY <1>0, <1>3, <2>1, ClientFrame DEF Enqueue, Prepared
<1>4. CASE EnqueueTimeout(j)
  BY <1>0, <1>4, ClientFrame DEF EnqueueTimeout, Prepared, Queued
<1>5. CASE Abort(j)
  BY <1>5, ChatAbort
<1>6. ASSUME NEW S, NEW f, NEW T, RecycleRefused(j, S, f, T) PROVE ChatInv'
  BY <1>6, ClientFrame DEF RecycleRefused, Prepared, Queued
<1>7. ASSUME NEW S, NEW f, Instruction(j, S, f) PROVE ChatInv'
  BY <1>6, <1>7, ChatSubmit, ChatRecycle DEF Instruction
<1> QED
  BY <1>1, <1>2, <1>3, <1>4, <1>5, <1>7 DEF Originator


-----------------------------------------------------------------------------
(* The theorems *)

LEMMA InitChat == Init => ChatInv
<1> SUFFICES ASSUME Init PROVE ChatInv
  OBVIOUS
<1>1. ASSUME NEW j \in Jobs, NEW p \in Peers PROVE ShapeOK(j, p) /\ RestOK(j, p)
  BY DEF Init, ChatInit, ShapeOK, RestOK
<1>2. \A w \in Workers : LocalOK(w)
  BY DEF Init, LocalOK
<1>3. \A j \in Jobs : FreshOK(j)
  BY DEF Init, ChatInit, FreshOK
<1> QED  BY <1>1, <1>2, <1>3 DEF ChatInv

LEMMA NextChat == TypeInv /\ OwnInv /\ ChatInv /\ [Next]_vars => ChatInv'
<1> SUFFICES ASSUME TypeInv, OwnInv, ChatInv, [Next]_vars PROVE ChatInv'
  OBVIOUS
<1>1. CASE ChatNext /\ UNCHANGED <<queue, crashed, workerVars, jobVars>>
  BY <1>1, HandlerStep DEF workerVars, queryVars, jobVars, originVars, instrVars
<1>2. ASSUME NEW w \in Workers, ProcessJob(w) PROVE ChatInv'
  BY <1>2, ChatWorker
<1>3. ASSUME NEW w \in Workers, NEW r \in resps[w], SendFeedback(w, r) PROVE ChatInv'
  BY <1>3, ChatSendFeedback
<1>4. ASSUME NEW j \in Jobs, Originator(j) PROVE ChatInv'
  BY <1>4, ChatOriginator
<1>5. CASE UNCHANGED vars
  <2>1. UNCHANGED <<chatVars, chats, parts, round, client, queue, wpc, wjob, todo, cur>>
    BY <1>5 DEF vars, poolVars, workerVars, queryVars, jobVars, originVars, instrVars
  <2>2. \A i \in Jobs : Prepared(i)' => Prepared(i)
    BY <2>1 DEF Prepared, Queued
  <2>3. CASE Jobs = {}
    BY <2>1, <2>3 DEF ChatInv, LocalOK
  <2> QED  BY <2>1, <2>2, <2>3, ClientFrame DEF chatVars
<1> QED  BY <1>1, <1>2, <1>3, <1>4, <1>5, NextCases

LEMMA ChatInvariant == Spec => [](OwnInv /\ ChatInv)
<1>1. Init => TypeInv /\ OwnInv /\ ChatInv
  BY InitType, InitOwn, InitChat
<1>2. TypeInv /\ OwnInv /\ ChatInv /\ [Next]_vars => TypeInv' /\ OwnInv' /\ ChatInv'
  BY NextType, NextOwn, NextChat
<1> QED  BY <1>1, <1>2, PTL DEF Spec

\* A job remembers exactly its open chats: no chat is closed twice or instructed
\* after its close, and no handler waits on a chat that is forgotten.
THEOREM ChatsAreTracked == Spec => []ChatsTracked
<1>1. ChatInv => ChatsTracked
  BY DEF ChatInv, ShapeOK, ChatsTracked
<1> QED  BY <1>1, ChatInvariant, PTL

\* The writes of a stream handler to the job never block.
THEOREM HandlersNeverBlock == Spec => []HandlerNeverBlocks
<1>1. ChatInv => HandlerNeverBlocks
  BY DEF ChatInv, ShapeOK, HandlerNeverBlocks
<1> QED  BY <1>1, ChatInvariant, PTL

\* The chats of a job that no worker drives are at rest with a live handler, so
\* that a second attempt can use them.
THEOREM ChatsRestBetweenAttempts == Spec => []QuietBetweenAttempts
<1>1. TypeOK /\ ChatInv => QuietBetweenAttempts
  BY RestBetween DEF TypeOK, JobTypeOK, QuietBetweenAttempts, Driven
<1> QED  BY <1>1, ChatInvariant, TypeCorrect, PTL


-----------------------------------------------------------------------------
(* Phases and attempts *)

\* A step that starts neither a phase nor an attempt, opens no chat and puts
\* nothing into a chat keeps everything in step.
LEMMA LockFrame ==
  ASSUME Lockstep, UNCHANGED <<progress, round>>,
         \A j \in Jobs : \A p \in chats'[j] :
           /\ p \in chats[j]
           /\ to'[j][p] \subseteq to[j][p] /\ relay'[j][p] \subseteq relay[j][p]
           /\ from'[j][p] \subseteq from[j][p]
  PROVE  Lockstep'
BY DEF Lockstep

\* The handlers pass on the phase and the attempt of what they relay.
LEMMA LockHandler ==
  ASSUME TypeInv, Lockstep, ChatNext, UNCHANGED <<progress, round, chats>>
  PROVE  Lockstep'
<1>0. ChatTypeOK /\ JobTypeOK
  BY DEF TypeInv, TypeOK
<1>1. ASSUME NEW p \in Peers, AwaitSMCRound(p) \/ LeaveSMCRound(p) PROVE Lockstep'
  BY <1>1, LockFrame DEF AwaitSMCRound, LeaveSMCRound
<1>2. ASSUME NEW j \in Jobs, NEW p \in Peers,
             EndChat(j, p) \/ SendToPeer(j, p) \/ SendFails(j, p) \/ LoseStream(j, p)
      PROVE  Lockstep'
  <2>1. \A i \in Jobs, q \in Peers :
          /\ to'[i][q] \subseteq to[i][q] /\ relay'[i][q] \subseteq relay[i][q]
          /\ from'[i][q] \subseteq from[i][q]
    <3>1. CASE EndChat(j, p)
      BY <1>0, <3>1 DEF EndChat, ChatTypeOK
    <3>2. CASE SendFails(j, p)
      BY <1>0, <3>2 DEF SendFails, ChatTypeOK
    <3>3. CASE SendToPeer(j, p) \/ LoseStream(j, p)
      BY <3>3 DEF SendToPeer, LoseStream
    <3> QED  BY <1>2, <3>1, <3>2, <3>3
  <2> QED  BY <1>0, <2>1, LockFrame DEF JobTypeOK
<1>3. ASSUME NEW j \in Jobs, NEW p \in Peers,
             TakeInstruction(j, p) \/ ForwardResult(j, p) \/ ForwardLoss(j, p)
      PROVE  Lockstep'
  <2>1. \A i \in Jobs, q \in Peers : i # j \/ q # p =>
          to'[i][q] = to[i][q] /\ relay'[i][q] = relay[i][q] /\ from'[i][q] = from[i][q]
    BY <1>0, <1>3 DEF TakeInstruction, ForwardResult, ForwardLoss, ChatTypeOK
  <2>2. \A m \in to'[j][p] \cup relay'[j][p] \cup from'[j][p] :
          \E c \in to[j][p] \cup relay[j][p] \cup from[j][p] :
            m.phase = c.phase /\ m.round = c.round
    <3>1. CASE TakeInstruction(j, p)
      BY <1>0, <3>1 DEF TakeInstruction, ChatTypeOK
    <3>2. CASE ForwardResult(j, p)
      <4> DEFINE Res(c, s, x) ==
                   [phase |-> c.phase, round |-> c.round, status |-> s, val |-> x]
      <4>1. PICK c \in relay[j][p] :
              \E s, x : from' = [from EXCEPT ![j][p] = {Res(c, s, x)}]
        BY <3>2, Zenon DEF ForwardResult
      <4>2. PICK s, x : from' = [from EXCEPT ![j][p] = {Res(c, s, x)}]
        BY <4>1
      <4>3. /\ from'[j][p] = {Res(c, s, x)}
            /\ to'[j][p] = to[j][p] /\ relay'[j][p] = {}
        BY <1>0, <3>2, <4>2 DEF ForwardResult, ChatTypeOK
      <4> QED  BY <4>1, <4>3
    <3>3. CASE ForwardLoss(j, p)
      BY <1>0, <3>3 DEF ForwardLoss, ChatTypeOK
    <3> QED  BY <1>3, <3>1, <3>2, <3>3
  <2>3. ASSUME NEW i \in Jobs, NEW q \in chats'[i],
               NEW m \in to'[i][q] \cup relay'[i][q] \cup from'[i][q]
        PROVE  m.phase = progress'[i] /\ m.round = round'[i]
    <3>0. q \in Peers /\ q \in chats[i]
      BY <1>0, <2>3 DEF JobTypeOK
    <3>1. CASE i # j \/ q # p
      BY <2>1, <2>3, <3>0, <3>1 DEF Lockstep
    <3>2. CASE i = j /\ q = p
      BY <2>2, <2>3, <3>0, <3>2 DEF Lockstep
    <3> QED  BY <3>1, <3>2
  <2> QED  BY <2>3 DEF Lockstep
<1> QED  BY <1>1, <1>2, <1>3 DEF ChatNext, ChatLoop

LEMMA LockRequestChat ==
  ASSUME TypeInv, OwnInv, ChatInv, Lockstep,
         NEW w \in Workers, NEW p \in Peers, RequestChat(w, p)
  PROVE  Lockstep'
<1> USE DEF originVars, instrVars
<1> PICK j \in Jobs : j = wjob[w]
  BY DEF RequestChat, TypeInv, TypeOK, WorkerTypeOK, Assigned
<1>0. ChatTypeOK /\ JobTypeOK /\ LocalOK(w)
  BY DEF TypeInv, TypeOK, ChatInv
<1>1. p \in parts[j] /\ p \notin chats[j] /\ Prepared(j)
  BY <1>0 DEF RequestChat, LocalOK, Prepared
<1>2. relay[j][p] = {}
  BY <1>1 DEF ChatInv, FreshOK, ShapeOK
<1>3. /\ to'[j][p] = {} /\ from'[j][p] = {} /\ relay' = relay
      /\ \A i \in Jobs, q \in Peers : i # j \/ q # p =>
           to'[i][q] = to[i][q] /\ from'[i][q] = from[i][q]
      /\ \A i \in Jobs : \A q \in chats'[i] : i # j \/ q # p => q \in chats[i]
      /\ UNCHANGED <<progress, round>>
  BY <1>0 DEF RequestChat, Handover, ChatTypeOK, JobTypeOK
<1>4. \A i \in Jobs : chats'[i] \subseteq Peers
  BY <1>0 DEF RequestChat, JobTypeOK
<1> QED  BY <1>2, <1>3, <1>4 DEF Lockstep

LEMMA LockInstruct ==
  ASSUME TypeInv, OwnInv, ChatInv, Lockstep,
         NEW w \in Workers, NEW p \in Peers, Instruct(w, p)
  PROVE  Lockstep'
<1> USE DEF serveVars, jobVars, originVars, instrVars
<1> PICK j \in Jobs : j = wjob[w]
  BY DEF Instruct, TypeInv, TypeOK, WorkerTypeOK, Assigned
<1>0. ChatTypeOK /\ JobTypeOK
  BY DEF TypeInv, TypeOK
<1>1. /\ UNCHANGED <<from, relay, progress, round, chats>>
      /\ to'[j][p] = {[phase |-> progress[j], round |-> round[j], id |-> chanID[j][p]]}
      /\ \A i \in Jobs, q \in Peers : i # j \/ q # p => to'[i][q] = to[i][q]
      /\ \A i \in Jobs : chats[i] \subseteq Peers
  BY <1>0 DEF Instruct, ChatTypeOK, JobTypeOK
<1>2. ASSUME NEW i \in Jobs, NEW q \in chats[i],
             NEW m \in to'[i][q] \cup relay[i][q] \cup from[i][q]
      PROVE  m.phase = progress[i] /\ m.round = round[i]
  BY <1>1, <1>2 DEF Lockstep
<1> QED  BY <1>1, <1>2 DEF Lockstep

\* The chats of a job are empty when it moves on.
LEMMA RestEmpty ==
  ASSUME ChatInv, NEW j \in Jobs, NEW p \in Peers, Quiet(j, p)
  PROVE  to[j][p] = {} /\ relay[j][p] = {} /\ from[j][p] = {}
BY DEF ChatInv, ShapeOK, Quiet

LEMMA LockNextTask ==
  ASSUME TypeInv, OwnInv, ChatInv, Lockstep, NEW w \in Workers, NextTask(w)
  PROVE  Lockstep'
<1> USE DEF chatVars, serveVars, originVars, instrVars
<1> PICK j \in Jobs : j = wjob[w]
  BY DEF NextTask, TypeInv, TypeOK, WorkerTypeOK, Assigned
<1>0. JobTypeOK
  BY DEF TypeInv, TypeOK
<1>1. wpc[w] \in {"open", "feedback"} /\ Active(w, j)
  BY DEF NextTask, Active
<1>2. ASSUME NEW p \in chats[j]
      PROVE  to[j][p] = {} /\ relay[j][p] = {} /\ from[j][p] = {}
  <2>1. p \in Peers /\ RestOK(j, p)
    BY <1>0 DEF ChatInv, JobTypeOK
  <2>2. ~Asked(j, p)
    BY <1>1, AskedByDriver DEF AskedBy
  <2> QED  BY <2>1, <2>2, RestEmpty DEF RestOK
<1>3. \A i \in Jobs : i # j => progress'[i] = progress[i]
  BY <1>0 DEF NextTask, JobTypeOK
<1>4. UNCHANGED <<to, relay, from, round, chats>>
  BY DEF NextTask
<1> QED  BY <1>2, <1>3, <1>4 DEF Lockstep

LEMMA LockWorker ==
  ASSUME TypeInv, OwnInv, ChatInv, Lockstep, NEW w \in Workers, ProcessJob(w)
  PROVE  Lockstep'
<1> USE DEF chatVars, serveVars, queryVars, jobVars, originVars, instrVars
<1> DEFINE Calm == UNCHANGED <<progress, round, to, from, relay, chats>>
<1>1. ASSUME JobExpired(w) PROVE Calm
  BY <1>1 DEF JobExpired
<1>2. ASSUME StartJob(w) PROVE Calm
  BY <1>2 DEF StartJob
<1>3. ASSUME RequestTimeout(w) PROVE Calm
  BY <1>3 DEF RequestTimeout
<1>4. ASSUME OpenFails(w) PROVE Calm
  BY <1>4 DEF OpenFails
<1>5. ASSUME InstructDone(w) PROVE Calm
  BY <1>5 DEF InstructDone
<1>6. ASSUME FeedbackDone(w) PROVE Calm
  BY <1>6 DEF FeedbackDone
<1>7. ASSUME SetErr(w) PROVE Calm
  BY <1>7 DEF SetErr
<1>8. ASSUME CloseFeedback(w) PROVE Calm
  BY <1>8 DEF CloseFeedback
<1>9. ASSUME TakeJob(w) PROVE Calm
  BY <1>9 DEF TakeJob
<1>10. ASSUME Panic(w) PROVE Calm
  BY <1>10 DEF Panic
<1>11. ASSUME NEW p \in Peers, ReuseChat(w, p) PROVE Calm
  BY <1>11 DEF ReuseChat
<1>12. ASSUME NEW p \in Peers, RequestBlocks(w, p) PROVE Calm
  BY <1>12 DEF RequestBlocks
<1>13. ASSUME NEW p \in Peers, InstructTimeout(w, p) PROVE Calm
  BY <1>13 DEF InstructTimeout
<1>14. ASSUME NEW p \in Peers, PullWaits(w, p) PROVE Calm
  BY <1>14 DEF PullWaits
<1>15. ASSUME Calm PROVE Lockstep'
  BY <1>15, LockFrame
<1>16. ASSUME NEW S, NEW j \in Jobs, UNCHANGED <<progress, round, to, relay>>,
             RevokePeerChats(j, S),
             \A i \in Jobs, q \in Peers : from'[i][q] \subseteq from[i][q]
      PROVE  Lockstep'
  <2>1. \A i \in Jobs : chats'[i] \subseteq chats[i] /\ chats[i] \subseteq Peers
    <3>1. /\ \A i \in Jobs : i # j => chats'[i] = chats[i]
          /\ chats'[j] = chats[j] \ S
      BY <1>16, RevokeEffect
    <3> QED  BY <1>16, <3>1 DEF TypeInv, TypeOK, JobTypeOK
  <2> QED  BY <1>16, <2>1, LockFrame
<1>17. wpc[w] # "idle" => wjob[w] \in Jobs
  BY DEF TypeInv, TypeOK, WorkerTypeOK, Assigned
<1>18. ASSUME NEW p \in Peers, PullResult(w, p) PROVE Lockstep'
  <2>1. PICK S : RevokePeerChats(wjob[w], S)
    BY <1>18 DEF PullResult
  <2>2. \A i \in Jobs, q \in Peers : from'[i][q] \subseteq from[i][q]
    BY <1>18 DEF PullResult, TypeInv, TypeOK, ChatTypeOK
  <2> QED  BY <1>16, <1>17, <1>18, <2>1, <2>2 DEF PullResult
<1>19. ASSUME NEW p \in Peers, PullFails(w, p) PROVE Lockstep'
  BY <1>16, <1>17, <1>19 DEF PullFails
<1>20. CASE QueryDone(w)
  BY <1>16, <1>17, <1>20 DEF QueryDone
<1>21. CASE EndJob(w)
  BY <1>16, <1>17, <1>21 DEF EndJob, CloseAllChats
<1> HIDE DEF Calm
<1> QED
  BY <1>1, <1>2, <1>3, <1>4, <1>5, <1>6, <1>7, <1>8, <1>9, <1>10,
     <1>11, <1>12, <1>13, <1>14, <1>15, <1>18, <1>19, <1>20, <1>21,
     LockNextTask, LockRequestChat, LockInstruct DEF ProcessJob

LEMMA LockOriginator ==
  ASSUME TypeInv, OwnInv, ChatInv, Lockstep, NEW j \in Jobs, Originator(j)
  PROVE  Lockstep'
<1> USE DEF chatVars, serveVars, instrVars, originVars
<1>0. JobTypeOK
  BY DEF TypeInv, TypeOK
<1>1. CASE \/ SubmitTimeout(j) \/ Expire(j) \/ Enqueue(j) \/ EnqueueTimeout(j)
  BY <1>1, LockFrame DEF SubmitTimeout, Expire, Enqueue, EnqueueTimeout
<1>2. CASE Abort(j)
  <2>1. \A i \in Jobs : chats'[i] \subseteq chats[i]
    BY <1>2, RevokeEffect DEF Abort, CloseAllChats
  <2> QED  BY <1>2, <2>1, LockFrame DEF Abort
<1>3. ASSUME NEW S, NEW f, NEW n, NEW fl, SubmitJob(j, S, f, n, fl) PROVE Lockstep'
  BY <1>3, LockFrame DEF SubmitJob
<1>4. ASSUME NEW S, NEW f, NEW T, RecycleRefused(j, S, f, T) PROVE Lockstep'
  BY <1>4, LockFrame DEF RecycleRefused
<1>5. ASSUME NEW S, NEW f, NEW n, NEW fl, NEW done, Recycle(j, S, f, n, fl, done)
      PROVE  Lockstep'
  <2>1. \A i \in Jobs : chats'[i] \subseteq chats[i] /\ chats[i] \subseteq Peers
    BY <1>0, <1>5, RevokeEffect DEF Recycle, JobTypeOK
  <2>2. ~Driven(j)
    BY <1>5 DEF Recycle, isJobHalted, OwnInv, Placed
  <2>3. \A p \in chats[j] : to[j][p] = {} /\ relay[j][p] = {} /\ from[j][p] = {}
    BY <2>1, <2>2, RestBetween, RestEmpty
  <2>4. /\ \A i \in Jobs : i # j => round'[i] = round[i]
        /\ UNCHANGED <<to, relay, from, progress>>
    BY <1>0, <1>5 DEF Recycle, JobTypeOK
  <2> QED  BY <2>1, <2>3, <2>4 DEF Lockstep
<1>6. ASSUME NEW S, NEW f, Instruction(j, S, f) PROVE Lockstep'
  BY <1>3, <1>4, <1>5, <1>6 DEF Instruction
<1> QED  BY <1>1, <1>2, <1>6 DEF Originator

LEMMA NextLock == TypeInv /\ OwnInv /\ ChatInv /\ Lockstep /\ [Next]_vars => Lockstep'
<1> SUFFICES ASSUME TypeInv, OwnInv, ChatInv, Lockstep, [Next]_vars PROVE Lockstep'
  OBVIOUS
<1>1. CASE ChatNext /\ UNCHANGED <<queue, crashed, workerVars, jobVars>>
  BY <1>1, LockHandler DEF jobVars, originVars, instrVars
<1>2. ASSUME NEW w \in Workers, ProcessJob(w) PROVE Lockstep'
  BY <1>2, LockWorker
<1>3. ASSUME NEW w \in Workers, NEW r \in resps[w], SendFeedback(w, r) PROVE Lockstep'
  BY <1>3, LockFrame
  DEF SendFeedback, chatVars, serveVars, jobVars, originVars, instrVars
<1>4. ASSUME NEW j \in Jobs, Originator(j) PROVE Lockstep'
  BY <1>4, LockOriginator
<1>5. CASE UNCHANGED vars
  BY <1>5, LockFrame DEF vars, chatVars, serveVars, jobVars, originVars, instrVars
<1> QED  BY <1>1, <1>2, <1>3, <1>4, <1>5, NextCases

\* A chat that a job has open never carries anything of an earlier phase or of an
\* earlier attempt.
THEOREM PhasesDoNotMix == Spec => []Lockstep
<1>1. Init => Lockstep
  BY DEF Init, Lockstep
<1>2. TypeInv /\ OwnInv /\ ChatInv /\ Lockstep /\ [Next]_vars => Lockstep'
  BY NextLock
<1>3. Spec => [](TypeInv /\ OwnInv /\ ChatInv)
  <2>1. Init => TypeInv /\ OwnInv /\ ChatInv
    BY InitType, InitOwn, InitChat
  <2>2. TypeInv /\ OwnInv /\ ChatInv /\ [Next]_vars => TypeInv' /\ OwnInv' /\ ChatInv'
    BY NextType, NextOwn, NextChat
  <2> QED  BY <2>1, <2>2, PTL DEF Spec
<1> QED  BY <1>1, <1>2, <1>3, PTL DEF Spec

=============================================================================
