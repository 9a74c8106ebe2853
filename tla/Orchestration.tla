--------------------------- MODULE Orchestration ---------------------------
(***************************************************************************)
(* FifoOrchestration.Request (orchestration/orchestration.go) with the     *)
(* aggregator (orchestration/aggregation), as the originator of the jobs   *)
(* of module Worker.  Job j is the one that one call of Request submits.   *)
(* The preprocessing pipeline is any function that fails or selects some   *)
(* peers: the directory it asks knows the peers online only with a delay.  *)
(***************************************************************************)
EXTENDS Worker

CONSTANT NaN  \* the result that differs from itself

VARIABLES
  rpc,     \* where the call stands
  msgBuf,  \* Process's msgBuf: results, each with its phase
  result,  \* the result Request holds or returned: at most one
  err      \* the err that Request returns is not nil

requestVars == <<rpc, msgBuf, result, err>>
allVars     == <<vars, requestVars>>

RequestFlags  == {32, 128}   \* ERR_CLASS_NORM | ERR_CLASS_COMM
ResubmitFlags == {}

ASSUME RequestAssumption == {RequestFlags, ResubmitFlags} \subseteq FlagChoices

RequestTypeOK ==
  /\ rpc \in [Jobs -> {"ready", "submit", "process", "resubmit", "enqueue",
                       "abort", "done"}]
  /\ msgBuf \in [Jobs -> SUBSET [phase : Nat, peer : Peers, val : SUBSET Vals]]
  /\ result \in [Jobs -> SUBSET Vals]
  /\ err \in [Jobs -> BOOLEAN]

OrchInit ==
  /\ Init
  /\ rpc = [j \in Jobs |-> "ready"]
  /\ msgBuf = [j \in Jobs |-> {}]
  /\ result = [j \in Jobs |-> {}]
  /\ err = [j \in Jobs |-> FALSE]

Reach(j, place) == rpc' = [rpc EXCEPT ![j] = place]

\* Mutant: a call that fails leaves a placeholder for its result.
FailWithResult(j, place) ==
  /\ Reach(j, place)
  /\ err' = [err EXCEPT ![j] = TRUE]
  /\ result' = [result EXCEPT ![j] = {NoJob}]
  /\ UNCHANGED msgBuf

Fail(j, place) ==
  /\ Reach(j, place)
  /\ err' = [err EXCEPT ![j] = TRUE]
  /\ UNCHANGED <<msgBuf, result>>

-----------------------------------------------------------------------------
(* Aggregator.Process *)

Phase(j, k) == {m \in msgBuf[j] : m.phase = k}

\* Mutant: results are not compared.
ConsistentAlways(j, k) == TRUE

\* analyzeResultConsistency: all results of the phase are the same.
Consistent(j, k) ==
  \A m, n \in Phase(j, k) : m.val = n.val /\ NaN \notin m.val

\* Process returns an error; Request tries once more, or gives up.
ProcessFails(j) == Fail(j, IF round[j] = 0 THEN "resubmit" ELSE "abort")

\* A result arrives.  One of a new phase has the phases before it analysed, and
\* is dropped if they are inconsistent; the worker is not told.
ReceiveResult(j, w, r) ==
  /\ rpc[j] = "process" /\ wjob[w] = j
  /\ SendFeedback(w, r)
  /\ LET before == {m.phase : m \in msgBuf[j]} \ {progress[j]} IN
       IF Phase(j, progress[j]) # {} \/ \A k \in before : Consistent(j, k)
         THEN /\ msgBuf' = [msgBuf EXCEPT ![j] = @ \cup
                   {[phase |-> progress[j], peer |-> r.peer, val |-> r.val]}]
              /\ UNCHANGED <<rpc, result, err>>
         ELSE ProcessFails(j)

\* The stream of results has ended well: there is a consistent final result.
Complete(j) ==
  /\ lastErr[j] = "nil"
  /\ Phase(j, 0) # {}
  /\ Consistent(j, ntasks[j] - 1)

\* The job's feedback channel is closed.  The result is returned with the error
\* of the outer scope, which a successful second attempt leaves as it is.
StreamEnds(j) ==
  /\ rpc[j] = "process"
  /\ feedback[j] = "closed"
  /\ IF Complete(j)
       THEN /\ \E m \in Phase(j, ntasks[j] - 1) :
                 result' = [result EXCEPT ![j] = m.val]
            /\ Reach(j, "done")
            /\ UNCHANGED <<msgBuf, err>>
       ELSE ProcessFails(j)
  /\ UNCHANGED vars

\* Mutant: the aggregator does not watch the context.
IgnoreContext(j) == FALSE

\* The context ends first: whoever sends the results is left alone.
ProcessTimeout(j) ==
  /\ rpc[j] = "process"
  /\ ctxDone[j]
  /\ ProcessFails(j)
  /\ UNCHANGED vars

-----------------------------------------------------------------------------
(* Request *)

\* The pipeline selects participants, or fails every time.
CallRequest(j) ==
  /\ rpc[j] = "ready"
  /\ \/ Reach(j, "submit") /\ UNCHANGED <<msgBuf, result, err>>
     \/ Fail(j, "done")
  /\ UNCHANGED vars

Submit(j, S, f, n) ==
  /\ rpc[j] = "submit"
  /\ SubmitJob(j, S, f, n, RequestFlags)
  /\ Reach(j, "process")
  /\ UNCHANGED <<msgBuf, result, err>>

SubmitFails(j) == rpc[j] = "submit" /\ SubmitTimeout(j) /\ Fail(j, "done")

\* Fewer participants than before: the same job gets a second attempt.
Resubmit(j, S, f) ==
  /\ rpc[j] = "resubmit"
  /\ Cardinality(S) < Cardinality(parts[j])
  /\ \/ /\ Recycle(j, S, f, ntasks[j], ResubmitFlags, ctxDone[j])
        /\ Reach(j, "enqueue")
        /\ msgBuf' = [msgBuf EXCEPT ![j] = {}]
        /\ UNCHANGED <<result, err>>
     \/ \E T \in SUBSET S : RecycleRefused(j, S, f, T) /\ Fail(j, "done")
     \/ ~isJobHalted(j) /\ Fail(j, "done") /\ UNCHANGED vars

\* The pipeline fails the second time ...
ResubmitFails(j) ==
  /\ rpc[j] = "resubmit"
  /\ Fail(j, "done")
  /\ UNCHANGED vars

\* ... or finds as many participants as before.
NothingChanged(j) ==
  /\ rpc[j] = "resubmit"
  /\ Reach(j, "abort")
  /\ UNCHANGED <<vars, msgBuf, result, err>>

Reschedule(j) ==
  /\ rpc[j] = "enqueue"
  /\ \/ Enqueue(j) /\ Reach(j, "process") /\ UNCHANGED <<msgBuf, result, err>>
     \/ EnqueueTimeout(j) /\ Fail(j, "done")

\* job.Abort(), whose error is ignored, and the end of Request.
GiveUp(j) ==
  /\ rpc[j] = "abort"
  /\ \/ Abort(j)
     \/ ~isJobHalted(j) /\ UNCHANGED vars
  /\ Reach(j, "done")
  /\ UNCHANGED <<msgBuf, result, err>>

\* The deadline the caller gave its context passes.
Deadline(j) ==
  /\ rpc[j] # "ready"
  /\ Expire(j)
  /\ UNCHANGED requestVars

-----------------------------------------------------------------------------

Receive(j) == \E w \in Workers : \E r \in resps[w] : ReceiveResult(j, w, r)

\* What the goroutine calling Request does on its own.
Request(j) ==
  \/ SubmitFails(j) \/ Receive(j) \/ StreamEnds(j) \/ ProcessTimeout(j)
  \/ ResubmitFails(j) \/ NothingChanged(j) \/ Reschedule(j) \/ GiveUp(j)
  \/ rpc[j] \in {"submit", "resubmit"} /\
     \E S \in (SUBSET Peers) \ {{}} : \E f \in Numberings(S) :
       \/ \E n \in TaskCounts : Submit(j, S, f, n)
       \/ Resubmit(j, S, f)

Work(w) == ProcessJob(w) /\ UNCHANGED requestVars

Serve(j, p) ==
  ChatLoop(j, p) /\ UNCHANGED <<poolVars, workerVars, jobVars, requestVars>>

Environment ==
  ChatNext /\ UNCHANGED <<poolVars, workerVars, jobVars, requestVars>>

OrchNext ==
  /\ ~crashed
  /\ \/ Environment
     \/ \E w \in Workers : Work(w)
     \/ \E j \in Jobs : CallRequest(j) \/ Request(j) \/ Deadline(j)

OrchSpec == OrchInit /\ [][OrchNext]_allVars

\* Every caller of Request sets a deadline, and its goroutine goes on when it can.
CallerFairness ==
  \A j \in Jobs : WF_allVars(~crashed /\ Request(j)) /\ WF_allVars(~crashed /\ Deadline(j))

CallerSpec == OrchSpec /\ CallerFairness

\* So do the workers and the stream handlers.  A peer asked over a live stream
\* answers, or its stream breaks.
Fairness ==
  /\ CallerFairness
  /\ \A w \in Workers : WF_allVars(~crashed /\ Work(w))
  /\ \A j \in Jobs, p \in Peers : WF_allVars(~crashed /\ Serve(j, p))

FairSpec == OrchSpec /\ Fairness

-----------------------------------------------------------------------------
(* Properties *)

\* A result is returned only if, in every phase, every participant of the job's
\* last instruction answered, and all of them reported that result in the last
\* phase.
ResultSound ==
  \A j \in Jobs : result[j] # {} =>
    /\ \A k \in 0..(ntasks[j] - 1) : parts[j] \subseteq {m.peer : m \in Phase(j, k)}
    /\ \A m \in Phase(j, ntasks[j] - 1) : result[j] = m.val

\* If Process reads a first phase and no error at the end of the stream, there
\* is a final phase too: msgBuf[finalResultIndex][0] is never out of range.
FinalPhaseReported ==
  \A j \in Jobs :
    rpc[j] = "process" /\ feedback[j] = "closed" /\ Complete(j)
      => Phase(j, ntasks[j] - 1) # {}

\* Every call of Request returns, even if peers and workers do nothing more.
RequestReturns ==
  \A j \in Jobs : rpc[j] # "ready" ~> rpc[j] = "done" \/ crashed

\* queryTargetsSync ends: it gets an answer from each peer or the context ends.
QueryEnds ==
  \A w \in Workers :
    wpc[w] \in {"instruct", "pull", "wait"} ~> wpc[w] = "feedback" \/ crashed

\* The handler of a chat the gateway has closed returns and frees its stream.
ClosedChatEnds ==
  \A j \in Jobs, p \in Peers : closed[j][p] ~> handler[j][p] = "gone" \/ crashed

\* What the code's comments say of it, and what it does not do.

\* Requests may be made and time out concurrently with the workers ("thread-safe",
\* orchestration.go): no channel is used after it was closed.
NoPanic == ~crashed

\* A second attempt that succeeds suffices (orchestration.go): its result is
\* returned without an error.
SecondAttemptSuffices ==
  \A j \in Jobs : rpc[j] = "done" /\ result[j] # {} => ~err[j]

\* A queued job is soon started by an available worker (SubmitJob, comm.go).
QueuedJobStarts ==
  \A j \in Jobs :
    (\E i \in DOMAIN queue : queue[i] = j)
      ~> (\E w \in Workers : wjob[w] = j) \/ crashed
=============================================================================
