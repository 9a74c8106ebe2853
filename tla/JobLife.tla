------------------------------ MODULE JobLife ------------------------------
(***************************************************************************)
(* What the worker pool promises about a job, whatever workers, originator *)
(* and peers do meanwhile: it is queued, driven through its phases one by  *)
(* one, and ends; or it is halted, refilled with fewer peers and queued    *)
(* once more, to go on in the phase it was halted in.  A job that is over  *)
(* is never driven again.  Module Worker implements it.                    *)
(***************************************************************************)
EXTENDS Naturals

CONSTANTS
  JobSet,    \* jobs of all originators
  Attempts   \* how often a job may be queued

VARIABLES
  stage,    \* where a job is
  phase,    \* the phase it is in, or waits for
  attempt   \* how often it was refilled

lifeVars == <<stage, phase, attempt>>

LifeInit ==
  /\ stage = [j \in JobSet |-> "new"]
  /\ phase = [j \in JobSet |-> 0]
  /\ attempt = [j \in JobSet |-> 0]

Move(j, from, to) == stage[j] = from /\ stage' = [stage EXCEPT ![j] = to]

\* SubmitJob and RescheduleOpenJob queue the job, a worker takes it.
Queue(j) ==
  /\ Move(j, "new", "queued") \/ Move(j, "refilled", "queued")
  /\ UNCHANGED <<phase, attempt>>

Drive(j) == Move(j, "queued", "running") /\ UNCHANGED <<phase, attempt>>

\* All peers have answered; the worker starts with the next phase, or finds none.
Advance(j) ==
  /\ stage[j] = "running"
  /\ phase' = [phase EXCEPT ![j] = @ + 1]
  /\ UNCHANGED <<stage, attempt>>

\* An error halts the job for its originator ...
Halt(j) == Move(j, "running", "halted") /\ UNCHANGED <<phase, attempt>>

\* ... who refills it at most Attempts - 1 times.
Refill(j) ==
  /\ attempt[j] + 1 < Attempts
  /\ Move(j, "halted", "refilled")
  /\ attempt' = [attempt EXCEPT ![j] = @ + 1]
  /\ UNCHANGED phase

\* The job finishes or is aborted, or is never queued for want of room.
Finish(j) ==
  /\ stage[j] \in {"new", "running", "halted", "refilled"}
  /\ stage' = [stage EXCEPT ![j] = "over"]
  /\ UNCHANGED <<phase, attempt>>

Step(j) == Queue(j) \/ Drive(j) \/ Advance(j) \/ Halt(j) \/ Refill(j) \/ Finish(j)

\* Each step takes one job on; one that changes nothing is left to LifeSpec.
LifeNext == lifeVars' # lifeVars /\ \E j \in JobSet : Step(j)

LifeSpec == LifeInit /\ [][LifeNext]_lifeVars
=============================================================================
