------------------------------ MODULE Pipeline ------------------------------
(***************************************************************************)
(* The preprocessing pipeline (orchestration/pipeline): how a task becomes *)
(* a JobInstruction.  Several Requests run it at once, each over its own   *)
(* instruction, but all read the same directory, which changes meanwhile,  *)
(* and PhaseBuilder writes the ports of the shared PeerInfo objects.       *)
(*                                                                         *)
(* The directory is its abstract view, module Roster.  Pipes that run for  *)
(* debug aggregators are GroupMap, OnlineFilter and DbgPingPong.           *)
(***************************************************************************)
EXTENDS Roster, FiniteSets, Sequences, SequencesExt

CONSTANTS
  Requests,       \* calls of Request, at once or one after the other
  TaskOptions,    \* the options tasks may carry
  Debug,          \* OnlineFilter.Debug
  pipeMaxRetries  \* attempts of ProcessWithRetry

ASSUME PipelineAssumption ==
  /\ Peers \subseteq Nat \ {0} /\ IsFiniteSet(Peers)
  /\ pipeMaxRetries \in Nat \ {0} /\ Debug \in BOOLEAN

(***************************************************************************)
(* A task's options: minNumPeers and maxNumPeers (0: not given),           *)
(* sortPeerIDs, useLinkingPhase, and the number of ping phases of its      *)
(* aggregator (0: no debug aggregator).                                    *)
(***************************************************************************)
SMCTask == [min : Nat, max : Nat, sorted : BOOLEAN, link : BOOLEAN, pings : {0, 1, 10, 100}]

ASSUME TaskAssumption == TaskOptions \subseteq SMCTask

VARIABLES
  port,   \* per peer PeerInfo.Addr.Port above 10000 (0: none assigned)
  prep    \* per Request: where its pipeline stands, and the instruction so far

pipeVars == <<rosterVars, port, prep>>

None == [pc |-> "none"]

PipeInit ==
  /\ RosterInit
  /\ port = [p \in Peers |-> 0]
  /\ prep = [r \in Requests |-> None]

Participants(r) == {prep[r].parts[c] : c \in DOMAIN prep[r].parts}

\* Ways to number the peers of S from 1 on: the order of a map is arbitrary.
Numberings(S) == SetToSeqs(S)

-----------------------------------------------------------------------------
\* unset: what the test of the port of channel cur found.  Two ghost values collect
\* the participants whose port is not this build's alone: odd those that had one
\* when it was tested or that pinged during the build, and raced those whose port
\* another build wrote between this one's write and its reading.
Process(r, task, attempt) ==
  prep' = [prep EXCEPT ![r] =
    [pc |-> "group", task |-> task, attempt |-> attempt, parts |-> <<>>, cand |-> {},
     todo |-> {}, cur |-> 0, unset |-> FALSE, ends |-> <<>>, odd |-> {}, raced |-> {},
     tasks |-> <<>>]]

ProcessWithRetry(r, task) ==
  /\ prep[r] = None
  /\ Process(r, task, 1)
  /\ UNCHANGED <<rosterVars, port>>

GroupMap(r) ==
  /\ prep[r].pc = "group"
  /\ \E list \in Numberings(known) :
       prep' = [prep EXCEPT ![r].parts = list, ![r].pc = "filter"]
  /\ UNCHANGED <<rosterVars, port>>

minParties(task) == IF Debug /\ task.min > 0 THEN task.min ELSE 1
maxParties(task) == IF Debug /\ task.max >= minParties(task) THEN task.max
                    ELSE Cardinality(Peers)

\* The channel IDs that the loop over the list of participants may leave: it
\* takes those online until there are enough, in the order of the peer IDs or in
\* that of a map, which is any.
Least(m, n) == IF m < n THEN m ELSE n

\* Mutant: the limit is compared after counting.
SelectOneMore(task, parts, on) ==
  LET live == {c \in DOMAIN parts : parts[c] \in on} IN
    {S \in SUBSET live : Cardinality(S) = Least(maxParties(task) + 1, Cardinality(live))}

\* Mutant: the list is not sorted.
SelectUnsorted(task, parts, on) ==
  LET live == {c \in DOMAIN parts : parts[c] \in on} IN
    {S \in SUBSET live : Cardinality(S) = Least(maxParties(task), Cardinality(live))}

Selections(task, parts, on) ==
  LET live == {c \in DOMAIN parts : parts[c] \in on} IN
    {S \in SUBSET live :
       /\ Cardinality(S) = Least(maxParties(task), Cardinality(live))
       /\ Debug /\ task.sorted => \A c \in S, d \in live \ S : parts[c] < parts[d]}

\* The watcher is asked after the registry.
OnlineFilter(r) ==
  /\ prep[r].pc = "filter"
  /\ LET task == prep[r].task IN
       \E left \in Selections(task, prep[r].parts, online) :
         IF Cardinality(left) >= minParties(task)
         THEN prep' = [prep EXCEPT
                ![r].parts = [c \in left |-> @[c]],
                ![r].cand  = Participants(r) \cap online,
                ![r].pc    = IF task.pings > 0 THEN "ping" ELSE "number"]
         ELSE IF prep[r].attempt < pipeMaxRetries
              THEN Process(r, task, prep[r].attempt + 1)
              ELSE prep' = [prep EXCEPT ![r] = [pc |-> "failed"]]
  /\ UNCHANGED <<rosterVars, port>>

ContinousChanID(r) ==
  /\ prep[r].pc = "number"
  /\ \E list \in Numberings(Participants(r)) :
       prep' = [prep EXCEPT ![r].parts = list, ![r].todo = DOMAIN list, ![r].pc = "ports"]
  /\ UNCHANGED <<rosterVars, port>>

-----------------------------------------------------------------------------
(* PhaseBuilder reads and writes p.Addr of every participant without the    *)
(* lock that Touch holds: its test of the port, the write and the reading    *)
(* are steps that those of other builds may come between.                   *)

TestPort(r) ==
  /\ prep[r].pc = "ports" /\ prep[r].cur = 0
  /\ \E c \in prep[r].todo :
       LET p == prep[r].parts[c] IN
         prep' = [prep EXCEPT ![r].cur = c, ![r].unset = (port[p] = 0),
                    ![r].odd = IF port[p] = 0 THEN @ ELSE @ \cup {p}]
  /\ UNCHANGED <<rosterVars, port>>

\* A build that has settled the port of p and is about to read it.
Reads(q, p) ==
  /\ prep[q].pc = "ports" /\ prep[q].cur # 0 /\ ~prep[q].unset
  /\ prep[q].parts[prep[q].cur] = p

\* What build r's write to the port of p does to the builds.
Written(r, p) ==
  prep' = [q \in Requests |->
    IF q = r THEN [prep[q] EXCEPT !.unset = FALSE]
    ELSE IF Reads(q, p) THEN [prep[q] EXCEPT !.raced = @ \cup {p}] ELSE prep[q]]

\* Mutant: the port range starts one too high.
PortAbove(r) ==
  /\ prep[r].pc = "ports" /\ prep[r].unset
  /\ LET c == prep[r].cur p == prep[r].parts[c] IN
       port' = [port EXCEPT ![p] = c + 1] /\ Written(r, p)
  /\ UNCHANGED rosterVars

WritePort(r) ==
  /\ prep[r].pc = "ports" /\ prep[r].unset
  /\ LET c == prep[r].cur p == prep[r].parts[c] IN
       port' = [port EXCEPT ![p] = c] /\ Written(r, p)
  /\ UNCHANGED rosterVars

Endpoint(r) ==
  /\ prep[r].pc = "ports" /\ prep[r].cur # 0 /\ ~prep[r].unset
  /\ LET c == prep[r].cur IN
       prep' = [prep EXCEPT ![r].cur = 0, ![r].todo = @ \ {c},
                  ![r].ends = [d \in (DOMAIN @) \cup {c} |->
                                 IF d = c THEN port[prep[r].parts[c]] ELSE @[d]]]
  /\ UNCHANGED <<rosterVars, port>>

Phases(task) == <<"prepare">> \o (IF task.link THEN <<"link">> ELSE <<>>) \o <<"session">>

PhaseBuilder(r) ==
  /\ prep[r].pc = "ports" /\ prep[r].todo = {} /\ prep[r].cur = 0
  /\ prep' = [prep EXCEPT ![r].tasks = Phases(prep[r].task), ![r].pc = "done"]
  /\ UNCHANGED <<rosterVars, port>>

\* A debug phase knows how many follow it.
DbgPingPong(r) ==
  /\ prep[r].pc = "ping"
  /\ prep' = [prep EXCEPT ![r].pc = "done",
       ![r].tasks = [i \in 1..prep[r].task.pings |->
                       IF i < prep[r].task.pings THEN "more" ELSE "last"]]
  /\ UNCHANGED <<rosterVars, port>>

\* A ping or a new stream of the peer resets its address (PeerInfo.Touch).
Touch(p) ==
  /\ p \in known
  /\ port' = [port EXCEPT ![p] = 0]
  /\ prep' = [r \in Requests |->
       IF prep[r].pc = "ports" THEN [prep[r] EXCEPT !.odd = @ \cup {p}] ELSE prep[r]]
  /\ UNCHANGED rosterVars

-----------------------------------------------------------------------------
Request(r) ==
  \/ \E task \in TaskOptions : ProcessWithRetry(r, task)
  \/ GroupMap(r) \/ OnlineFilter(r) \/ ContinousChanID(r)
  \/ TestPort(r) \/ WritePort(r) \/ Endpoint(r) \/ PhaseBuilder(r) \/ DbgPingPong(r)

PipeNext ==
  \/ \E r \in Requests : Request(r)
  \/ RosterNext /\ UNCHANGED <<port, prep>>
  \/ \E p \in Peers : Touch(p)

PipeSpec == PipeInit /\ [][PipeNext]_pipeVars

-----------------------------------------------------------------------------
(* Properties *)

Done(r) == prep[r].pc = "done"

\* What the job engine relies on: a job has participants, each peer once, as
\* many as were asked for and no more, numbered 1..n for the SMC backend
\* (contchans.go:11), whatever joined or left while the pipes ran.  Debug
\* aggregators have no numbering pipe and promise only the rest.
InstructionSound ==
  \A r \in Requests : Done(r) =>
    LET n == Cardinality(Participants(r)) task == prep[r].task IN
      /\ n = Cardinality(DOMAIN prep[r].parts)
      /\ n \in minParties(task)..maxParties(task)
      /\ Participants(r) \subseteq known
      /\ task.pings = 0 => DOMAIN prep[r].parts = 1..n /\ DOMAIN prep[r].ends = 1..n

\* "Sort peer IDs to produce deterministic set of nodes" (onlinefilter.go:32): a
\* sorted task takes a peer again if it took it when at least the same peers were
\* online, so the same peers online give the same selection; and it leaves nobody
\* out who is online while the limit has room.  This is about the nodes only: the
\* "communication paths" that the comment goes on to ask for are not kept, since
\* ContinousChanID numbers the nodes in the order of a map.
SelectionDeterministic ==
  \A r, q \in Requests :
    Done(r) /\ Done(q) /\ Debug /\ prep[r].task.sorted /\ prep[q].task.sorted
      /\ maxParties(prep[r].task) = maxParties(prep[q].task)
      /\ prep[r].cand \subseteq prep[q].cand
    => /\ Participants(q) \cap prep[r].cand \subseteq Participants(r)
       /\ \/ Participants(r) = prep[r].cand
          \/ Cardinality(Participants(r)) = maxParties(prep[r].task)

\* "use continous port range" (phasebuilder.go:29): a participant's endpoint has
\* the port of its channel ID.  The exceptions are the three the code leaves open: a
\* port kept from an earlier instruction, a ping while the phases are built, and
\* another build that also found no port and writes between write and reading.
PortsFollowChannels ==
  \A r \in Requests : Done(r) =>
    \A c \in DOMAIN prep[r].ends :
      prep[r].parts[c] \notin prep[r].odd \cup prep[r].raced => prep[r].ends[c] = c
=============================================================================
