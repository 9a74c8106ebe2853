--------------------------- MODULE PipelineProofs ---------------------------
(***************************************************************************)
(* Theorems about module Pipeline, for any number of peers, requests and   *)
(* task options: the instruction that the pipes build is sound, whatever   *)
(* the directory and the other requests do meanwhile.                      *)
(***************************************************************************)
EXTENDS Pipeline, FiniteSetTheorems, TLAPS

-----------------------------------------------------------------------------
(* The inductive invariant *)

\* The build of an instruction has begun and has not failed.
IsBuild(b) ==
  /\ DOMAIN b = {"pc", "task", "attempt", "parts", "cand", "todo", "cur", "unset", "ends",
               "odd", "raced", "tasks"}
  /\ b.pc \in {"group", "filter", "ping", "number", "ports", "done"}
  /\ b.task \in TaskOptions

\* Participants whose port is not this build's alone.
Shared(b) == b.odd \cup b.raced

Listed(b) == {b.parts[c] : c \in DOMAIN b.parts}

\* The participants: each is a peer of the registry and has one channel ID.
ListOK(b) ==
  /\ IsFiniteSet(DOMAIN b.parts)
  /\ Listed(b) \subseteq known
  /\ \A c, d \in DOMAIN b.parts : b.parts[c] = b.parts[d] => c = d

\* Those selected among the peers that were online when the filter asked.
PickOK(b) ==
  /\ Listed(b) \subseteq b.cand /\ b.cand \subseteq known
  /\ Cardinality(Listed(b)) = Least(maxParties(b.task), Cardinality(b.cand))
  /\ Cardinality(Listed(b)) >= minParties(b.task)
  /\ Debug /\ b.task.sorted => \A p \in Listed(b), q \in b.cand \ Listed(b) : p < q

\* The endpoints so far, and the port of the one under way, once it is settled.
PortsOK(b) ==
  /\ \A c \in DOMAIN b.ends : b.parts[c] \notin Shared(b) => b.ends[c] = c
  /\ b.cur # 0 /\ ~b.unset /\ b.parts[b.cur] \notin Shared(b) => port[b.parts[b.cur]] = b.cur

\* Which channels have their endpoints.
EndsOK(b) ==
  /\ b.pc \in {"group", "filter", "ping", "number"} => DOMAIN b.ends = {} /\ b.cur = 0
  /\ b.pc = "ports" =>
       /\ DOMAIN b.ends = DOMAIN b.parts \ b.todo
       /\ b.todo \subseteq DOMAIN b.parts
       /\ b.cur # 0 => b.cur \in b.todo
  /\ b.unset => b.pc = "ports" /\ b.cur # 0
  /\ b.pc = "done" /\ b.task.pings = 0 => DOMAIN b.ends = DOMAIN b.parts
  /\ b.pc = "done" => b.cur = 0
  /\ b.pc = "done" /\ b.task.pings # 0 => DOMAIN b.ends = {}

\* Where the build stands.
StageOK(b) ==
  /\ b.pc # "group" => ListOK(b)
  /\ b.pc \in {"ping", "number", "ports", "done"} => PickOK(b)
  /\ b.pc = "ping" => b.task.pings # 0
  /\ b.pc \in {"number", "ports"} => b.task.pings = 0
  /\ b.pc = "ports" \/ (b.pc = "done" /\ b.task.pings = 0) =>
       DOMAIN b.parts = 1..Cardinality(DOMAIN b.parts)

BuildOK(b) == IsBuild(b) /\ StageOK(b) /\ EndsOK(b) /\ PortsOK(b)

SharedOK ==
  /\ known \subseteq Peers /\ online \subseteq known
  /\ port \in [Peers -> Nat]
  /\ DOMAIN prep = Requests

PipeInv ==
  /\ SharedOK
  /\ \A r \in Requests : prep[r].pc \in {"none", "failed"} \/ BuildOK(prep[r])


-----------------------------------------------------------------------------
(* Lists, their peers and their sizes *)

\* Numbering different peers keeps their number.
LEMMA ImageCount ==
  ASSUME NEW S, IsFiniteSet(S), NEW f, \A c, d \in S : f[c] = f[d] => c = d
  PROVE  /\ IsFiniteSet({f[c] : c \in S})
         /\ Cardinality({f[c] : c \in S}) = Cardinality(S)
<1> DEFINE T == {f[c] : c \in S}
           g == [c \in S |-> f[c]]
<1>1. g \in Surjection(S, T) /\ g \in Injection(S, T)
  BY DEF Surjection, Injection, IsInjective
<1> HIDE DEF g, T
<1>2. IsFiniteSet(T) /\ Cardinality(T) = Cardinality(S)
  BY <1>1, FS_Surjection
<1> QED  BY <1>2 DEF T

\* A numbering of a set reaches all of it.
LEMMA NumberingAll ==
  ASSUME NEW S, IsFiniteSet(S), NEW f \in Numberings(S)
  PROVE  /\ DOMAIN f = 1..Cardinality(S)
         /\ IsFiniteSet(DOMAIN f) /\ Cardinality(DOMAIN f) = Cardinality(S)
         /\ \A c, d \in DOMAIN f : f[c] = f[d] => c = d
         /\ {f[c] : c \in DOMAIN f} = S
<1>1. PICK n \in Nat : n = Cardinality(S)
  BY FS_CardinalityType
<1>2. f \in [1..n -> S] /\ \A c, d \in 1..n : f[c] = f[d] => c = d
  BY <1>1 DEF Numberings, SetToSeqs
<1>3. IsFiniteSet(1..n) /\ Cardinality(1..n) = n
  BY FS_Interval
<1>4. f \in Injection(1..n, S)
  BY <1>2 DEF Injection, IsInjective
<1>5. f \in Surjection(1..n, S)
  BY <1>1, <1>3, <1>4, FS_Injection
<1>6. {f[c] : c \in 1..n} = S
  BY <1>2, <1>5 DEF Surjection
<1> QED  BY <1>1, <1>2, <1>3, <1>6

LEMMA ListCount ==
  ASSUME NEW b, ListOK(b)
  PROVE  /\ IsFiniteSet(Listed(b))
         /\ Cardinality(Listed(b)) = Cardinality(DOMAIN b.parts)
         /\ Cardinality(Listed(b)) \in Nat
BY ImageCount, FS_CardinalityType DEF ListOK, Listed

LEMMA PartyTypes ==
  ASSUME NEW task \in TaskOptions
  PROVE  minParties(task) \in Nat /\ maxParties(task) \in Nat
<1>1. Cardinality(Peers) \in Nat
  BY PipelineAssumption, FS_CardinalityType
<1>2. task.min \in Nat /\ task.max \in Nat
  BY TaskAssumption DEF SMCTask
<1> QED  BY <1>1, <1>2 DEF minParties, maxParties

\* The least m of a set, as far as they are in a part of it, are among the least m
\* of the part.
LEMMA LeastKept ==
  ASSUME NEW D, D \subseteq Nat, IsFiniteSet(D), NEW C \in SUBSET D, NEW m \in Nat,
         NEW A \in SUBSET C, Cardinality(A) = Least(m, Cardinality(C)),
         NEW B \in SUBSET D, Cardinality(B) = Least(m, Cardinality(D)),
         \A x \in A, y \in C \ A : x < y,
         \A x \in B, y \in D \ B : x < y
  PROVE  B \cap C \subseteq A
<1> SUFFICES ASSUME NEW x \in B, x \in C, x \notin A PROVE FALSE
  OBVIOUS
<1>1. IsFiniteSet(A) /\ IsFiniteSet(B) /\ IsFiniteSet(C)
  BY FS_Subset
<1>2. /\ Cardinality(A) \in Nat /\ Cardinality(B) \in Nat
      /\ Cardinality(C) \in Nat /\ Cardinality(D) \in Nat
  BY <1>1, FS_CardinalityType
<1>3. Cardinality(A) # Cardinality(C)
  BY <1>1, FS_Subset
<1>4. Cardinality(A) = m /\ Cardinality(B) <= m
  BY <1>2, <1>3 DEF Least
<1>5. A \subseteq B
  <2>1. SUFFICES ASSUME NEW y \in A, y \notin B PROVE FALSE
    OBVIOUS
  <2>2. y < x /\ x < y /\ x \in Nat /\ y \in Nat
    BY <2>1
  <2> QED  BY <2>2
<1>6. Cardinality(A) <= Cardinality(B) /\ Cardinality(A) # Cardinality(B)
  BY <1>1, <1>5, FS_Subset
<1> QED  BY <1>2, <1>4, <1>6

-----------------------------------------------------------------------------
(* The pipes *)

\* What others do to the registry leaves a build as it was.
LEMMA BuildFrame ==
  ASSUME NEW b, BuildOK(b), known \subseteq known', port' = port
  PROVE  BuildOK(b)'
<1>1. ListOK(b) => ListOK(b)'
  BY DEF ListOK
<1>2. PickOK(b) => PickOK(b)'
  BY DEF PickOK
<1>3. PortsOK(b)'
  BY DEF BuildOK, PortsOK
<1> QED  BY <1>1, <1>2, <1>3 DEF BuildOK, IsBuild, StageOK, EndsOK

\* A build that begins, or begins again.
LEMMA ProcessStep ==
  ASSUME SharedOK, NEW r \in Requests, NEW task \in TaskOptions, NEW k, Process(r, task, k)
  PROVE  BuildOK(prep[r])'
<1>1. PICK c : c = prep'[r]
  OBVIOUS
<1>2. c = [pc |-> "group", task |-> task, attempt |-> k, parts |-> <<>>, cand |-> {},
           todo |-> {}, cur |-> 0, unset |-> FALSE, ends |-> <<>>, odd |-> {}, raced |-> {},
           tasks |-> <<>>]
  BY <1>1 DEF Process, SharedOK
<1>3. IsBuild(c) /\ c.pc = "group" /\ c.cur = 0 /\ ~c.unset /\ c.ends = <<>>
  BY <1>2 DEF IsBuild
<1>4. DOMAIN c.ends = {}
  BY <1>3
<1>5. BuildOK(c)'
  BY <1>3, <1>4 DEF BuildOK, IsBuild, StageOK, EndsOK, PortsOK
<1> QED  BY <1>1, <1>5

LEMMA GroupStep ==
  ASSUME PipeInv, NEW r \in Requests, GroupMap(r)
  PROVE  BuildOK(prep[r])'
<1>1. PICK b, c : b = prep[r] /\ c = prep'[r]
  OBVIOUS
<1>2. BuildOK(b) /\ b.pc = "group"
  BY <1>1 DEF GroupMap, PipeInv
<1>3. PICK list \in Numberings(known) : c = [b EXCEPT !.parts = list, !.pc = "filter"]
  BY <1>1 DEF GroupMap, PipeInv, SharedOK
<1>4. /\ DOMAIN c = DOMAIN b /\ c.pc = "filter" /\ c.parts = list
      /\ c.task = b.task /\ c.ends = b.ends /\ c.cur = b.cur /\ c.unset = b.unset
  BY <1>2, <1>3 DEF BuildOK, IsBuild
<1>5. IsFiniteSet(known)
  BY PipelineAssumption, FS_Subset DEF PipeInv, SharedOK
<1>6. ListOK(c)
  BY <1>4, <1>5, NumberingAll DEF ListOK, Listed
<1>7. IsBuild(c) /\ StageOK(c) /\ EndsOK(c) /\ PortsOK(c)
  BY <1>2, <1>4, <1>6 DEF BuildOK, IsBuild, StageOK, EndsOK, PortsOK
<1>8. BuildOK(c)'
  BY <1>7, BuildFrame DEF GroupMap, PipeInv, rosterVars, BuildOK
<1> QED  BY <1>1, <1>8

\* The filter keeps the list one-to-one, and takes as many as it should.
LEMMA FilterStep ==
  ASSUME PipeInv, NEW r \in Requests, OnlineFilter(r)
  PROVE  prep'[r].pc = "failed" \/ BuildOK(prep[r])'
<1> DEFINE b == prep[r]
<1>1. PICK c : c = prep'[r]
  OBVIOUS
<1>2. BuildOK(b) /\ b.pc = "filter" /\ b.task \in TaskOptions
  BY <1>1 DEF OnlineFilter, PipeInv, BuildOK, IsBuild
<1>3. PICK left \in Selections(prep[r].task, prep[r].parts, online) :
        IF Cardinality(left) >= minParties(prep[r].task)
          THEN prep' = [prep EXCEPT
                 ![r].parts = [x \in left |-> @[x]],
                 ![r].cand  = Participants(r) \cap online,
                 ![r].pc    = IF prep[r].task.pings > 0 THEN "ping" ELSE "number"]
          ELSE \/ Process(r, prep[r].task, prep[r].attempt + 1)
               \/ prep' = [prep EXCEPT ![r] = [pc |-> "failed"]]
  BY DEF OnlineFilter
<1>4. CASE ~ Cardinality(left) >= minParties(b.task)
  BY <1>1, <1>2, <1>3, <1>4, ProcessStep DEF PipeInv, SharedOK
<1>5. CASE Cardinality(left) >= minParties(b.task)
  <2> DEFINE live == {x \in DOMAIN b.parts : b.parts[x] \in online}
  <2>1. /\ DOMAIN c = DOMAIN b /\ c.parts = [x \in left |-> b.parts[x]]
        /\ c.cand = Listed(b) \cap online
        /\ c.pc = IF b.task.pings > 0 THEN "ping" ELSE "number"
        /\ c.task = b.task /\ c.ends = b.ends /\ c.cur = b.cur /\ c.unset = b.unset
    <3>1. DOMAIN prep = Requests /\ Participants(r) = Listed(b)
      BY DEF PipeInv, SharedOK, Participants, Listed
    <3>2. c = [b EXCEPT !.parts = [x \in left |-> b.parts[x]],
                        !.cand  = Listed(b) \cap online,
                        !.pc    = IF b.task.pings > 0 THEN "ping" ELSE "number"]
      BY <1>1, <1>3, <1>5, <3>1
    <3> QED  BY <1>2, <3>2 DEF BuildOK, IsBuild
  <2>2. /\ left \subseteq live
        /\ Cardinality(left) = Least(maxParties(b.task), Cardinality(live))
        /\ Debug /\ b.task.sorted => \A x \in left, y \in live \ left : b.parts[x] < b.parts[y]
    BY DEF Selections
  <2>3. ListOK(b)
    BY <1>2 DEF BuildOK, StageOK
  <2>4. IsFiniteSet(live) /\ IsFiniteSet(left)
    BY <2>2, <2>3, FS_Subset DEF ListOK
  <2>5. Listed(c) = {b.parts[x] : x \in left} /\ c.cand = {b.parts[x] : x \in live}
    BY <2>1 DEF Listed
  <2>6. Cardinality(Listed(c)) = Cardinality(left)
    <3>1. \A x, y \in left : b.parts[x] = b.parts[y] => x = y
      BY <2>2, <2>3 DEF ListOK
    <3> HIDE DEF b
    <3> QED  BY <2>4, <2>5, <3>1, ImageCount
  <2>7. Cardinality(c.cand) = Cardinality(live)
    BY <2>3, <2>4, <2>5, ImageCount DEF ListOK
  <2>8. ListOK(c)
    BY <2>1, <2>2, <2>3, <2>4, <2>5 DEF ListOK, Listed
  <2>9. PickOK(c)
    <3>1. c.cand \subseteq known /\ Listed(c) \subseteq c.cand
      BY <2>2, <2>3, <2>5 DEF ListOK, Listed
    <3>2. ASSUME Debug, b.task.sorted, NEW p \in Listed(c), NEW q \in c.cand \ Listed(c)
          PROVE  p < q
      <4>1. PICK x \in left : p = b.parts[x]
        BY <2>5
      <4>2. PICK y \in live \ left : q = b.parts[y]
        BY <2>5
      <4> QED  BY <2>2, <3>2, <4>1, <4>2
    <3> QED  BY <1>5, <2>1, <2>2, <2>6, <2>7, <3>1, <3>2 DEF PickOK
  <2>10. b.task.pings \in Nat
    BY <1>2, TaskAssumption DEF SMCTask
  <2>11. IsBuild(c) /\ StageOK(c) /\ EndsOK(c) /\ PortsOK(c)
    BY <1>2, <2>1, <2>8, <2>9, <2>10 DEF BuildOK, IsBuild, StageOK, EndsOK, PortsOK
  <2>12. BuildOK(c)'
    BY <2>11, BuildFrame DEF OnlineFilter, PipeInv, rosterVars, BuildOK
  <2> QED  BY <1>1, <2>12
<1> QED  BY <1>4, <1>5


\* Numbering again changes neither the participants nor how many there are.
LEMMA NumberStep ==
  ASSUME PipeInv, NEW r \in Requests, ContinousChanID(r)
  PROVE  BuildOK(prep[r])'
<1> DEFINE b == prep[r]
<1>1. PICK c : c = prep'[r]
  OBVIOUS
<1>2. BuildOK(b) /\ b.pc = "number"
  BY DEF ContinousChanID, PipeInv
<1>3. PICK list \in Numberings(Listed(b)) :
        c = [b EXCEPT !.parts = list, !.todo = DOMAIN list, !.pc = "ports"]
  BY <1>1 DEF ContinousChanID, PipeInv, SharedOK, Participants, Listed
<1>4. /\ DOMAIN c = DOMAIN b /\ c.pc = "ports" /\ c.parts = list /\ c.todo = DOMAIN list
      /\ c.task = b.task /\ c.ends = b.ends /\ c.cur = b.cur /\ c.unset = b.unset /\ c.cand = b.cand
  BY <1>2, <1>3 DEF BuildOK, IsBuild
<1>5. ListOK(b) /\ PickOK(b) /\ b.task.pings = 0 /\ DOMAIN b.ends = {} /\ b.cur = 0
  BY <1>2 DEF BuildOK, StageOK, EndsOK
<1>6. /\ Listed(c) = Listed(b) /\ ListOK(c)
      /\ DOMAIN c.parts = 1..Cardinality(DOMAIN c.parts)
  <2>1. PICK S : S = Listed(b) /\ IsFiniteSet(S) /\ S \subseteq known /\ list \in Numberings(S)
    BY <1>3, <1>5, ListCount DEF ListOK
  <2>2. /\ DOMAIN list = 1..Cardinality(S)
        /\ IsFiniteSet(DOMAIN list) /\ Cardinality(DOMAIN list) = Cardinality(S)
        /\ \A x, y \in DOMAIN list : list[x] = list[y] => x = y
        /\ {list[x] : x \in DOMAIN list} = S
    BY <2>1, NumberingAll
  <2>3. Listed(c) = S
    BY <1>4, <2>2 DEF Listed
  <2> QED  BY <1>4, <2>1, <2>2, <2>3 DEF ListOK
<1>7. PickOK(c)
  BY <1>4, <1>5, <1>6 DEF PickOK
<1>8. IsBuild(c) /\ StageOK(c) /\ EndsOK(c) /\ PortsOK(c)
  BY <1>2, <1>4, <1>5, <1>6, <1>7 DEF BuildOK, IsBuild, StageOK, EndsOK, PortsOK
<1>9. BuildOK(c)'
  BY <1>8, BuildFrame DEF ContinousChanID, PipeInv, rosterVars, BuildOK
<1> QED  BY <1>1, <1>9

\* A step of the phase builder keeps the participants.
LEMMA StageKept ==
  ASSUME NEW b, StageOK(b), b.pc = "ports", NEW c,
         c.pc \in {"ports", "done"}, c.task = b.task, c.parts = b.parts, c.cand = b.cand
  PROVE  StageOK(c)
BY DEF StageOK, ListOK, PickOK, Listed

\* A participant that has a port is an exception; one that has none is to get one.
LEMMA TestStep ==
  ASSUME PipeInv, NEW r \in Requests, TestPort(r)
  PROVE  BuildOK(prep[r])'
<1> DEFINE b == prep[r]
<1>1. PICK c : c = prep'[r]
  OBVIOUS
<1>2. BuildOK(b) /\ b.pc = "ports" /\ b.cur = 0
  BY DEF TestPort, PipeInv
<1>3. PICK k \in b.todo :
        c = [b EXCEPT !.cur = k, !.unset = (port[b.parts[k]] = 0),
                      !.odd = IF port[b.parts[k]] = 0 THEN @ ELSE @ \cup {b.parts[k]}]
  BY <1>1 DEF TestPort, PipeInv, SharedOK
<1>4. /\ DOMAIN c = DOMAIN b /\ c.pc = "ports" /\ c.cur = k
      /\ c.unset = (port[b.parts[k]] = 0)
      /\ c.odd = IF port[b.parts[k]] = 0 THEN b.odd ELSE b.odd \cup {b.parts[k]}
      /\ c.task = b.task /\ c.ends = b.ends /\ c.parts = b.parts /\ c.cand = b.cand
      /\ c.todo = b.todo /\ c.raced = b.raced
  BY <1>2, <1>3 DEF BuildOK, IsBuild
<1>5. k # 0
  <2>1. PICK n : n = Cardinality(DOMAIN b.parts) /\ n \in Nat
    BY <1>2, FS_CardinalityType DEF BuildOK, StageOK, ListOK
  <2>2. k \in DOMAIN b.parts /\ DOMAIN b.parts = 1..n
    BY <1>2, <1>3, <2>1 DEF BuildOK, StageOK, EndsOK
  <2> QED  BY <2>1, <2>2
<1>6. StageOK(c)
  BY <1>2, <1>4, StageKept DEF BuildOK
<1>7. EndsOK(c)
  BY <1>2, <1>3, <1>4, <1>5 DEF BuildOK, EndsOK
<1>8. PortsOK(c)
  <2>1. b.odd \subseteq c.odd /\ (~c.unset => c.parts[c.cur] \in c.odd)
    BY <1>4
  <2> QED  BY <1>2, <1>4, <2>1 DEF BuildOK, PortsOK, Shared
<1>9. IsBuild(c)
  BY <1>2, <1>4 DEF BuildOK, IsBuild
<1>10. BuildOK(c)'
  BY <1>6, <1>7, <1>8, <1>9, BuildFrame DEF TestPort, PipeInv, rosterVars, BuildOK
<1> QED  BY <1>1, <1>10

\* The build that writes a port writes that of the channel; one that has settled the
\* same port and not read it yet has lost it; for all others nothing changes.
LEMMA WriteStep ==
  ASSUME PipeInv, NEW r \in Requests, WritePort(r), NEW q \in Requests, BuildOK(prep[q])
  PROVE  BuildOK(prep[q])'
<1> DEFINE b == prep[q]
           p == prep[r].parts[prep[r].cur]
<1>1. PICK c : c = prep'[q]
  OBVIOUS
<1>2. /\ prep[r].pc = "ports" /\ prep[r].unset /\ BuildOK(prep[r])
      /\ port' = [port EXCEPT ![p] = prep[r].cur]
      /\ c = IF q = r THEN [b EXCEPT !.unset = FALSE]
             ELSE IF Reads(q, p) THEN [b EXCEPT !.raced = @ \cup {p}] ELSE b
  BY <1>1 DEF WritePort, Written, PipeInv
<1>3. p \in Peers
  <2>1. prep[r].cur \in DOMAIN prep[r].parts
    BY <1>2 DEF BuildOK, EndsOK
  <2> QED  BY <1>2, <2>1 DEF BuildOK, StageOK, ListOK, Listed, PipeInv, SharedOK
<1>4. port'[p] = prep[r].cur /\ \A x : x # p => port'[x] = port[x]
  BY <1>2, <1>3 DEF PipeInv, SharedOK
<1>5. /\ DOMAIN c = DOMAIN b /\ c.pc = b.pc /\ c.cur = b.cur /\ c.ends = b.ends
      /\ c.todo = b.todo /\ c.odd = b.odd /\ b.raced \subseteq c.raced
      /\ c.task = b.task /\ c.parts = b.parts /\ c.cand = b.cand
      /\ q = r => ~c.unset /\ b.unset
      /\ q # r => c.unset = b.unset /\ (Reads(q, p) => p \in c.raced)
  BY <1>2 DEF BuildOK, IsBuild
<1>6. StageOK(c)'
  BY <1>5 DEF BuildOK, WritePort, rosterVars, StageOK, ListOK, PickOK, Listed
<1>7. EndsOK(c) /\ IsBuild(c)
  BY <1>5 DEF BuildOK, EndsOK, IsBuild
<1>8. PortsOK(c)'
  <2>1. \A x \in DOMAIN c.ends : c.parts[x] \notin Shared(c) => c.ends[x] = x
    BY <1>5 DEF BuildOK, PortsOK, Shared
  <2>2. ASSUME c.cur # 0, ~c.unset, c.parts[c.cur] \notin Shared(c)
        PROVE  port'[c.parts[c.cur]] = c.cur
    <3>1. CASE q = r
      BY <1>4, <1>5, <3>1
    <3>2. CASE q # r
      <4>1. b.pc = "ports"
        BY <1>5, <2>2 DEF BuildOK, IsBuild, EndsOK
      <4>2. b.parts[b.cur] # p
        BY <1>5, <2>2, <3>2, <4>1 DEF Reads, Shared
      <4>3. port[b.parts[b.cur]] = b.cur
        BY <1>5, <2>2, <3>2 DEF BuildOK, PortsOK, Shared
      <4> QED  BY <1>4, <1>5, <4>2, <4>3
    <3> QED  BY <3>1, <3>2
  <2> QED  BY <2>1, <2>2 DEF PortsOK, Shared
<1> QED  BY <1>1, <1>6, <1>7, <1>8 DEF BuildOK, EndsOK, IsBuild

LEMMA WriteTypes ==
  ASSUME PipeInv, NEW r \in Requests, WritePort(r)
  PROVE  port' \in [Peers -> Nat]
<1>1. BuildOK(prep[r]) /\ prep[r].pc = "ports" /\ prep[r].unset
  BY DEF WritePort, PipeInv
<1>2. PICK n : n = Cardinality(DOMAIN prep[r].parts) /\ n \in Nat
  BY <1>1, FS_CardinalityType DEF BuildOK, StageOK, ListOK
<1>3. prep[r].cur \in 1..n
  BY <1>1, <1>2 DEF BuildOK, StageOK, EndsOK
<1>4. PICK p, k : port' = [port EXCEPT ![p] = k] /\ k = prep[r].cur
  BY DEF WritePort
<1>5. k \in Nat
  BY <1>2, <1>3, <1>4
<1> QED  BY <1>4, <1>5 DEF PipeInv, SharedOK

\* The endpoint has the port that the participant has now.
LEMMA EndpointStep ==
  ASSUME PipeInv, NEW r \in Requests, Endpoint(r)
  PROVE  BuildOK(prep[r])'
<1> DEFINE b == prep[r]
<1>1. PICK c : c = prep'[r]
  OBVIOUS
<1>2. BuildOK(b) /\ b.pc = "ports" /\ b.cur # 0 /\ ~b.unset
  BY DEF Endpoint, PipeInv
<1>3. c = [b EXCEPT !.cur = 0, !.todo = @ \ {b.cur},
                    !.ends = [d \in (DOMAIN @) \cup {b.cur} |->
                                IF d = b.cur THEN port[b.parts[b.cur]] ELSE @[d]]]
  BY <1>1 DEF Endpoint, PipeInv, SharedOK
<1>4. /\ DOMAIN c = DOMAIN b /\ c.pc = "ports" /\ c.cur = 0 /\ c.todo = b.todo \ {b.cur}
      /\ c.ends = [d \in (DOMAIN b.ends) \cup {b.cur} |->
                     IF d = b.cur THEN port[b.parts[b.cur]] ELSE b.ends[d]]
      /\ c.task = b.task /\ c.odd = b.odd /\ c.raced = b.raced /\ c.unset = b.unset
      /\ c.parts = b.parts /\ c.cand = b.cand
  BY <1>2, <1>3 DEF BuildOK, IsBuild
<1>5. /\ DOMAIN c.ends = DOMAIN b.ends \cup {b.cur} /\ c.ends[b.cur] = port[b.parts[b.cur]]
      /\ \A d \in DOMAIN b.ends : d # b.cur => c.ends[d] = b.ends[d]
  BY <1>4
<1>6. StageOK(c)
  BY <1>2, <1>4, StageKept DEF BuildOK
<1>7. EndsOK(c)
  BY <1>2, <1>4, <1>5 DEF BuildOK, EndsOK
<1>8. PortsOK(c)
  BY <1>2, <1>4, <1>5 DEF BuildOK, PortsOK, Shared
<1>9. IsBuild(c)
  BY <1>2, <1>4 DEF BuildOK, IsBuild
<1>10. BuildOK(c)'
  BY <1>6, <1>7, <1>8, <1>9, BuildFrame DEF Endpoint, PipeInv, rosterVars, BuildOK
<1> QED  BY <1>1, <1>10

LEMMA BuilderStep ==
  ASSUME PipeInv, NEW r \in Requests, PhaseBuilder(r) \/ DbgPingPong(r)
  PROVE  BuildOK(prep[r])'
<1> DEFINE b == prep[r]
<1>1. PICK c : c = prep'[r]
  OBVIOUS
<1>2. BuildOK(b) /\ b.pc \in {"ports", "ping"}
  BY DEF PhaseBuilder, DbgPingPong, PipeInv
<1>3. /\ DOMAIN c = DOMAIN b /\ c.pc = "done" /\ c.cur = b.cur /\ c.ends = b.ends
      /\ c.task = b.task /\ c.odd = b.odd /\ c.raced = b.raced /\ c.unset = b.unset
      /\ c.parts = b.parts /\ c.cand = b.cand
  BY <1>1, <1>2 DEF PhaseBuilder, DbgPingPong, PipeInv, SharedOK, BuildOK, IsBuild
<1>4. b.cur = 0 /\ (b.pc = "ports" => b.todo = {})
  BY <1>2 DEF PhaseBuilder, DbgPingPong, BuildOK, EndsOK
<1>5. StageOK(c)
  <2>1. CASE b.pc = "ports"
    BY <1>2, <1>3, <2>1, StageKept DEF BuildOK
  <2>2. CASE b.pc = "ping"
    BY <1>2, <1>3, <2>2 DEF BuildOK, StageOK, ListOK, PickOK, Listed
  <2> QED  BY <1>2, <2>1, <2>2
<1>6. EndsOK(c)
  BY <1>2, <1>3, <1>4 DEF BuildOK, EndsOK, StageOK
<1>7. PortsOK(c) /\ IsBuild(c)
  BY <1>2, <1>3 DEF BuildOK, PortsOK, IsBuild, Shared
<1>8. BuildOK(c)'
  BY <1>5, <1>6, <1>7, BuildFrame DEF PhaseBuilder, DbgPingPong, PipeInv, rosterVars, BuildOK
<1> QED  BY <1>1, <1>8

\* A peer that pings while a build is under way becomes an exception in it.
LEMMA TouchStep ==
  ASSUME PipeInv, NEW p \in Peers, Touch(p), NEW r \in Requests, BuildOK(prep[r])
  PROVE  BuildOK(prep[r])'
<1> DEFINE b == prep[r]
<1>1. PICK c : c = prep'[r]
  OBVIOUS
<1>2. CASE b.pc = "ports"
  <2>1. /\ DOMAIN c = DOMAIN b /\ c.pc = "ports" /\ c.cur = b.cur /\ c.ends = b.ends
        /\ c.todo = b.todo /\ c.odd = b.odd \cup {p} /\ c.raced = b.raced
        /\ c.unset = b.unset
        /\ c.task = b.task /\ c.parts = b.parts /\ c.cand = b.cand
    BY <1>1, <1>2 DEF Touch, BuildOK, IsBuild
  <2>2. StageOK(c)'
    BY <1>2, <2>1, StageKept DEF BuildOK, Touch, rosterVars, StageOK, ListOK, PickOK
  <2>3. EndsOK(c) /\ IsBuild(c)
    BY <1>2, <2>1 DEF BuildOK, EndsOK, IsBuild
  <2>4. \A q : q # p => port'[q] = port[q]
    BY DEF Touch, PipeInv, SharedOK
  <2>5. PortsOK(c)'
    BY <2>1, <2>4 DEF BuildOK, PortsOK, Shared
  <2> QED  BY <1>1, <2>2, <2>3, <2>5 DEF BuildOK, EndsOK, IsBuild
<1>3. CASE b.pc # "ports"
  <2>1. c = b
    BY <1>1, <1>3 DEF Touch
  <2>2. b.cur = 0
    BY <1>3 DEF BuildOK, IsBuild, EndsOK
  <2>3. BuildOK(c)'
    BY <2>1, <2>2
    DEF Touch, rosterVars, BuildOK, IsBuild, StageOK, ListOK, PickOK, EndsOK, PortsOK
  <2> QED  BY <1>1, <2>3
<1> QED  BY <1>2, <1>3


-----------------------------------------------------------------------------
(* The invariant holds *)

LEMMA InitPipe == PipeInit => PipeInv
BY DEF PipeInit, RosterInit, PipeInv, SharedOK, None

\* What request r does to the others: nothing, unless it writes a port.
LEMMA RequestFrame ==
  ASSUME PipeInv, NEW r \in Requests, Request(r), ~WritePort(r)
  PROVE  /\ UNCHANGED <<rosterVars, port>>
         /\ DOMAIN prep' = Requests
         /\ \A q \in Requests : q # r => prep'[q] = prep[q]
<1>0. DOMAIN prep = Requests
  BY DEF PipeInv, SharedOK
<1> DEFINE Only == /\ DOMAIN prep' = Requests
                   /\ \A q \in Requests : q # r => prep'[q] = prep[q]
<1>1. ASSUME NEW task, NEW k, Process(r, task, k) PROVE Only
  BY <1>0, <1>1 DEF Process
<1>2. OnlineFilter(r) => Only
  <2> SUFFICES ASSUME OnlineFilter(r) PROVE Only
    OBVIOUS
  <2>1. \/ \E k : Process(r, prep[r].task, k)
        \/ \E x : prep' = [prep EXCEPT ![r] = x]
        \/ \E x, y, z : prep' = [prep EXCEPT ![r].parts = x, ![r].cand = y, ![r].pc = z]
    BY DEF OnlineFilter
  <2> QED  BY <1>0, <1>1, <2>1
<1>3. \A task : ProcessWithRetry(r, task) => Only
  BY <1>1 DEF ProcessWithRetry
<1>4. TestPort(r) \/ Endpoint(r) => Only
  BY <1>0 DEF TestPort, Endpoint
<1>5. GroupMap(r) \/ ContinousChanID(r) \/ PhaseBuilder(r) \/ DbgPingPong(r) => Only
  BY <1>0 DEF GroupMap, ContinousChanID, PhaseBuilder, DbgPingPong
<1>6. UNCHANGED <<rosterVars, port>>
  BY DEF Request, ProcessWithRetry, GroupMap, OnlineFilter, ContinousChanID, TestPort,
         Endpoint, PhaseBuilder, DbgPingPong
<1> HIDE DEF Only
<1>7. Only
  BY <1>2, <1>3, <1>4, <1>5 DEF Request
<1> QED  BY <1>6, <1>7 DEF Only

LEMMA RequestBuild ==
  ASSUME PipeInv, NEW r \in Requests, Request(r), ~WritePort(r)
  PROVE  prep'[r].pc = "failed" \/ BuildOK(prep[r])'
<1>1. ASSUME NEW task \in TaskOptions, ProcessWithRetry(r, task) PROVE BuildOK(prep[r])'
  BY <1>1, ProcessStep DEF ProcessWithRetry, PipeInv
<1> QED
  BY <1>1, GroupStep, FilterStep, NumberStep, TestStep, EndpointStep, BuilderStep DEF Request

LEMMA NextPipe == PipeInv /\ [PipeNext]_pipeVars => PipeInv'
<1> SUFFICES ASSUME PipeInv, [PipeNext]_pipeVars PROVE PipeInv'
  OBVIOUS
<1>0. SharedOK
  BY DEF PipeInv
<1>1. ASSUME known \subseteq known', port' = port, NEW q \in Requests, prep'[q] = prep[q]
      PROVE  prep'[q].pc \in {"none", "failed"} \/ BuildOK(prep[q])'
  <2>1. PICK b : b = prep[q] /\ b = prep'[q]
    BY <1>1
  <2>2. BuildOK(b) => BuildOK(b)'
    BY <1>1, BuildFrame
  <2> QED  BY <2>1, <2>2 DEF PipeInv
<1>2. CASE UNCHANGED pipeVars
  <2>1. SharedOK'
    BY <1>0, <1>2 DEF SharedOK, pipeVars, rosterVars
  <2> QED  BY <1>1, <1>2, <2>1 DEF PipeInv, pipeVars, rosterVars
<1>3. CASE RosterNext /\ UNCHANGED <<port, prep>>
  <2>1. known \subseteq known' /\ SharedOK'
    BY <1>0, <1>3 DEF SharedOK, RosterNext, Register, Appear, Vanish
  <2> QED  BY <1>1, <1>3, <2>1 DEF PipeInv
<1>4. ASSUME NEW p \in Peers, Touch(p) PROVE PipeInv'
  <2>1. SharedOK'
    BY <1>0, <1>4 DEF SharedOK, Touch, rosterVars
  <2>2. ASSUME NEW q \in Requests PROVE prep'[q].pc \in {"none", "failed"} \/ BuildOK(prep[q])'
    <3>1. CASE BuildOK(prep[q])
      BY <1>4, <3>1, TouchStep
    <3>2. CASE prep[q].pc \in {"none", "failed"}
      BY <1>4, <3>2 DEF Touch
    <3> QED  BY <3>1, <3>2 DEF PipeInv
  <2> QED  BY <2>1, <2>2 DEF PipeInv
<1>5. ASSUME NEW r \in Requests, WritePort(r) PROVE PipeInv'
  <2>1. SharedOK'
    BY <1>0, <1>5, WriteTypes DEF SharedOK, WritePort, Written, rosterVars
  <2>2. ASSUME NEW q \in Requests PROVE prep'[q].pc \in {"none", "failed"} \/ BuildOK(prep[q])'
    <3>1. CASE BuildOK(prep[q])
      BY <1>5, <3>1, WriteStep
    <3>2. CASE prep[q].pc \in {"none", "failed"}
      BY <1>5, <3>2 DEF WritePort, Written, Reads
    <3> QED  BY <3>1, <3>2 DEF PipeInv
  <2> QED  BY <2>1, <2>2 DEF PipeInv
<1>6. ASSUME NEW r \in Requests, Request(r), ~WritePort(r) PROVE PipeInv'
  <2>1. SharedOK'
    BY <1>0, <1>6, RequestFrame DEF SharedOK, rosterVars
  <2>2. ASSUME NEW q \in Requests PROVE prep'[q].pc \in {"none", "failed"} \/ BuildOK(prep[q])'
    <3>1. CASE q = r
      BY <1>6, <3>1, RequestBuild
    <3>2. CASE q # r
      BY <1>1, <1>6, <3>2, RequestFrame DEF rosterVars
    <3> QED  BY <3>1, <3>2
  <2> QED  BY <2>1, <2>2 DEF PipeInv
<1> QED  BY <1>2, <1>3, <1>4, <1>5, <1>6 DEF PipeNext

LEMMA PipeInvariant == PipeSpec => []PipeInv
<1> QED  BY InitPipe, NextPipe, PTL DEF PipeSpec

-----------------------------------------------------------------------------
(* Theorems *)

LEMMA DoneBuild ==
  ASSUME PipeInv, NEW r \in Requests, Done(r)
  PROVE  /\ BuildOK(prep[r]) /\ ListOK(prep[r]) /\ PickOK(prep[r])
         /\ prep[r].task \in TaskOptions /\ Participants(r) = Listed(prep[r])
BY DEF Done, PipeInv, BuildOK, IsBuild, StageOK, Participants, Listed

\* The instruction handed to the job engine has as many participants as the task
\* asks for, each once and known to the registry, and numbers them 1..n, whatever
\* joined or left while the pipes ran (onlinefilter.go, contchans.go:11).
THEOREM InstructionsAreSound == PipeSpec => []InstructionSound
<1>1. ASSUME PipeInv, NEW r \in Requests, Done(r)
      PROVE  LET n == Cardinality(Participants(r)) task == prep[r].task IN
               /\ n = Cardinality(DOMAIN prep[r].parts)
               /\ n \in minParties(task)..maxParties(task)
               /\ Participants(r) \subseteq known
               /\ task.pings = 0 => DOMAIN prep[r].parts = 1..n /\ DOMAIN prep[r].ends = 1..n
  <2>1. PICK b : b = prep[r]
    OBVIOUS
  <2>2. /\ BuildOK(b) /\ ListOK(b) /\ PickOK(b) /\ b.task \in TaskOptions /\ b.pc = "done"
        /\ Participants(r) = Listed(b)
    BY <1>1, <2>1, DoneBuild DEF Done
  <2>3. PICK n : n = Cardinality(Listed(b)) /\ n \in Nat /\ n = Cardinality(DOMAIN b.parts)
    BY <2>2, ListCount
  <2>4. minParties(b.task) \in Nat /\ maxParties(b.task) \in Nat
    BY <2>2, PartyTypes
  <2>5. IsFiniteSet(b.cand)
    BY <1>1, <2>2, PipelineAssumption, FS_Subset DEF PickOK, PipeInv, SharedOK
  <2>6. Cardinality(b.cand) \in Nat
    BY <2>5, FS_CardinalityType
  <2>7. n \in minParties(b.task)..maxParties(b.task)
    BY <2>2, <2>3, <2>4, <2>6 DEF PickOK, Least
  <2>8. Listed(b) \subseteq known
    BY <2>2 DEF ListOK
  <2>9. b.task.pings = 0 => DOMAIN b.parts = 1..n /\ DOMAIN b.ends = 1..n
    BY <2>2, <2>3 DEF BuildOK, StageOK, EndsOK
  <2> QED  BY <2>1, <2>2, <2>3, <2>7, <2>8, <2>9
<1>2. PipeInv => InstructionSound
  BY <1>1 DEF InstructionSound
<1> QED  BY <1>2, PipeInvariant, PTL

\* A sorted task takes a peer again if it took it when at least the same peers were
\* online, and leaves nobody out while the limit has room: the order in which a map
\* is walked does not show ("deterministic set of nodes", onlinefilter.go:32).
THEOREM SelectionsAreDeterministic == PipeSpec => []SelectionDeterministic
<1>1. ASSUME PipeInv, NEW r \in Requests, NEW q \in Requests, Done(r), Done(q), Debug,
             prep[r].task.sorted, prep[q].task.sorted,
             maxParties(prep[r].task) = maxParties(prep[q].task),
             prep[r].cand \subseteq prep[q].cand
      PROVE  /\ Participants(q) \cap prep[r].cand \subseteq Participants(r)
             /\ \/ Participants(r) = prep[r].cand
                \/ Cardinality(Participants(r)) = maxParties(prep[r].task)
  <2>1. PICK A, B, C, D, m :
          /\ A = Participants(r) /\ B = Participants(q) /\ m = maxParties(prep[r].task)
          /\ C = prep[r].cand /\ D = prep[q].cand
    OBVIOUS
  <2>2. /\ A \subseteq C /\ C \subseteq D /\ B \subseteq D /\ D \subseteq known
        /\ Cardinality(A) = Least(m, Cardinality(C))
        /\ Cardinality(B) = Least(m, Cardinality(D))
        /\ \A x \in A, y \in C \ A : x < y
        /\ \A x \in B, y \in D \ B : x < y
    BY <1>1, <2>1, DoneBuild DEF PickOK
  <2>3. D \subseteq Nat /\ IsFiniteSet(D)
    BY <1>1, <2>2, PipelineAssumption, FS_Subset DEF PipeInv, SharedOK
  <2>4. m \in Nat
    BY <1>1, <2>1, DoneBuild, PartyTypes
  <2>5. B \cap C \subseteq A
    BY <2>2, <2>3, <2>4, LeastKept
  <2>6. A = C \/ Cardinality(A) = m
    <3>1. IsFiniteSet(C)
      BY <2>2, <2>3, FS_Subset
    <3> QED  BY <2>2, <3>1, FS_Subset DEF Least
  <2> QED  BY <2>1, <2>5, <2>6
<1>2. PipeInv => SelectionDeterministic
  BY <1>1 DEF SelectionDeterministic
<1> QED  BY <1>2, PipeInvariant, PTL

\* A participant's endpoint has the port of its channel ("use continous port
\* range", phasebuilder.go:29), although concurrent builds and pings write the
\* same PeerInfo without a lock, except where it brought a port, pinged meanwhile,
\* or where another build that also found none wrote last.
THEOREM PortsAreContinuous == PipeSpec => []PortsFollowChannels
<1>1. PipeInv => PortsFollowChannels
  BY DoneBuild DEF PortsFollowChannels, BuildOK, PortsOK, Shared
<1> QED  BY <1>1, PipeInvariant, PTL

=============================================================================
