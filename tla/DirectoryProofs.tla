-------------------------- MODULE DirectoryProofs --------------------------
(***************************************************************************)
(* Theorems about module Directory, for any number of peers and handlers   *)
(* (the set of goroutines need not even be finite) and any capacity of the *)
(* watcher's channel.                                                      *)
(***************************************************************************)
EXTENDS Directory, FiniteSetTheorems, SequenceTheorems, TLAPS

-----------------------------------------------------------------------------
(* The inductive invariant *)

\* A handler serves one peer, which is registered once GetOrCreate has returned.
HandlersOK ==
  \A c \in Calls : rpc[c].pc # "idle" =>
    \E p \in Peers : /\ rpc[c].p = {p}
                     /\ rpc[c].pc \notin {"get", "add"} => peers[p] # {}

\* Streams of registered peers only are notified and counted.
KnownOK ==
  /\ \A n \in 1..Len(notifies) : peers[notifies[n].p] # {}
  /\ \A p \in Peers : peersOn[p] > 0 => peers[p] # {}

\* At any time finitely many streams of a peer are subscribed.
FiniteOK == \A p \in Peers : IsFiniteSet(Subscribed(p))

DirInv ==
  /\ DirTypeOK /\ HandlersOK /\ KnownOK
  /\ FiniteOK /\ StreamsCounted /\ NoEndBeforeStart

-----------------------------------------------------------------------------
(* Counting in a queue *)

\* How often e is among the first k elements of q.
Count(q, k, e) == Cardinality({n \in 1..k : q[n] = e})

LEMMA CountedFinite ==
  ASSUME NEW k \in Nat, NEW T \in SUBSET (1..k)
  PROVE  IsFiniteSet(T)
<1>1. IsFiniteSet(1..k)
  BY FS_Interval
<1> QED  BY ONLY <1>1, FS_Subset

LEMMA CountType ==
  ASSUME NEW q, NEW k \in Nat, NEW e
  PROVE  Count(q, k, e) \in Nat
<1>1. IsFiniteSet({n \in 1..k : q[n] = e})
  <2>1. {n \in 1..k : q[n] = e} \in SUBSET (1..k)
    OBVIOUS
  <2> QED  BY ONLY <2>1, k \in Nat, CountedFinite
<1> QED  BY ONLY <1>1, FS_CardinalityType DEF Count

LEMMA CountNone ==
  ASSUME NEW q, NEW e
  PROVE  Count(q, 0, e) = 0
<1>1. {n \in 1..0 : q[n] = e} = {}
  OBVIOUS
<1> QED  BY <1>1, FS_EmptySet DEF Count

\* A new element counts at the end of the queue only.
LEMMA CountAppend ==
  ASSUME NEW S, NEW q \in Seq(S), NEW x \in S, NEW e
  PROVE  /\ \A k \in 0..Len(q) : Count(Append(q, x), k, e) = Count(q, k, e)
         /\ Count(Append(q, x), Len(q) + 1, e) =
              IF x = e THEN Count(q, Len(q), e) + 1 ELSE Count(q, Len(q), e)
<1> DEFINE r == Append(q, x)
<1>1. /\ Len(q) \in Nat
      /\ \A n \in 1..Len(q) : r[n] = q[n]
      /\ r[Len(q) + 1] = x
  BY AppendProperties, LenProperties
<1> HIDE DEF r
<1>2. ASSUME NEW k \in 0..Len(q) PROVE Count(r, k, e) = Count(q, k, e)
  <2>1. {n \in 1..k : r[n] = e} = {n \in 1..k : q[n] = e}
    BY <1>1
  <2> QED  BY <2>1 DEF Count
<1>3. Count(r, Len(q) + 1, e) = IF x = e THEN Count(q, Len(q), e) + 1 ELSE Count(q, Len(q), e)
  <2> DEFINE A == {n \in 1..Len(q) : q[n] = e}
             B == {n \in 1..(Len(q) + 1) : r[n] = e}
  <2>1. IsFiniteSet(A) /\ Len(q) + 1 \notin A
    <3>1. A \in SUBSET (1..Len(q))
      OBVIOUS
    <3>2. IsFiniteSet(A)
      BY ONLY <1>1, <3>1, CountedFinite
    <3> QED  BY <1>1, <3>2
  <2>2. B = IF x = e THEN A \cup {Len(q) + 1} ELSE A
    BY <1>1
  <2>3. Cardinality(B) = IF x = e THEN Cardinality(A) + 1 ELSE Cardinality(A)
    BY <2>1, <2>2, FS_AddElement
  <2> QED  BY <2>3 DEF Count
<1> QED  BY <1>2, <1>3 DEF r

\* Taking the first element off the queue takes it off every count.
LEMMA CountTail ==
  ASSUME NEW S, NEW q \in Seq(S), q # <<>>, NEW e, NEW k \in 0..(Len(q) - 1)
  PROVE  Count(q, k + 1, e) =
           IF Head(q) = e THEN Count(Tail(q), k, e) + 1 ELSE Count(Tail(q), k, e)
<1> DEFINE A == {n \in 1..k : Tail(q)[n] = e}
           B == {n \in 1..(k + 1) : q[n] = e}
           f == [n \in A |-> n + 1]
<1>1. /\ Len(q) \in Nat \ {0} /\ Head(q) = q[1]
      /\ \A n \in 1..(Len(q) - 1) : Tail(q)[n] = q[n + 1]
  BY HeadTailProperties, LenProperties, EmptySeq
<1>2. IsFiniteSet(A) /\ IsFiniteSet(B)
  <2>1. k \in Nat /\ k + 1 \in Nat
    BY <1>1
  <2>2. A \in SUBSET (1..k) /\ B \in SUBSET (1..(k + 1))
    OBVIOUS
  <2> HIDE DEF A, B
  <2>3. IsFiniteSet(A) /\ IsFiniteSet(B)
    BY <2>1, <2>2, CountedFinite
  <2> QED  BY <2>3
<1>3. f \in Bijection(A, B \ {1})
  <2>1. f \in [A -> B \ {1}]
    BY <1>1
  <2>2. \A m, n \in A : f[m] = f[n] => m = n
    OBVIOUS
  <2>3. \A n \in B \ {1} : \E m \in A : f[m] = n
    <3> SUFFICES ASSUME NEW n \in B \ {1} PROVE n - 1 \in A /\ f[n - 1] = n
      OBVIOUS
    <3>1. n - 1 \in 1..k /\ (n - 1) + 1 = n
      BY <1>1
    <3>2. n - 1 \in A
      BY <1>1, <3>1
    <3> QED  BY <3>1, <3>2
  <2> QED  BY <2>1, <2>2, <2>3 DEF Bijection, Injection, Surjection, IsInjective
<1>4. Cardinality(B \ {1}) = Cardinality(A)
  BY <1>2, <1>3, FS_Bijection DEF ExistsBijection
<1>5. 1 \in B <=> Head(q) = e
  BY <1>1
<1>6. Cardinality(B \ {1}) = IF 1 \in B THEN Cardinality(B) - 1 ELSE Cardinality(B)
  BY <1>2, FS_RemoveElement
<1>7. Cardinality(A) \in Nat /\ Cardinality(B) \in Nat
  BY <1>2, FS_CardinalityType
<1>8. Count(q, k + 1, e) = Cardinality(B) /\ Count(Tail(q), k, e) = Cardinality(A)
  BY DEF Count
<1> HIDE DEF A, B
<1> QED  BY <1>4, <1>5, <1>6, <1>7, <1>8

-----------------------------------------------------------------------------
(* What the notifications under way will do *)

Effect(x, p) == IF x.p # p THEN 0 ELSE IF x.on THEN 1 ELSE -1

Net(q, p, k) == Count(q, k, [p |-> p, on |-> TRUE]) - Count(q, k, [p |-> p, on |-> FALSE])

\* A state change is one of the two that Pending counts, or about another peer.
LEMMA EffectOf ==
  ASSUME NEW x \in StateChange, NEW p \in Peers
  PROVE  Effect(x, p) = (IF x = [p |-> p, on |-> TRUE] THEN 1 ELSE 0)
                          - (IF x = [p |-> p, on |-> FALSE] THEN 1 ELSE 0)
  BY DEF Effect, StateChange

LEMMA NetType ==
  ASSUME NEW q, NEW p, NEW k \in Nat
  PROVE  Net(q, p, k) \in Int /\ Net(q, p, 0) = 0
  BY CountType, CountNone DEF Net

LEMMA NetAppend ==
  ASSUME NEW q \in Seq(StateChange), NEW x \in StateChange, NEW p \in Peers
  PROVE  /\ \A k \in 0..Len(q) : Net(Append(q, x), p, k) = Net(q, p, k)
         /\ Net(Append(q, x), p, Len(q) + 1) = Net(q, p, Len(q)) + Effect(x, p)
<1> DEFINE t == [p |-> p, on |-> TRUE]
           f == [p |-> p, on |-> FALSE]
<1> HIDE DEF t, f
<1>1. Len(q) \in Nat
  BY LenProperties
<1>2. /\ \A k \in 0..Len(q) : Count(Append(q, x), k, t) = Count(q, k, t)
      /\ Count(Append(q, x), Len(q) + 1, t) =
           IF x = t THEN Count(q, Len(q), t) + 1 ELSE Count(q, Len(q), t)
  BY ONLY q \in Seq(StateChange), x \in StateChange, CountAppend
<1>3. /\ \A k \in 0..Len(q) : Count(Append(q, x), k, f) = Count(q, k, f)
      /\ Count(Append(q, x), Len(q) + 1, f) =
           IF x = f THEN Count(q, Len(q), f) + 1 ELSE Count(q, Len(q), f)
  BY ONLY q \in Seq(StateChange), x \in StateChange, CountAppend
<1>4. Count(q, Len(q), t) \in Nat /\ Count(q, Len(q), f) \in Nat
  BY <1>1, CountType
<1>5. Effect(x, p) = (IF x = t THEN 1 ELSE 0) - (IF x = f THEN 1 ELSE 0)
  BY EffectOf DEF t, f
<1>6. \A k : /\ Net(Append(q, x), p, k) = Count(Append(q, x), k, t) - Count(Append(q, x), k, f)
             /\ Net(q, p, k) = Count(q, k, t) - Count(q, k, f)
  BY DEF Net, t, f
<1> QED  BY <1>1, <1>2, <1>3, <1>4, <1>5, <1>6

LEMMA NetTail ==
  ASSUME NEW q \in Seq(StateChange), q # <<>>, NEW p \in Peers, NEW k \in 0..(Len(q) - 1)
  PROVE  Net(q, p, k + 1) = Net(Tail(q), p, k) + Effect(Head(q), p)
<1> DEFINE t == [p |-> p, on |-> TRUE]
           f == [p |-> p, on |-> FALSE]
<1> HIDE DEF t, f
<1>1. k \in Nat /\ Head(q) \in StateChange
  BY LenProperties, HeadTailProperties
<1>2. Count(q, k + 1, t) =
        IF Head(q) = t THEN Count(Tail(q), k, t) + 1 ELSE Count(Tail(q), k, t)
  BY ONLY q \in Seq(StateChange), q # <<>>, k \in 0..(Len(q) - 1), CountTail
<1>3. Count(q, k + 1, f) =
        IF Head(q) = f THEN Count(Tail(q), k, f) + 1 ELSE Count(Tail(q), k, f)
  BY ONLY q \in Seq(StateChange), q # <<>>, k \in 0..(Len(q) - 1), CountTail
<1>4. Count(Tail(q), k, t) \in Nat /\ Count(Tail(q), k, f) \in Nat
  BY <1>1, CountType
<1>5. Effect(Head(q), p) = (IF Head(q) = t THEN 1 ELSE 0) - (IF Head(q) = f THEN 1 ELSE 0)
  BY <1>1, EffectOf DEF t, f
<1>6. /\ Net(q, p, k + 1) = Count(q, k + 1, t) - Count(q, k + 1, f)
      /\ Net(Tail(q), p, k) = Count(Tail(q), k, t) - Count(Tail(q), k, f)
  BY DEF Net, t, f
<1> QED  BY <1>2, <1>3, <1>4, <1>5, <1>6

-----------------------------------------------------------------------------
(* Types *)

LEMMA NotifyType ==
  ASSUME DirTypeOK, HandlersOK, NEW c \in Calls, rpc[c].pc # "idle", NEW on \in BOOLEAN,
         Notify(c, on)
  PROVE  /\ notifies' \in Seq(StateChange) /\ Len(notifies') = Len(notifies) + 1
         /\ Len(notifies') <= NotifyCap
         /\ \E p \in Peers : /\ rpc[c].p = {p}
                             /\ notifies' = Append(notifies, [p |-> p, on |-> on])
<1>1. PICK p \in Peers : rpc[c].p = {p}
  BY DEF HandlersOK
<1>2. [p |-> p, on |-> on] \in StateChange
  BY DEF StateChange
<1>3. notifies' = Append(notifies, [p |-> p, on |-> on]) /\ Len(notifies) < NotifyCap
  BY <1>1 DEF Notify
<1>4. notifies \in Seq(StateChange) /\ Len(notifies) \in Nat
  BY LenProperties DEF DirTypeOK
<1> QED  BY <1>1, <1>2, <1>3, <1>4, AppendProperties, DirectoryAssumption

Rpc == [pc : {"idle", "get", "add", "touch", "subscribe", "sendOn",
              "wait", "chat", "unsubscribe", "sendOff"},
        kind : {"ping", "stream"}, p : SUBSET Peers, info : SUBSET Infos]

LEMMA RpcStep ==
  ASSUME rpc \in [Calls -> Rpc], NEW c \in Calls
  PROVE  /\ rpc[c] \in Rpc
         /\ \A r \in Rpc : rpc' = [rpc EXCEPT ![c] = r] => rpc' \in [Calls -> Rpc]
  OBVIOUS

LEMMA TypesStep ==
  ASSUME DirTypeOK, HandlersOK, [DirNext]_dirVars
  PROVE  DirTypeOK'
<1> DEFINE RegisteredOK == /\ peers \in [Peers -> SUBSET Infos]
                           /\ \A p \in Peers : /\ Cardinality(peers[p]) <= 1
                                               /\ \A i \in peers[p] : IdOf(i) = p
           QueueOK == notifies \in Seq(StateChange) /\ Len(notifies) <= NotifyCap
<1>a. /\ RegisteredOK /\ recent \in [Infos -> BOOLEAN] /\ QueueOK
      /\ peersOn \in [Peers -> Nat] /\ rpc \in [Calls -> Rpc]
  BY DEF DirTypeOK, Rpc
<1>b. SUFFICES /\ RegisteredOK' /\ (recent \in [Infos -> BOOLEAN])' /\ QueueOK'
               /\ (peersOn \in [Peers -> Nat])' /\ (rpc \in [Calls -> Rpc])'
  BY DEF DirTypeOK, Rpc
<1>c. /\ UNCHANGED peers => RegisteredOK'
      /\ UNCHANGED notifies => QueueOK'
  BY <1>a
<1> DEFINE Typed == /\ RegisteredOK' /\ (recent \in [Infos -> BOOLEAN])' /\ QueueOK'
                    /\ (peersOn \in [Peers -> Nat])' /\ (rpc \in [Calls -> Rpc])'
<1> HIDE DEF RegisteredOK, QueueOK
<1>0. CASE UNCHANGED dirVars
  BY <1>0, <1>a, <1>c DEF dirVars
<1>1. CASE watch
  <2>1. Head(notifies) \in StateChange /\ Tail(notifies) \in Seq(StateChange)
        /\ Len(Tail(notifies)) = Len(notifies) - 1 /\ Len(notifies) \in Nat
    BY <1>1, <1>a, HeadTailProperties, LenProperties DEF watch, QueueOK
  <2>2. PICK x \in StateChange : /\ x = Head(notifies)
                                 /\ IF x.on THEN addOrInc(x.p) ELSE delOrDec(x.p)
    BY <1>1, <2>1 DEF watch
  <2>3. peersOn' \in [Peers -> Nat]
    <3>1. x.p \in Peers
      BY DEF StateChange
    <3>2. CASE x.on
      BY <2>2, <1>a, <3>1, <3>2 DEF addOrInc
    <3>3. CASE ~x.on
      BY <2>2, <1>a, <3>1, <3>3 DEF delOrDec
    <3> QED  BY <3>2, <3>3
  <2>4. QueueOK'
    BY <1>1, <1>a, <2>1, DirectoryAssumption DEF watch, QueueOK
  <2> QED  BY <1>1, <1>a, <1>c, <2>3, <2>4 DEF watch
<1>2. ASSUME NEW i \in Infos, Lapse(i) PROVE Typed
  BY <1>2, <1>a, <1>c DEF Lapse
<1>3. ASSUME NEW c \in Calls, Handler(c) \/ Remote(c) PROVE Typed
  <2>0. rpc[c] \in Rpc
    BY <1>a, RpcStep
  <2>1. ASSUME NEW p \in Peers, NEW kind \in {"ping", "stream"}, Call(c, p, kind)
        PROVE  Typed
    <3>1. [pc |-> "get", kind |-> kind, p |-> {p}, info |-> {}] \in Rpc
      BY DEF Rpc
    <3>2. rpc' \in [Calls -> Rpc]
      BY <1>a, <2>1, <3>1, RpcStep DEF Call
    <3> QED  BY <2>1, <1>a, <1>c, <3>2 DEF Call
  <2>2. CASE Get(c)
    <3>1. PICK p \in Peers : /\ rpc[c].p = {p}
                             /\ rpc' = [rpc EXCEPT ![c].info = peers[p],
                                          ![c].pc = IF peers[p] = {} THEN "add" ELSE "touch"]
      BY <2>2 DEF Get, HandlersOK
    <3>2. peers[p] \in SUBSET Infos
      BY <1>a DEF RegisteredOK
    <3>3. [rpc[c] EXCEPT !.info = peers[p],
                         !.pc = IF peers[p] = {} THEN "add" ELSE "touch"] \in Rpc
      BY <2>0, <3>2 DEF Rpc
    <3>4. rpc' = [rpc EXCEPT ![c] = [rpc[c] EXCEPT !.info = peers[p],
                                       !.pc = IF peers[p] = {} THEN "add" ELSE "touch"]]
      BY <1>a, <3>1
    <3>5. rpc' \in [Calls -> Rpc]
      BY ONLY <1>a, <3>3, <3>4, RpcStep
    <3> QED  BY <2>2, <1>a, <1>c, <3>5 DEF Get
  <2>3. CASE Add(c)
    <3>1. PICK p \in Peers : rpc[c].p = {p}
      BY <2>3 DEF Add, HandlersOK
    <3>2. /\ peers' = [peers EXCEPT ![p] = IF @ = {} THEN {<<c, p>>} ELSE @]
          /\ rpc' = [rpc EXCEPT ![c].info = {<<c, p>>}, ![c].pc = "touch"]
      BY <2>3, <3>1 DEF Add
    <3>3. <<c, p>> \in Infos /\ IdOf(<<c, p>>) = p /\ Cardinality({<<c, p>>}) = 1
      BY FS_Singleton DEF Infos, IdOf
    <3>4. RegisteredOK'
      <4>1. peers' \in [Peers -> SUBSET Infos]
        BY <1>a, <3>2, <3>3 DEF RegisteredOK
      <4>2. \A r \in Peers : peers'[r] = peers[r] \/ (r = p /\ peers'[r] = {<<c, p>>})
        BY <1>a, <3>2 DEF RegisteredOK
      <4>3. ASSUME NEW r \in Peers
            PROVE  Cardinality(peers'[r]) <= 1 /\ \A i \in peers'[r] : IdOf(i) = r
        <5>1. CASE peers'[r] = peers[r]
          BY <1>a, <5>1 DEF RegisteredOK
        <5>2. CASE r = p /\ peers'[r] = {<<c, p>>}
          <6>1. Cardinality(peers'[r]) = 1
            BY <3>3, <5>2
          <6> QED  BY <3>3, <5>2, <6>1
        <5> QED  BY <4>2, <5>1, <5>2
      <4> QED  BY <4>1, <4>3 DEF RegisteredOK
    <3>5. [rpc[c] EXCEPT !.info = {<<c, p>>}, !.pc = "touch"] \in Rpc
      BY <2>0, <3>3 DEF Rpc
    <3>6. rpc' \in [Calls -> Rpc]
      BY <1>a, <3>2, <3>5
    <3> QED  BY <2>3, <1>a, <1>c, <3>4, <3>6 DEF Add
  <2>e. Idle \in Rpc
    BY DEF Idle, Rpc
  <2>f. ASSUME NEW last, Return(c, last)
        PROVE  rpc' \in [Calls -> Rpc] /\ recent' \in [Infos -> BOOLEAN]
    <3>1. rpc' \in [Calls -> Rpc]
      BY <1>a, <2>e, <2>f, RpcStep DEF Return
    <3>2. recent' \in [Infos -> BOOLEAN]
      BY <2>f DEF Return
    <3> QED  BY <3>1, <3>2
  <2>g. ASSUME NEW from, NEW to \in {"sendOn", "sendOff", "subscribe", "wait", "chat", "unsubscribe"},
               Step(c, from, to)
        PROVE  rpc' \in [Calls -> Rpc]
    <3>1. [rpc[c] EXCEPT !.pc = to] \in Rpc
      BY <2>0 DEF Rpc
    <3> QED  BY <1>a, <2>g, <3>1 DEF Step
  <2>4. CASE Touch(c)
    <3>1. CASE rpc[c].kind = "ping"
      BY <2>4, <1>a, <1>c, <2>f, <3>1 DEF Touch
    <3>2. CASE rpc[c].kind # "ping"
      <4>1. recent' \in [Infos -> BOOLEAN]
        BY <2>4, <1>a, <3>2 DEF Touch
      <4> QED  BY <2>4, <1>a, <1>c, <2>g, <3>2, <4>1 DEF Touch
    <3> QED  BY <3>1, <3>2
  <2>5. CASE LockInfo(c)
    BY <2>5, <1>a, <1>c, <2>g DEF LockInfo
  <2>6. CASE SubscribeCmdChan(c)
    <3>1. QueueOK'
      BY <2>6, NotifyType DEF SubscribeCmdChan, Step, QueueOK
    <3> QED  BY <2>6, <1>a, <1>c, <2>g, <3>1 DEF SubscribeCmdChan
  <2>7. CASE UnsubscribeCmdChan(c)
    <3>1. QueueOK'
      BY <2>7, NotifyType DEF UnsubscribeCmdChan, QueueOK
    <3> QED  BY <2>7, <1>a, <1>c, <2>f, <3>1 DEF UnsubscribeCmdChan
  <2>8. CASE ServeChat(c) \/ ChatEnds(c) \/ Ticker(c) \/ StreamDone(c)
    BY <2>8, <1>a, <1>c, <2>g DEF ServeChat, ChatEnds, Ticker, StreamDone
  <2> QED  BY <1>3, <2>1, <2>2, <2>3, <2>4, <2>5, <2>6, <2>7, <2>8 DEF Handler, Remote
<1> QED  BY <1>0, <1>1, <1>2, <1>3 DEF DirNext

-----------------------------------------------------------------------------
(* Who is known *)

LEMMA PeersStay ==
  ASSUME DirTypeOK, HandlersOK, [DirNext]_dirVars
  PROVE  \A p \in Peers : peers[p] # {} => peers'[p] = peers[p]
<1>1. ASSUME NEW c \in Calls, Add(c)
      PROVE  \A p \in Peers : peers[p] # {} => peers'[p] = peers[p]
  BY <1>1 DEF Add, DirTypeOK
<1>2. ASSUME NEW c \in Calls, Handler(c) \/ Remote(c), ~Add(c)
      PROVE  UNCHANGED peers
  BY <1>2 DEF Handler, Remote, Call, Get, Touch, LockInfo, SubscribeCmdChan,
              UnsubscribeCmdChan, ServeChat, ChatEnds, Ticker, StreamDone
<1> QED  BY <1>1, <1>2 DEF DirNext, dirVars, watch, Lapse

\* The goroutines that do not take the step go on serving the same peer.
LEMMA HandlersStep ==
  ASSUME DirInv, [DirNext]_dirVars
  PROVE  HandlersOK'
<1>1. rpc \in [Calls -> Rpc] /\ \A p \in Peers : peers[p] # {} => peers'[p] = peers[p]
  BY PeersStay DEF DirInv, DirTypeOK, Rpc
<1> DEFINE Serving(c) == rpc[c].pc # "idle" =>
             \E p \in Peers : /\ rpc[c].p = {p}
                              /\ rpc[c].pc \notin {"get", "add"} => peers[p] # {}
<1>2. \A c \in Calls : Serving(c)
  BY DEF DirInv, HandlersOK
<1>3. ASSUME NEW c \in Calls, rpc'[c] = rpc[c] PROVE Serving(c)'
  BY <1>1, <1>2, <1>3
<1>4. ASSUME NEW c \in Calls, NEW d \in Calls, Handler(c) \/ Remote(c)
      PROVE  Serving(d)'
  <2>1. CASE d # c
    <3>1. rpc'[d] = rpc[d]
      BY <1>1, <1>4, <2>1 DEF Handler, Remote, Call, Get, Add, Touch, LockInfo, SubscribeCmdChan,
              UnsubscribeCmdChan, ServeChat, ChatEnds, Ticker, StreamDone, Step, Return
    <3> QED  BY <1>3, <3>1
  <2>2. CASE d = c
    <3> SUFFICES Serving(c)'
      BY <2>2
    <3>a. /\ rpc[c] \in Rpc
          /\ \A from, to : Step(c, from, to) =>
               rpc[c].pc = from /\ rpc'[c].pc = to /\ rpc'[c].p = rpc[c].p
          /\ \A last : Return(c, last) => rpc'[c].pc = "idle"
      BY <1>1 DEF Step, Return, Rpc, Idle
    <3>1. ASSUME NEW p \in Peers, NEW kind \in {"ping", "stream"}, Call(c, p, kind)
          PROVE  Serving(c)'
      <4>1. rpc'[c].pc = "get" /\ rpc'[c].p = {p}
        BY <1>1, <3>1 DEF Call
      <4> QED  BY <4>1
    <3>2. CASE Get(c)
      <4>1. PICK p \in Peers : rpc[c].p = {p}
        BY <1>2, <3>2 DEF Get
      <4>2. /\ rpc'[c].p = {p} /\ UNCHANGED peers
            /\ rpc'[c].pc = IF peers[p] = {} THEN "add" ELSE "touch"
        BY <1>1, <3>a, <3>2, <4>1 DEF Get, Rpc
      <4> QED  BY <4>2
    <3>3. CASE Add(c)
      <4>1. PICK p \in Peers : rpc[c].p = {p}
        BY <1>2, <3>3 DEF Add
      <4>2. rpc'[c].p = {p} /\ rpc'[c].pc = "touch" /\ peers'[p] # {}
        BY <1>1, <3>a, <3>3, <4>1 DEF Add, Rpc, DirInv, DirTypeOK
      <4> QED  BY <4>2
    <3>4. CASE \E from \in {"touch", "subscribe", "unsubscribe", "sendOn", "wait", "chat"},
                  to \in {"subscribe", "sendOn", "sendOff", "wait", "chat", "unsubscribe"} :
                 Step(c, from, to)
      <4>1. /\ rpc[c].pc \notin {"idle", "get", "add"} /\ rpc'[c].p = rpc[c].p
        BY <3>a, <3>4
      <4> QED  BY <1>1, <1>2, <4>1
    <3>5. CASE \E last : Return(c, last)
      BY <3>a, <3>5
    <3>6. Touch(c) => \/ \E last : Return(c, last)
                      \/ Step(c, "touch", "subscribe")
      BY DEF Touch
    <3> QED  BY <1>4, <2>2, <3>1, <3>2, <3>3, <3>4, <3>5, <3>6
          DEF Handler, Remote, LockInfo, SubscribeCmdChan, UnsubscribeCmdChan,
              ServeChat, ChatEnds, Ticker, StreamDone
  <2> QED  BY <2>1, <2>2
<1> HIDE DEF Serving
<1>5. \A c \in Calls : Serving(c)'
  <2>1. CASE UNCHANGED rpc
    BY <1>3, <2>1
  <2> QED  BY <1>4, <2>1 DEF DirNext, dirVars, watch, Lapse
<1> QED  BY <1>5 DEF HandlersOK, Serving

LEMMA KnownStep ==
  ASSUME DirInv, [DirNext]_dirVars
  PROVE  KnownOK'
<1>1. /\ \A p \in Peers : peers[p] # {} => peers'[p] # {}
      /\ notifies \in Seq(StateChange) /\ Len(notifies) \in Nat
      /\ \A n \in 1..Len(notifies) : notifies[n].p \in Peers
  <2>1. notifies \in Seq(StateChange) /\ Len(notifies) \in Nat
    BY LenProperties DEF DirInv, DirTypeOK
  <2>2. \A n \in 1..Len(notifies) : notifies[n] \in StateChange
    BY <2>1, ElementOfSeq
  <2> QED  BY <2>1, <2>2, PeersStay DEF DirInv, StateChange
<1>2. CASE UNCHANGED <<notifies, peersOn>>
  BY <1>1, <1>2 DEF DirInv, KnownOK
<1>3. ASSUME NEW c \in Calls, NEW on \in BOOLEAN, Notify(c, on), UNCHANGED peersOn,
             rpc[c].pc \notin {"idle", "get", "add"}
      PROVE  KnownOK'
  <2>1. PICK p \in Peers : peers[p] # {} /\ rpc[c].p = {p}
    BY <1>3 DEF DirInv, HandlersOK
  <2>2. notifies' = Append(notifies, [p |-> p, on |-> on])
    BY <1>3, <2>1 DEF Notify
  <2>3. [p |-> p, on |-> on] \in StateChange
    BY DEF StateChange
  <2>4. /\ Len(notifies') = Len(notifies) + 1
        /\ \A n \in 1..Len(notifies) : notifies'[n] = notifies[n]
        /\ notifies'[Len(notifies) + 1] = [p |-> p, on |-> on]
    BY <1>1, <2>2, <2>3, AppendProperties
  <2>5. ASSUME NEW n \in 1..Len(notifies') PROVE peers'[notifies'[n].p] # {}
    <3>1. CASE n \in 1..Len(notifies)
      <4>1. peers[notifies[n].p] # {} /\ notifies'[n] = notifies[n]
        BY <2>4, <3>1 DEF DirInv, KnownOK
      <4> QED  BY <1>1, <3>1, <4>1
    <3>2. CASE n = Len(notifies) + 1
      BY <1>1, <2>1, <2>4, <3>2
    <3> QED  BY <1>1, <2>4, <3>1, <3>2
  <2> QED  BY <1>1, <1>3, <2>5 DEF DirInv, KnownOK
<1>4. CASE watch
  <2>1. /\ Len(notifies') = Len(notifies) - 1
        /\ \A n \in 1..(Len(notifies) - 1) : notifies'[n] = notifies[n + 1]
        /\ Head(notifies) = notifies[1] /\ Len(notifies) > 0
    BY <1>1, <1>4, HeadTailProperties, EmptySeq DEF watch
  <2>2. Head(notifies).p \in Peers /\ peers[Head(notifies).p] # {}
    <3>1. 1 \in 1..Len(notifies)
      BY <1>1, <2>1
    <3> QED  BY <1>1, <2>1, <3>1 DEF DirInv, KnownOK
  <2>3. \A p \in Peers : peersOn'[p] > 0 => peersOn[p] > 0 \/ p = Head(notifies).p
    BY <1>4, <2>2 DEF watch, addOrInc, delOrDec, DirInv, DirTypeOK
  <2>4. ASSUME NEW n \in 1..Len(notifies') PROVE peers'[notifies'[n].p] # {}
    <3>1. n + 1 \in 1..Len(notifies) /\ notifies'[n] = notifies[n + 1]
      BY <1>1, <2>1
    <3>2. peers[notifies[n + 1].p] # {} /\ notifies[n + 1].p \in Peers
      BY <1>1, <3>1 DEF DirInv, KnownOK
    <3> QED  BY <1>1, <3>1, <3>2
  <2>5. ASSUME NEW p \in Peers, peersOn'[p] > 0 PROVE peers'[p] # {}
    BY <1>1, <2>2, <2>3, <2>5 DEF DirInv, KnownOK
  <2> QED  BY <2>4, <2>5 DEF KnownOK
<1>5. ASSUME NEW c \in Calls, Handler(c) \/ Remote(c) PROVE KnownOK'
  <2>1. CASE SubscribeCmdChan(c)
    BY <1>3, <2>1 DEF SubscribeCmdChan, Step
  <2>2. CASE UnsubscribeCmdChan(c)
    BY <1>3, <2>2 DEF UnsubscribeCmdChan
  <2> QED  BY <1>2, <1>5, <2>1, <2>2 DEF Handler, Remote, Call, Get, Add, Touch, LockInfo,
            ServeChat, ChatEnds, Ticker, StreamDone
<1> QED  BY <1>2, <1>4, <1>5 DEF DirNext, dirVars, Lapse

-----------------------------------------------------------------------------
(* The streams of a peer *)

Watching == {"wait", "chat", "unsubscribe", "sendOff"}

\* A goroutine's step changes the subscribed streams of its own peer only, by
\* itself.
LEMMA SubscribedBy ==
  ASSUME rpc \in [Calls -> Rpc], rpc' \in [Calls -> Rpc], NEW c \in Calls, NEW p \in Peers,
         rpc[c].p = {p}, \A d \in Calls \ {c} : rpc'[d] = rpc[d],
         rpc'[c].p = {p} \/ rpc'[c].pc \notin Watching
  PROVE  /\ \A r \in Peers : r # p => Subscribed(r)' = Subscribed(r)
         /\ Subscribed(p)' = IF rpc'[c].pc \in Watching THEN Subscribed(p) \cup {c}
                             ELSE Subscribed(p) \ {c}
         /\ c \in Subscribed(p) <=> rpc[c].pc \in Watching
  BY DEF Subscribed, Watching

\* A step that leaves the watcher alone and no stream starts or ends.
LEMMA BalanceKept ==
  ASSUME DirInv, UNCHANGED <<notifies, peersOn>>,
         \A p \in Peers : Subscribed(p)' = Subscribed(p)
  PROVE  (FiniteOK /\ StreamsCounted /\ NoEndBeforeStart)'
<1>1. \A p \in Peers : \A k : Pending(p, k)' = Pending(p, k)
  BY DEF Pending
<1> QED  BY <1>1 DEF DirInv, FiniteOK, StreamsCounted, NoEndBeforeStart

LEMMA PendingIsNet ==
  /\ \A p, k : Pending(p, k) = Net(notifies, p, k)
  /\ \A p, k : Pending(p, k)' = Net(notifies', p, k)
  BY DEF Pending, Net, Count

\* The watcher moves what it was told from the channel to its count.
LEMMA BalanceWatched ==
  ASSUME DirInv, watch
  PROVE  (FiniteOK /\ StreamsCounted /\ NoEndBeforeStart)'
<1>1. /\ notifies \in Seq(StateChange) /\ notifies # <<>> /\ notifies' = Tail(notifies)
      /\ Len(notifies) \in Nat \ {0} /\ Len(notifies') = Len(notifies) - 1
      /\ peersOn \in [Peers -> Nat]
  BY LenProperties, HeadTailProperties, EmptySeq DEF watch, DirInv, DirTypeOK
<1>2. PICK x \in StateChange : /\ x = Head(notifies)
                               /\ IF x.on THEN addOrInc(x.p) ELSE delOrDec(x.p)
  BY <1>1, HeadTailProperties DEF watch
<1>3. ASSUME NEW p \in Peers, NEW k \in 0..(Len(notifies) - 1)
      PROVE  /\ Net(notifies, p, k + 1) = Net(notifies', p, k) + Effect(x, p)
             /\ Net(notifies', p, k) \in Int /\ Net(notifies', p, 0) = 0
  <2>1. Net(notifies, p, k + 1) = Net(Tail(notifies), p, k) + Effect(Head(notifies), p)
    BY <1>1, NetTail
  <2>2. Net(notifies', p, k) \in Int /\ Net(notifies', p, 0) = 0
    BY NetType
  <2> QED  BY <1>1, <1>2, <2>1, <2>2
<1>4. ASSUME NEW p \in Peers PROVE peersOn'[p] = peersOn[p] + Effect(x, p)
  <2>1. x.p \in Peers /\ x.on \in BOOLEAN
    BY DEF StateChange
  <2>2. CASE x.on
    BY <1>1, <1>2, <2>1, <2>2 DEF addOrInc, Effect
  <2>3. CASE ~x.on /\ x.p = p
    <3>1. peersOn[p] + Net(notifies, p, 1) >= 0
      <4>1. 1 \in 1..Len(notifies) /\ Pending(p, 1) = Net(notifies, p, 1)
        BY <1>1, PendingIsNet
      <4> QED  BY <4>1 DEF DirInv, NoEndBeforeStart
    <3>2. Net(notifies, p, 1) = -1
      <4>1. 0 \in 0..(Len(notifies) - 1) /\ 0 + 1 = 1
        BY <1>1
      <4>2. Effect(x, p) = -1
        BY <2>3 DEF Effect
      <4> QED  BY <1>3, <4>1, <4>2
    <3>3. peersOn[p] >= 1
      BY <1>1, <3>1, <3>2
    <3> QED  BY <1>1, <1>2, <2>3, <3>3 DEF delOrDec, Effect
  <2>4. CASE ~x.on /\ x.p # p
    BY <1>1, <1>2, <2>1, <2>4 DEF delOrDec, Effect
  <2> QED  BY <2>1, <2>2, <2>3, <2>4
<1>5. \A p \in Peers : Effect(x, p) \in Int
  BY DEF Effect
<1>6. \A p \in Peers : Subscribed(p)' = Subscribed(p)
  BY DEF watch, Subscribed
<1>7. StreamsCounted'
  <2> SUFFICES ASSUME NEW p \in Peers
               PROVE  peersOn'[p] + Net(notifies', p, Len(notifies')) = Cardinality(Subscribed(p)')
    BY PendingIsNet DEF StreamsCounted
  <2>1. peersOn[p] + Net(notifies, p, Len(notifies)) = Cardinality(Subscribed(p))
    BY PendingIsNet DEF DirInv, StreamsCounted
  <2>2. Len(notifies') \in 0..(Len(notifies) - 1) /\ Len(notifies') + 1 = Len(notifies)
    BY <1>1
  <2>3. Net(notifies, p, Len(notifies)) = Net(notifies', p, Len(notifies')) + Effect(x, p)
        /\ Net(notifies', p, Len(notifies')) \in Int
    BY <1>3, <2>2
  <2>4. peersOn'[p] + Net(notifies', p, Len(notifies')) = Cardinality(Subscribed(p))
    BY <1>1, <1>4, <1>5, <2>1, <2>3
  <2> QED  BY <1>6, <2>4
<1>8. NoEndBeforeStart'
  <2> SUFFICES ASSUME NEW p \in Peers, NEW k \in 1..Len(notifies')
               PROVE  peersOn'[p] + Net(notifies', p, k) >= 0
    BY PendingIsNet DEF NoEndBeforeStart
  <2>1. k \in 0..(Len(notifies) - 1) /\ k + 1 \in 1..Len(notifies)
    BY <1>1
  <2>2. peersOn[p] + Net(notifies, p, k + 1) >= 0
    BY <2>1, PendingIsNet DEF DirInv, NoEndBeforeStart
  <2>3. Net(notifies, p, k + 1) = Net(notifies', p, k) + Effect(x, p)
        /\ Net(notifies', p, k) \in Int
    BY <1>3, <2>1
  <2> QED  BY <1>1, <1>4, <1>5, <2>2, <2>3
<1> QED  BY <1>6, <1>7, <1>8 DEF FiniteOK, DirInv

\* A stream that starts or ends tells the watcher.
LEMMA BalanceNotified ==
  ASSUME DirInv, rpc' \in [Calls -> Rpc], NEW c \in Calls, rpc[c].pc # "idle",
         NEW on \in BOOLEAN, Notify(c, on), UNCHANGED peersOn,
         \A d \in Calls \ {c} : rpc'[d] = rpc[d],
         IF on THEN rpc[c].pc \notin Watching /\ rpc'[c].pc \in Watching /\ rpc'[c].p = rpc[c].p
         ELSE rpc[c].pc \in Watching /\ rpc'[c].pc \notin Watching
  PROVE  (FiniteOK /\ StreamsCounted /\ NoEndBeforeStart)'
<1>1. PICK p \in Peers : rpc[c].p = {p} /\ notifies' = Append(notifies, [p |-> p, on |-> on])
  BY NotifyType DEF DirInv
<1> DEFINE x == [p |-> p, on |-> on]
<1>2. x \in StateChange /\ Effect(x, p) = (IF on THEN 1 ELSE -1)
      /\ \A r \in Peers : r # p => Effect(x, r) = 0
  BY DEF StateChange, Effect
<1>3. /\ notifies \in Seq(StateChange) /\ notifies' = Append(notifies, x)
      /\ Len(notifies) \in Nat /\ Len(notifies') = Len(notifies) + 1
      /\ peersOn \in [Peers -> Nat] /\ rpc \in [Calls -> Rpc]
  BY <1>1, <1>2, LenProperties, AppendProperties DEF DirInv, DirTypeOK, Rpc
<1> HIDE DEF x
<1>4. ASSUME NEW r \in Peers
      PROVE  /\ \A k \in 0..Len(notifies) : Net(notifies', r, k) = Net(notifies, r, k)
             /\ Net(notifies', r, Len(notifies')) = Net(notifies, r, Len(notifies)) + Effect(x, r)
             /\ Net(notifies, r, Len(notifies)) \in Int
  <2>1. /\ \A k \in 0..Len(notifies) : Net(Append(notifies, x), r, k) = Net(notifies, r, k)
        /\ Net(Append(notifies, x), r, Len(notifies) + 1)
             = Net(notifies, r, Len(notifies)) + Effect(x, r)
    BY <1>2, <1>3, NetAppend
  <2>2. Net(notifies, r, Len(notifies)) \in Int
    BY <1>3, NetType
  <2> QED  BY <1>3, <2>1, <2>2
<1>5. /\ \A r \in Peers : r # p => Subscribed(r)' = Subscribed(r)
      /\ Subscribed(p)' = IF on THEN Subscribed(p) \cup {c} ELSE Subscribed(p) \ {c}
      /\ c \in Subscribed(p) <=> ~on
  BY <1>1, <1>3, SubscribedBy
<1>6. /\ IsFiniteSet(Subscribed(p)) /\ IsFiniteSet(Subscribed(p)')
      /\ Cardinality(Subscribed(p)') = Cardinality(Subscribed(p)) + (IF on THEN 1 ELSE -1)
      /\ Cardinality(Subscribed(p)) \in Nat /\ Cardinality(Subscribed(p)') \in Nat
  <2>1. IsFiniteSet(Subscribed(p)) /\ Cardinality(Subscribed(p)) \in Nat
    BY FS_CardinalityType DEF DirInv, FiniteOK
  <2>2. CASE on
    BY <1>5, <2>1, <2>2, FS_AddElement, FS_CardinalityType
  <2>3. CASE ~on
    BY <1>5, <2>1, <2>3, FS_RemoveElement, FS_CardinalityType
  <2> QED  BY <2>1, <2>2, <2>3
<1>7. FiniteOK'
  BY <1>5, <1>6 DEF FiniteOK, DirInv
<1>8. StreamsCounted'
  <2> SUFFICES ASSUME NEW r \in Peers
               PROVE  peersOn'[r] + Net(notifies', r, Len(notifies')) = Cardinality(Subscribed(r)')
    BY PendingIsNet DEF StreamsCounted
  <2>1. peersOn[r] + Net(notifies, r, Len(notifies)) = Cardinality(Subscribed(r))
    BY PendingIsNet DEF DirInv, StreamsCounted
  <2>2. peersOn[r] \in Nat /\ peersOn'[r] = peersOn[r]
    BY <1>3
  <2>3. CASE r = p
    BY <1>2, <1>4, <1>6, <2>1, <2>2, <2>3
  <2>4. CASE r # p
    BY <1>2, <1>4, <1>5, <2>1, <2>2, <2>4
  <2> QED  BY <2>3, <2>4
<1>9. NoEndBeforeStart'
  <2> SUFFICES ASSUME NEW r \in Peers, NEW k \in 1..Len(notifies')
               PROVE  peersOn'[r] + Net(notifies', r, k) >= 0
    BY PendingIsNet DEF NoEndBeforeStart
  <2>1. CASE k \in 1..Len(notifies)
    BY <1>3, <1>4, <2>1, PendingIsNet DEF DirInv, NoEndBeforeStart
  <2>2. CASE k = Len(notifies')
    <3>1. peersOn'[r] + Net(notifies', r, Len(notifies')) = Cardinality(Subscribed(r)')
      BY <1>8, PendingIsNet DEF StreamsCounted
    <3>2. Cardinality(Subscribed(r)') \in Nat
      <4>1. IsFiniteSet(Subscribed(r)')
        BY <1>7 DEF FiniteOK
      <4> QED  BY <4>1, FS_CardinalityType
    <3> QED  BY <2>2, <3>1, <3>2
  <2> QED  BY <1>3, <2>1, <2>2
<1> QED  BY <1>7, <1>8, <1>9

LEMMA BalanceStep ==
  ASSUME DirInv, [DirNext]_dirVars, rpc' \in [Calls -> Rpc]
  PROVE  (FiniteOK /\ StreamsCounted /\ NoEndBeforeStart)'
<1>1. rpc \in [Calls -> Rpc]
  BY DEF DirInv, DirTypeOK, Rpc
<1>2. CASE UNCHANGED <<notifies, peersOn, rpc>>
  BY <1>2, BalanceKept DEF Subscribed
<1>3. ASSUME NEW c \in Calls, Handler(c) \/ Remote(c)
      PROVE  (FiniteOK /\ StreamsCounted /\ NoEndBeforeStart)'
  <2>1. \A d \in Calls \ {c} : rpc'[d] = rpc[d]
    BY <1>1, <1>3 DEF Handler, Remote, Call, Get, Add, Touch, LockInfo, SubscribeCmdChan,
            UnsubscribeCmdChan, ServeChat, ChatEnds, Ticker, StreamDone, Step, Return
  <2>2. /\ \A from, to : Step(c, from, to) =>
             rpc[c].pc = from /\ rpc'[c].pc = to /\ rpc'[c].p = rpc[c].p
        /\ \A last : Return(c, last) => rpc'[c].pc = "idle"
    BY <1>1 DEF Step, Return, Rpc, Idle
  <2>3. CASE SubscribeCmdChan(c)
    <3>1. rpc[c].pc = "sendOn" /\ rpc'[c].pc = "wait" /\ rpc'[c].p = rpc[c].p
      BY <2>2, <2>3 DEF SubscribeCmdChan
    <3> QED  BY <1>1, <2>1, <2>3, <3>1, BalanceNotified DEF SubscribeCmdChan, Watching
  <2>4. CASE UnsubscribeCmdChan(c)
    <3>1. rpc[c].pc = "sendOff" /\ rpc'[c].pc = "idle"
      BY <2>2, <2>4 DEF UnsubscribeCmdChan
    <3> QED  BY <1>1, <2>1, <2>4, <3>1, BalanceNotified DEF UnsubscribeCmdChan, Watching
  <2>5. CASE ~SubscribeCmdChan(c) /\ ~UnsubscribeCmdChan(c)
    <3>1. UNCHANGED <<notifies, peersOn>>
      BY <1>3, <2>5 DEF Handler, Remote, Call, Get, Add, Touch, LockInfo, ServeChat,
              ChatEnds, Ticker, StreamDone
    <3>2. \/ rpc[c].pc \notin Watching /\ rpc'[c].pc \notin Watching
          \/ /\ rpc[c].pc \in Watching /\ rpc'[c].pc \in Watching
             /\ rpc'[c].p = rpc[c].p
      <4>1. ASSUME NEW p \in Peers, NEW kind \in {"ping", "stream"}, Call(c, p, kind)
            PROVE  rpc[c].pc = "idle" /\ rpc'[c].pc = "get"
        BY <1>1, <4>1 DEF Call, Idle
      <4>2. CASE Get(c)
        <5>1. PICK p : rpc' = [rpc EXCEPT ![c].info = peers[p],
                                 ![c].pc = IF peers[p] = {} THEN "add" ELSE "touch"]
          BY <4>2 DEF Get
        <5>2. PICK pc \in {"add", "touch"} : rpc' = [rpc EXCEPT ![c].info = peers[p], ![c].pc = pc]
          BY <5>1
        <5>3. rpc'[c].pc = pc
          BY ONLY <1>1, <5>2, c \in Calls DEF Rpc
        <5>4. rpc[c].pc = "get"
          BY <4>2 DEF Get
        <5> QED  BY <5>3, <5>4 DEF Watching
      <4>3. CASE Add(c)
        <5>1. rpc[c].pc = "add" /\ rpc'[c].pc = "touch"
          BY <1>1, <4>3 DEF Add, DirInv, HandlersOK, Rpc
        <5> QED  BY <5>1 DEF Watching
      <4>4. CASE Touch(c)
        <5>1. rpc[c].pc = "touch" /\ rpc'[c].pc \in {"idle", "subscribe"}
          BY <2>2, <4>4 DEF Touch
        <5> QED  BY <5>1 DEF Watching
      <4>5. CASE LockInfo(c) \/ ServeChat(c) \/ ChatEnds(c) \/ Ticker(c) \/ StreamDone(c)
        BY <2>2, <4>5 DEF LockInfo, ServeChat, ChatEnds, Ticker, StreamDone, Watching
      <4> QED  BY <1>3, <2>5, <4>1, <4>2, <4>3, <4>4, <4>5 DEF Handler, Remote, Watching
    <3>3. \A p \in Peers : Subscribed(p)' = Subscribed(p)
      BY <1>1, <2>1, <3>2 DEF Subscribed, Watching
    <3> QED  BY <3>1, <3>3, BalanceKept
  <2> QED  BY <2>3, <2>4, <2>5
<1>4. CASE watch
  BY <1>4, BalanceWatched
<1> QED  BY <1>2, <1>3, <1>4 DEF DirNext, dirVars, Lapse

-----------------------------------------------------------------------------
(* The theorems *)

LEMMA DirInvInit == DirInit => DirInv
<1> SUFFICES ASSUME DirInit PROVE DirInv
  OBVIOUS
<1>1. notifies = <<>> /\ Len(notifies) = 0 /\ \A c \in Calls : rpc[c] = Idle
  BY LenProperties DEF DirInit
<1>2. DirTypeOK
  <2>1. Idle \in Rpc
    BY DEF Idle, Rpc
  <2>2. notifies \in Seq(StateChange)
    BY <1>1
  <2> QED  BY <1>1, <2>1, <2>2, FS_EmptySet, DirectoryAssumption DEF DirInit, DirTypeOK, Rpc
<1>3. \A p \in Peers : Subscribed(p) = {}
  BY <1>1 DEF Subscribed, Idle
<1>4. HandlersOK /\ KnownOK /\ FiniteOK
  <2>1. HandlersOK
    BY <1>1 DEF HandlersOK, Idle
  <2>2. KnownOK
    BY <1>1 DEF DirInit, KnownOK
  <2>3. FiniteOK
    BY <1>3, FS_EmptySet DEF FiniteOK
  <2> QED  BY <2>1, <2>2, <2>3
<1>5. StreamsCounted
  <2>1. \A p \in Peers : peersOn[p] = 0 /\ Pending(p, 0) = 0
    BY NetType, PendingIsNet DEF DirInit
  <2> QED  BY <1>1, <1>3, <2>1, FS_EmptySet DEF StreamsCounted
<1>6. NoEndBeforeStart
  BY <1>1 DEF NoEndBeforeStart
<1> QED  BY <1>2, <1>4, <1>5, <1>6 DEF DirInv

LEMMA DirInvStep == DirInv /\ [DirNext]_dirVars => DirInv'
<1> SUFFICES ASSUME DirInv, [DirNext]_dirVars PROVE DirInv'
  OBVIOUS
<1>1. DirTypeOK'
  BY TypesStep DEF DirInv
<1>2. rpc' \in [Calls -> Rpc]
  BY <1>1 DEF DirTypeOK, Rpc
<1> QED  BY <1>1, <1>2, HandlersStep, KnownStep, BalanceStep DEF DirInv

LEMMA DirInvHolds == DirSpec => []DirInv
  BY DirInvInit, DirInvStep, PTL DEF DirSpec

\* Every variable of the directory keeps its type, and a peer never has more than
\* one registered PeerInfo (registry.go:42-60).
THEOREM DirectoryTypes == DirSpec => []DirTypeOK
<1>1. DirInv => DirTypeOK
  BY DEF DirInv
<1> QED  BY <1>1, DirInvHolds, PTL

\* The watcher's count of a peer and the notifications on their way to it add up
\* to the peer's streams, for any number of streams and any size of the channel
\* (watcher.go:42-97).
THEOREM StreamsAreCounted == DirSpec => []StreamsCounted
<1>1. DirInv => StreamsCounted
  BY DEF DirInv
<1> QED  BY <1>1, DirInvHolds, PTL

\* delOrDec always finds the peer it is told to take off (watcher.go:84).
THEOREM EndsFollowStarts == DirSpec => []NoEndBeforeStart
<1>1. DirInv => NoEndBeforeStart
  BY DEF DirInv
<1> QED  BY <1>1, DirInvHolds, PTL

\* A PeerInfo that is registered stays registered (registry.go:33-37).
THEOREM RegistryIsStable == DirSpec => RegistryStable
<1>1. DirInv /\ [DirNext]_dirVars => [\A p \in Peers : peers[p] # {} => peers'[p] = peers[p]]_dirVars
  BY PeersStay DEF DirInv
<1> QED  BY <1>1, DirInvHolds, PTL DEF DirSpec, RegistryStable

-----------------------------------------------------------------------------
(* The directory implements the roster *)

LEMMA RosterInitial == DirInit => Plan!RosterInit
  BY DEF DirInit, Plan!RosterInit, AvailablePeers

LEMMA RosterStep ==
  ASSUME DirInv, [DirNext]_dirVars
  PROVE  [Plan!RosterNext]_Plan!rosterVars
<1> DEFINE known == {p \in Peers : peers[p] # {}}
<1>1. CASE UNCHANGED <<peers, peersOn>>
  BY <1>1 DEF Plan!rosterVars, AvailablePeers
<1>2. ASSUME NEW c \in Calls, Add(c) PROVE Plan!RosterNext \/ UNCHANGED <<peers, peersOn>>
  <2>1. PICK p \in Peers : /\ rpc[c].p = {p}
                           /\ peers' = [peers EXCEPT ![p] = IF @ = {} THEN {<<c, p>>} ELSE @]
    <3>1. rpc[c].pc # "idle" /\ \E p \in Peers : rpc[c].p = {p}
      BY <1>2 DEF Add, DirInv, HandlersOK
    <3>2. PICK p \in Peers : rpc[c].p = {p}
      BY <3>1
    <3>3. peers' = [peers EXCEPT ![p] = IF @ = {} THEN {<<c, p>>} ELSE @]
      BY <1>2, <3>2 DEF Add
    <3> QED  BY <3>2, <3>3
  <2>2. peers \in [Peers -> SUBSET Infos] /\ UNCHANGED peersOn
    BY <1>2 DEF Add, DirInv, DirTypeOK
  <2>3. CASE peers[p] # {}
    BY <2>1, <2>2, <2>3
  <2>4. CASE peers[p] = {}
    <3>1. p \notin known /\ known' = known \cup {p}
      BY <2>1, <2>2, <2>4
    <3>2. UNCHANGED AvailablePeers
      BY <2>2 DEF AvailablePeers
    <3> QED  BY <3>1, <3>2 DEF Plan!RosterNext, Plan!Register
  <2> QED  BY <2>3, <2>4
<1>3. CASE watch
  <2>1. PICK x \in StateChange : /\ x = Head(notifies)
                                 /\ IF x.on THEN addOrInc(x.p) ELSE delOrDec(x.p)
    BY <1>3, HeadTailProperties DEF watch, DirInv, DirTypeOK
  <2>2. x.p \in known
    <3>1. Head(notifies) = notifies[1] /\ 1 \in 1..Len(notifies)
      BY <1>3, HeadTailProperties, EmptySeq, LenProperties DEF watch, DirInv, DirTypeOK
    <3>2. x.p \in Peers
      BY DEF StateChange
    <3> QED  BY <2>1, <3>1, <3>2 DEF DirInv, KnownOK
  <2>3. peersOn \in [Peers -> Nat] /\ UNCHANGED peers
    BY <1>3 DEF watch, DirInv, DirTypeOK
  <2>4. known' = known
    BY <2>3
  <2>5. CASE x.on
    <3>1. AvailablePeers' = AvailablePeers \cup {x.p}
      BY <2>1, <2>2, <2>3, <2>5 DEF addOrInc, AvailablePeers
    <3>2. CASE x.p \in AvailablePeers
      BY <2>4, <3>1, <3>2 DEF Plan!rosterVars
    <3>3. CASE x.p \notin AvailablePeers
      BY <2>2, <2>4, <3>1, <3>3 DEF Plan!RosterNext, Plan!Appear
    <3> QED  BY <3>2, <3>3
  <2>6. CASE ~x.on
    <3>1. CASE peersOn[x.p] > 1
      <4>1. AvailablePeers' = AvailablePeers
        BY <2>1, <2>2, <2>3, <2>6, <3>1 DEF delOrDec, AvailablePeers
      <4> QED  BY <2>4, <4>1 DEF Plan!rosterVars
    <3>2. CASE ~(peersOn[x.p] > 1)
      <4>1. AvailablePeers' = AvailablePeers \ {x.p}
        BY <2>1, <2>2, <2>3, <2>6, <3>2 DEF delOrDec, AvailablePeers
      <4>2. CASE x.p \in AvailablePeers
        BY <2>2, <2>4, <4>1, <4>2 DEF Plan!RosterNext, Plan!Vanish
      <4>3. CASE x.p \notin AvailablePeers
        BY <2>4, <4>1, <4>3 DEF Plan!rosterVars
      <4> QED  BY <4>2, <4>3
    <3> QED  BY <3>1, <3>2
  <2> QED  BY <2>5, <2>6
<1>4. ASSUME NEW c \in Calls, Handler(c) \/ Remote(c), ~Add(c)
      PROVE  UNCHANGED <<peers, peersOn>>
  BY <1>4 DEF Handler, Remote, Call, Get, Touch, LockInfo, SubscribeCmdChan,
          UnsubscribeCmdChan, ServeChat, ChatEnds, Ticker, StreamDone
<1> QED  BY <1>1, <1>2, <1>3, <1>4 DEF DirNext, dirVars, Lapse

\* The directory implements the roster jobs are planned with: a peer is never
\* forgotten and never listed as online before it is known (groupmap.go:19,
\* onlinefilter.go:42).
THEOREM DirectoryImplementsRoster == DirSpec => RosterImplemented
<1>1. DirInv /\ [DirNext]_dirVars => [Plan!RosterNext]_Plan!rosterVars
  BY RosterStep
<1> QED  BY <1>1, RosterInitial, DirInvHolds, PTL DEF DirSpec, RosterImplemented, Plan!RosterSpec
=============================================================================
