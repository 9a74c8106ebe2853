----------------------------- MODULE Directory -----------------------------
(***************************************************************************)
(* The gateway's directory of peers: the registry (directory/registry.go), *)
(* the PeerInfo objects (peerinfo.go), the watcher that counts the streams *)
(* of each peer (watcher.go), and the two RPC handlers of node/gateway.go  *)
(* that feed them, Ping and AwaitSMCRound.  What happens on a stream while *)
(* it serves a chat is module Chat.                                        *)
(*                                                                         *)
(* gRPC runs every call in a goroutine of its own: Calls is a set of such  *)
(* goroutines, each of which serves one RPC after another.                 *)
(***************************************************************************)
EXTENDS Naturals, Integers, Sequences, FiniteSets

CONSTANTS
  Peers,      \* authenticated peers, numbered in the order of their IDs
  Calls,      \* goroutines serving an RPC
  NotifyCap   \* capacity of the watcher's channel (32 in the code)

ASSUME DirectoryAssumption == NotifyCap \in Nat \ {0} /\ Peers \subseteq Nat

(***************************************************************************)
(* A PeerInfo is named by the call that made it and its peer: a call makes *)
(* at most one for a peer, since the registry knows the peer from then on. *)
(***************************************************************************)
Infos == Calls \X Peers
IdOf(i) == i[2]

VARIABLES
  peers,     \* Registry.peers: per peer the set of its registered PeerInfo
  recent,    \* lastPing is younger than MaxActivityGap
  notifies,  \* the watcher's channel
  peersOn,   \* peerStatus.aliveConns per peer (0: not in the map)
  rpc        \* per goroutine: the RPC it serves

dirVars == <<peers, recent, notifies, peersOn, rpc>>

StateChange == [p : Peers, on : BOOLEAN]
Idle == [pc |-> "idle", kind |-> "ping", p |-> {}, info |-> {}]

DirTypeOK ==
  /\ peers \in [Peers -> SUBSET Infos]
  /\ \A p \in Peers : Cardinality(peers[p]) <= 1 /\ \A i \in peers[p] : IdOf(i) = p
  /\ recent \in [Infos -> BOOLEAN]
  /\ notifies \in Seq(StateChange) /\ Len(notifies) <= NotifyCap
  /\ peersOn \in [Peers -> Nat]
  /\ rpc \in [Calls -> [pc : {"idle", "get", "add", "touch", "subscribe", "sendOn",
                              "wait", "chat", "unsubscribe", "sendOff"},
                        kind : {"ping", "stream"},
                        p : SUBSET Peers, info : SUBSET Infos]]

DirInit ==
  /\ peers = [p \in Peers |-> {}]
  /\ recent = [i \in Infos |-> FALSE]
  /\ notifies = <<>>
  /\ peersOn = [p \in Peers |-> 0]
  /\ rpc = [c \in Calls |-> Idle]

\* Goroutine c moves on from one line to the next.
Step(c, from, to) == rpc[c].pc = from /\ rpc' = [rpc EXCEPT ![c].pc = to]

\* PeerInfo.mu is held over a send to the watcher, which may block.
Locked(i) == \E c \in Calls : rpc[c].info = {i} /\ rpc[c].pc \in {"sendOn", "sendOff"}

Unlocked(c) == \A i \in rpc[c].info : ~Locked(i)

-----------------------------------------------------------------------------
(* Registry.GetOrCreate, at the start of both handlers *)

Call(c, p, kind) ==
  /\ rpc[c] = Idle
  /\ rpc' = [rpc EXCEPT ![c] = [pc |-> "get", kind |-> kind, p |-> {p}, info |-> {}]]
  /\ UNCHANGED <<peers, recent, notifies, peersOn>>

\* The lock is released between the look-up and Add.
Get(c) ==
  /\ rpc[c].pc = "get"
  /\ \E p \in rpc[c].p :
       rpc' = [rpc EXCEPT ![c].info = peers[p],
                          ![c].pc = IF peers[p] = {} THEN "add" ELSE "touch"]
  /\ UNCHANGED <<peers, recent, notifies, peersOn>>

\* Mutant: only pings register a peer.
AddFromPing(c) ==
  /\ rpc[c].pc = "add"
  /\ \E p \in rpc[c].p :
       /\ peers' = [peers EXCEPT ![p] = IF rpc[c].kind = "ping" THEN {<<c, p>>} ELSE @]
       /\ rpc' = [rpc EXCEPT ![c].info = {<<c, p>>}, ![c].pc = "touch"]
  /\ UNCHANGED <<recent, notifies, peersOn>>

\* Mutant: a later Add replaces the registered PeerInfo.
AddReplaces(c) ==
  /\ rpc[c].pc = "add"
  /\ \E p \in rpc[c].p :
       /\ peers' = [peers EXCEPT ![p] = {<<c, p>>}]
       /\ rpc' = [rpc EXCEPT ![c].info = {<<c, p>>}, ![c].pc = "touch"]
  /\ UNCHANGED <<recent, notifies, peersOn>>

\* The caller goes on with its own PeerInfo even if another is registered.
Add(c) ==
  /\ rpc[c].pc = "add"
  /\ \E p \in rpc[c].p :
       /\ peers' = [peers EXCEPT ![p] = IF @ = {} THEN {<<c, p>>} ELSE @]
       /\ rpc' = [rpc EXCEPT ![c].info = {<<c, p>>}, ![c].pc = "touch"]
  /\ UNCHANGED <<recent, notifies, peersOn>>

\* The handler returns; a PeerInfo that only it knew is gone.
Return(c, last) ==
  /\ rpc' = [rpc EXCEPT ![c] = Idle]
  /\ recent' = [i \in Infos |-> last[i] /\ (i \in rpc[c].info => i \in peers[IdOf(i)])]

\* Ping ends here.
Touch(c) ==
  /\ rpc[c].pc = "touch" /\ Unlocked(c)
  /\ LET now == [i \in Infos |-> recent[i] \/ i \in rpc[c].info] IN
       IF rpc[c].kind = "ping" THEN Return(c, now)
       ELSE recent' = now /\ Step(c, "touch", "subscribe")
  /\ UNCHANGED <<peers, notifies, peersOn>>

-----------------------------------------------------------------------------
(* AwaitSMCRound *)

\* SubscribeCmdChan and UnsubscribeCmdChan first take the lock.
LockInfo(c) ==
  /\ Unlocked(c)
  /\ Step(c, "subscribe", "sendOn") \/ Step(c, "unsubscribe", "sendOff")
  /\ UNCHANGED <<peers, recent, notifies, peersOn>>

\* Mutant: the channel has no limit.
NotifyAnyway(c, on) ==
  \E p \in rpc[c].p : notifies' = Append(notifies, [p |-> p, on |-> on])

Notify(c, on) ==
  /\ Len(notifies) < NotifyCap
  /\ \E p \in rpc[c].p : notifies' = Append(notifies, [p |-> p, on |-> on])

SubscribeCmdChan(c) ==
  /\ Step(c, "sendOn", "wait")
  /\ Notify(c, TRUE)
  /\ UNCHANGED <<peers, recent, peersOn>>

\* Mutant: a full channel loses the notification.
UnsubscribeDropped(c) ==
  /\ rpc[c].pc = "sendOff"
  /\ Notify(c, FALSE) \/ (Len(notifies) = NotifyCap /\ UNCHANGED notifies)
  /\ Return(c, recent)
  /\ UNCHANGED <<peers, peersOn>>

UnsubscribeCmdChan(c) ==
  /\ rpc[c].pc = "sendOff"
  /\ Notify(c, FALSE)
  /\ Return(c, recent)
  /\ UNCHANGED <<peers, peersOn>>

\* A worker's RequestChat meets a stream waiting on the PeerInfo it knows,
\* the registered one.
ServeChat(c) ==
  /\ \E p \in rpc[c].p : rpc[c].info = peers[p]
  /\ Step(c, "wait", "chat")
  /\ UNCHANGED <<peers, recent, notifies, peersOn>>

\* A stream serves one chat only.
ChatEnds(c) ==
  /\ Step(c, "chat", "unsubscribe")
  /\ UNCHANGED <<peers, recent, notifies, peersOn>>

\* Mutant: the ticker looks at the peer only once it has been busy.
TickerSleeps(c) ==
  /\ rpc[c].kind = "ping"
  /\ Unlocked(c) /\ \A i \in rpc[c].info : ~recent[i]
  /\ Step(c, "wait", "unsubscribe")
  /\ UNCHANGED <<peers, recent, notifies, peersOn>>

\* The periodic activity check finds no ping for too long.
Ticker(c) ==
  /\ Unlocked(c) /\ \A i \in rpc[c].info : ~recent[i]
  /\ Step(c, "wait", "unsubscribe")
  /\ UNCHANGED <<peers, recent, notifies, peersOn>>

\* The peer closes its stream.
StreamDone(c) ==
  /\ Step(c, "wait", "unsubscribe")
  /\ UNCHANGED <<peers, recent, notifies, peersOn>>

\* Time passes without a ping.
Lapse(i) ==
  /\ recent[i]
  /\ recent' = [recent EXCEPT ![i] = FALSE]
  /\ UNCHANGED <<peers, notifies, peersOn, rpc>>

-----------------------------------------------------------------------------
(* The watcher *)

addOrInc(p) == peersOn' = [peersOn EXCEPT ![p] = @ + 1]

\* Mutant: the last stream but one takes the peer offline.
DelEarly(p) == peersOn' = [peersOn EXCEPT ![p] = IF @ > 2 THEN @ - 1 ELSE 0]

\* An unknown peer is ignored.
delOrDec(p) == peersOn' = [peersOn EXCEPT ![p] = IF @ > 1 THEN @ - 1 ELSE 0]

\* Mutant: only the first stream of a peer is counted.
WatchFirstOnly ==
  /\ notifies # <<>>
  /\ notifies' = Tail(notifies)
  /\ LET n == Head(notifies) IN
       IF n.on /\ peersOn[n.p] = 0 THEN addOrInc(n.p)
       ELSE IF n.on THEN UNCHANGED peersOn ELSE delOrDec(n.p)
  /\ UNCHANGED <<peers, recent, rpc>>

watch ==
  /\ notifies # <<>>
  /\ notifies' = Tail(notifies)
  /\ LET n == Head(notifies) IN IF n.on THEN addOrInc(n.p) ELSE delOrDec(n.p)
  /\ UNCHANGED <<peers, recent, rpc>>

AvailablePeers == {p \in Peers : peersOn[p] > 0}

-----------------------------------------------------------------------------
\* What goroutine c does by itself once it is called.
Handler(c) ==
  \/ Get(c) \/ Add(c) \/ Touch(c) \/ LockInfo(c)
  \/ SubscribeCmdChan(c) \/ UnsubscribeCmdChan(c) \/ ChatEnds(c) \/ Ticker(c)

Remote(c) ==
  \/ \E p \in Peers, kind \in {"ping", "stream"} : Call(c, p, kind)
  \/ ServeChat(c) \/ StreamDone(c)

DirNext == watch \/ (\E c \in Calls : Handler(c) \/ Remote(c)) \/ (\E i \in Infos : Lapse(i))

\* Goroutines run on; the mutex of a PeerInfo is handed to whoever has waited
\* long (Go's mutexes are starvation free), and so is room in a channel.  A
\* PeerInfo outside the registry is pinged no more, so its time runs out.
DirFairness ==
  /\ WF_dirVars(watch)
  /\ \A c \in Calls : SF_dirVars(Handler(c))
  /\ \A i \in Infos : WF_dirVars(i \notin peers[IdOf(i)] /\ Lapse(i))

DirSpec == DirInit /\ [][DirNext]_dirVars /\ DirFairness

-----------------------------------------------------------------------------
(* Properties *)

Subscribed(p) == {c \in Calls : rpc[c].p = {p} /\
                    rpc[c].pc \in {"wait", "chat", "unsubscribe", "sendOff"}}

\* What the first k notifications under way will do to the count of peer p.
Pending(p, k) ==
  Cardinality({n \in 1..k : notifies[n] = [p |-> p, on |-> TRUE]})
    - Cardinality({n \in 1..k : notifies[n] = [p |-> p, on |-> FALSE]})

\* The count of a peer differs from the streams that are subscribed by what the
\* channel still holds: no stream is counted twice, lost or left over, also
\* when streams of one peer start and end at once, block on the full channel or
\* use different PeerInfo objects (watcher.go:42-97, peerinfo.go:96-118).
StreamsCounted ==
  \A p \in Peers : peersOn[p] + Pending(p, Len(notifies)) = Cardinality(Subscribed(p))

\* A stream's end never overtakes its start: delOrDec always finds the peer it
\* is told to take off, and so never swallows a notification (watcher.go:84).
NoEndBeforeStart ==
  \A p \in Peers : \A k \in 1..Len(notifies) : peersOn[p] + Pending(p, k) >= 0

\* A registered PeerInfo stays: whoever holds it, a stream or a job, works with
\* the same object as those who look it up later (registry.go:33-37).
RegistryStable == [][\A p \in Peers : peers[p] # {} => peers'[p] = peers[p]]_dirVars

\* First contacts that race leave one of them with a PeerInfo nobody else finds:
\* its stream counts as online but no job reaches it (registry.go:42-51).  It does
\* not stay so: pings go to the registered PeerInfo, so the ticker gives it up,
\* however often the peer pings.
OrphanGivenUp ==
  \A c \in Calls, p \in Peers :
    (rpc[c].pc = "wait" /\ rpc[c].p = {p} /\ rpc[c].info # peers[p]) ~> rpc[c].pc # "wait"

\* The stream of a peer that stays silent is given up (gateway.go:104-109).
SilentStreamEnds ==
  \A c \in Calls :
    (rpc[c].pc = "wait" /\ \A i \in rpc[c].info : ~recent[i])
      ~> (rpc[c].pc # "wait" \/ \E i \in rpc[c].info : recent[i])

\* The directory catches up: a peer whose streams are gone for good goes offline,
\* and one that keeps a stream is online for good.
OnlineSettles ==
  \A p \in Peers :
    /\ <>[](Subscribed(p) = {}) => <>[](p \notin AvailablePeers)
    /\ <>[](Subscribed(p) # {}) => <>[](p \in AvailablePeers)

Plan == INSTANCE Roster WITH
  known <- {p \in Peers : peers[p] # {}}, online <- AvailablePeers

\* The directory is the roster that jobs are planned with (groupmap.go:19,
\* onlinefilter.go:42): peers are never forgotten, and a peer that is listed as
\* online was registered before, although the registry and the watcher hear of it
\* on different ways.
RosterImplemented == Plan!RosterSpec
=============================================================================
