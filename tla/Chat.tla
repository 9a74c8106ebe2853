------------------------------- MODULE Chat -------------------------------
(***************************************************************************)
(* The chats between the gateway and its peers: the channel pair of        *)
(* directory/talk.go, the gateway's stream handlers AwaitSMCRound and      *)
(* chatLoop (node/gateway.go), and what a peer's bridge                    *)
(* (node/modules/smcadvisor.go, smc/smc_fresco.go) answers.                *)
(*                                                                         *)
(* A job talks to a peer over at most one chat in its life, so chats are   *)
(* indexed by job and peer.  The gateway's own ends of a chat (Instruct,   *)
(* GetFeedback, Close) are operated by module Worker.                      *)
(***************************************************************************)
EXTENDS Naturals, FiniteSets

CONSTANTS
  Jobs,             \* jobs submitted to the worker pool
  Peers,            \* authenticated peers
  ParallelSessions, \* SMC sessions, hence streams, one peer offers at a time
  BackendStatus,    \* statuses the SMC backend may answer with
  Vals              \* results a peer may report (one of them may mean nil)

ASSUME SessionsAssumption == ParallelSessions \in Nat \ {0}
ASSUME PeersAssumption == IsFiniteSet(Peers)

(***************************************************************************)
(* CmdResult.Status is a bit mask: a status is the set of its bits, "&" is *)
(* intersection, "|" is union.                                             *)
(***************************************************************************)
SUCCESS             == {}
SUCCESS_DONE        == {1}
DENIED              == {2, 32}
ABORTED             == {1, 64}
STREAM_ERR          == {1, 128}
ERR_CLASS_COMM      == {128}
SEVERE_ERROR_CLASSES == {64, 128}
ALL_ERROR_CLASSES   == {32, 64, 128}
Bits                == {1, 2, 32, 64, 128}

ASSUME StatusAssumption == BackendStatus \subseteq SUBSET Bits

VARIABLES
  idle,    \* per peer: AwaitSMCRound handlers waiting for a chat
  to,      \* smcChat.to: one-place buffer, a set of at most one command
  from,    \* smcChat.from: one-place buffer of results
  closed,  \* smcChat.to has been closed
  handler, \* where the chatLoop serving the chat stands
  relay,   \* the command the handler is relaying to its peer
  stream,  \* the gRPC stream under the chat
  answered \* history of an open chat: phases its peer answered without an error

serveVars == <<idle, handler, relay, stream>>
chatVars  == <<to, from, closed, answered, serveVars>>

Cmd == [phase : Nat, round : Nat, id : Nat]

\* round and phase of a result are those of the command it answers.  The value
\* of an error is never looked at: val is then empty.
CmdResult == [phase : Nat, round : Nat, status : SUBSET Bits, val : SUBSET Vals]

ChatTypeOK ==
  /\ idle \in [Peers -> Nat]
  /\ to \in [Jobs -> [Peers -> SUBSET Cmd]]
  /\ from \in [Jobs -> [Peers -> SUBSET CmdResult]]
  /\ closed \in [Jobs -> [Peers -> BOOLEAN]]
  /\ handler \in [Jobs -> [Peers -> {"none", "await", "send", "recv", "gone"}]]
  /\ relay \in [Jobs -> [Peers -> SUBSET Cmd]]
  /\ stream \in [Jobs -> [Peers -> {"none", "up", "half", "down"}]]
  /\ answered \in [Jobs -> [Peers -> Nat]]

ChatInit ==
  /\ idle = [p \in Peers |-> 0]
  /\ to = [j \in Jobs |-> [p \in Peers |-> {}]]
  /\ from = [j \in Jobs |-> [p \in Peers |-> {}]]
  /\ closed = [j \in Jobs |-> [p \in Peers |-> FALSE]]
  /\ handler = [j \in Jobs |-> [p \in Peers |-> "none"]]
  /\ relay = [j \in Jobs |-> [p \in Peers |-> {}]]
  /\ stream = [j \in Jobs |-> [p \in Peers |-> "none"]]
  /\ answered = [j \in Jobs |-> [p \in Peers |-> 0]]

-----------------------------------------------------------------------------
(* Streams waiting for work *)

\* Sessions a peer holds: its waiting streams and the chats its bridge serves.
Busy(p) == idle[p] + Cardinality({j \in Jobs : stream[j][p] = "up"})

\* The peer reserved a session and opened a stream; the gateway subscribes it.
AwaitSMCRound(p) ==
  /\ Busy(p) < ParallelSessions
  /\ idle' = [idle EXCEPT ![p] = @ + 1]
  /\ UNCHANGED <<to, from, closed, handler, relay, stream, answered>>

\* Mutant: a handler unsubscribes twice.
LeaveTwice(p) ==
  /\ idle[p] > 0
  /\ idle' = [idle EXCEPT ![p] = @ - 2]
  /\ UNCHANGED <<to, from, closed, handler, relay, stream, answered>>

\* A waiting stream ends: the peer left, or the ticker saw no ping for too long.
LeaveSMCRound(p) ==
  /\ idle[p] > 0
  /\ idle' = [idle EXCEPT ![p] = @ - 1]
  /\ UNCHANGED <<to, from, closed, handler, relay, stream, answered>>

\* RequestChat succeeds: a new chat is handed to a waiting handler.
Handover(j, p) ==
  /\ idle[p] > 0
  /\ idle' = [idle EXCEPT ![p] = @ - 1]
  /\ to' = [to EXCEPT ![j][p] = {}]
  /\ from' = [from EXCEPT ![j][p] = {}]
  /\ closed' = [closed EXCEPT ![j][p] = FALSE]
  /\ handler' = [handler EXCEPT ![j][p] = "await"]
  /\ stream' = [stream EXCEPT ![j][p] = "up"]
  /\ UNCHANGED <<relay, answered>>

-----------------------------------------------------------------------------
(* chatLoop *)

\* cmd, more := <-fromGW: a closed channel still delivers what it buffers.
TakeInstruction(j, p) ==
  /\ handler[j][p] = "await"
  /\ to[j][p] # {}
  /\ relay' = [relay EXCEPT ![j][p] = to[j][p]]
  /\ to' = [to EXCEPT ![j][p] = {}]
  /\ handler' = [handler EXCEPT ![j][p] = "send"]
  /\ UNCHANGED <<idle, from, closed, stream, answered>>

\* Mutant: the handler does not notice that the channel was closed.
IgnoreClose(j, p) == FALSE

\* The gateway closed the chat: the handler returns, which ends the stream.  No
\* one refers to the chat, or an answer left in it, any more.
EndChat(j, p) ==
  /\ handler[j][p] = "await"
  /\ to[j][p] = {} /\ closed[j][p]
  /\ handler' = [handler EXCEPT ![j][p] = "gone"]
  /\ stream' = [stream EXCEPT ![j][p] = "down"]
  /\ from' = [from EXCEPT ![j][p] = {}]
  /\ UNCHANGED <<idle, to, closed, relay, answered>>

\* stream.Send succeeds.  On a dying stream it may, without reaching the peer.
SendToPeer(j, p) ==
  /\ handler[j][p] = "send"
  /\ handler' = [handler EXCEPT ![j][p] = "recv"]
  /\ UNCHANGED <<idle, to, from, closed, relay, stream, answered>>

\* stream.Send fails: chatLoop returns without a word to the gateway.
SendFails(j, p) ==
  /\ handler[j][p] = "send"
  /\ stream[j][p] = "down"
  /\ handler' = [handler EXCEPT ![j][p] = "gone"]
  /\ relay' = [relay EXCEPT ![j][p] = {}]
  /\ UNCHANGED <<idle, to, from, closed, stream, answered>>

\* frescoSession.NextCmd: whether the peer expects more after this status.
MoreCmds(status) ==
  status # SUCCESS_DONE /\ status \cap SEVERE_ERROR_CLASSES = {}

Answers == BackendStatus \cup {ABORTED, DENIED}

\* What the bridge answers and whether it then expects more: the backend's word,
\* or a failed Init (ABORTED) or reportError (DENIED), after which it hangs up.
Answer(status, more) ==
  \/ status \in BackendStatus /\ (more <=> MoreCmds(status))
  \/ status \in {ABORTED, DENIED} /\ ~more

\* The peer answers and the handler forwards the answer, then awaits the next
\* command.  The write blocks while the buffer is full.
ForwardResult(j, p) ==
  /\ handler[j][p] = "recv"
  /\ stream[j][p] = "up"
  /\ from[j][p] = {}
  /\ \E c \in relay[j][p], s \in Answers, v \in Vals, more \in BOOLEAN :
       /\ Answer(s, more)
       /\ from' = [from EXCEPT ![j][p] =
            {[phase |-> c.phase, round |-> c.round, status |-> s,
              val |-> IF s \cap ALL_ERROR_CLASSES = {} THEN {v} ELSE {}]}]
       /\ answered' = IF s \cap ALL_ERROR_CLASSES = {} /\ ~closed[j][p]
                        THEN [answered EXCEPT ![j][p] = c.phase + 1] ELSE answered
       /\ stream' = [stream EXCEPT ![j][p] = IF more THEN "up" ELSE "half"]
  /\ relay' = [relay EXCEPT ![j][p] = {}]
  /\ handler' = [handler EXCEPT ![j][p] = "await"]
  /\ UNCHANGED <<idle, to, closed>>

\* stream.Recv fails: the gateway is told STREAM_ERR and the handler returns.
ForwardLoss(j, p) ==
  /\ handler[j][p] = "recv"
  /\ stream[j][p] \in {"half", "down"}
  /\ from[j][p] = {}
  /\ \E c \in relay[j][p] :
       from' = [from EXCEPT ![j][p] =
         {[phase |-> c.phase, round |-> c.round, status |-> STREAM_ERR, val |-> {}]}]
  /\ relay' = [relay EXCEPT ![j][p] = {}]
  /\ handler' = [handler EXCEPT ![j][p] = "gone"]
  /\ stream' = [stream EXCEPT ![j][p] = "down"]
  /\ UNCHANGED <<idle, to, closed, answered>>

\* The connection under a chat is lost.  A handler waiting for the gateway does
\* not notice: chatLoop does not watch the stream's context.
LoseStream(j, p) ==
  /\ stream[j][p] \in {"up", "half"}
  /\ stream' = [stream EXCEPT ![j][p] = "down"]
  /\ UNCHANGED <<idle, to, from, closed, handler, relay, answered>>

\* What the handler serving one chat does.
ChatLoop(j, p) ==
  \/ TakeInstruction(j, p) \/ EndChat(j, p) \/ SendToPeer(j, p)
  \/ SendFails(j, p) \/ ForwardResult(j, p) \/ ForwardLoss(j, p)

ChatNext ==
  \/ \E p \in Peers : AwaitSMCRound(p) \/ LeaveSMCRound(p)
  \/ \E j \in Jobs, p \in Peers : ChatLoop(j, p) \/ LoseStream(j, p)
=============================================================================
