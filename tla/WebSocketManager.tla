---- MODULE WebSocketManager ----
(***************************************************************************)
(* Delivery of messages to the teams' WebSocket connections.  The handlers *)
(* of the connections (websocket_endpoint) run on the event loop of the    *)
(* HTTP server, the sender (websocket_async_loop) takes messages from      *)
(* websocket_queue on an event loop of its own, and both use one           *)
(* WebSocketManager and its asyncio.Lock.                                  *)
(*                                                                         *)
(* An asyncio.Lock (Python 3.10 and later) is not reentrant, serves its    *)
(* waiters in order, and belongs to the first event loop on which somebody *)
(* had to wait for it: waiting on another loop raises RuntimeError.  Its   *)
(* release completes the future of the first waiter with call_soon, which  *)
(* does not wake the event loop of another thread.                         *)
(***************************************************************************)
EXTENDS Naturals, Sequences, SequencesExt

CONSTANTS
  Teams,
  Conns,        \* connections: WebSocket objects with their handlers
  Kinds,        \* kinds of messages the trading threads put on the queue
  MaxMessages   \* bound: how many they put

Sender  == "sender"
NoOne   == "none"

ASSUME NamesAssumption == {Sender, NoOne} \cap (Conns \cup Teams) = {}
ASSUME MaxMessagesAssumption == MaxMessages \in Nat

VARIABLES
  team,      \* the team of a connection, NoOne before it is made
  sock,      \* "open", "gone" (left by the client), "closed" (by the server)
  pc,        \* where the handler of a connection is
  active,    \* active_connections: team -> connection or NoOne
  seq,       \* sequence_numbers
  holder,    \* who holds _lock
  waiters,   \* who waits for it, in order
  bound,     \* the event loop the lock belongs to
  queue,     \* websocket_queue
  sending,   \* where the sender is
  message,   \* the message it works on
  target,    \* the connection it sends on
  put,       \* messages put by the trading threads so far
  got        \* history: the sequence numbers a client received

lockVars == <<holder, waiters, bound>>
vars == <<team, sock, pc, active, seq, lockVars, queue, sending, message, target, put,
          got>>

-----------------------------------------------------------------------------
(* What is put on the queue, and what the sender can do with it. *)

\* The keys of the data of a message, as the trading threads put it.
AckKeys == {"order_id", "client_order_id", "instrument_id", "side", "quantity",
            "price", "status"}
RejectKeys == {"order_id", "client_order_id", "reason", "error_code"}
CancelKeys == {"order_id", "client_order_id", "cancelled_quantity", "reason"}
CancelRejectKeys == {"order_id", "client_order_id", "reason"}
ReportKeys == {"order_id", "client_order_id", "side", "quantity", "price",
               "liquidity", "fee", "timestamp", "trade_id", "counterparty",
               "team_id"}

Keys == [new_order_ack |-> AckKeys, new_order_reject |-> RejectKeys,
         cancel_ack |-> CancelKeys, cancel_reject |-> CancelRejectKeys,
         execution_report |-> ReportKeys,
         position_snapshot |-> {"positions"}]

\* The parameters of a broadcast method besides the team, and which of them
\* have a default.
NewOrderAck    == [all |-> {"order_id", "client_order_id", "instrument_id", "side",
                            "quantity", "order_type", "price"},
                   optional |-> {}]
NewOrderReject == [all |-> {"order_id", "client_order_id", "reason", "error_code"},
                   optional |-> {"error_code"}]
TradeExecution == [all |-> {"trade", "buyer_order_id", "seller_order_id",
                            "buyer_client_order_id", "seller_client_order_id",
                            "buyer_remaining", "seller_remaining", "buyer_status",
                            "seller_status", "buyer_fees", "seller_fees"},
                   optional |-> {}]
CancelAck      == [all |-> {"order_id", "client_order_id", "cancelled_quantity",
                            "reason"},
                   optional |-> {"reason"}]
CancelReject   == [all |-> {"order_id", "client_order_id", "reason"},
                   optional |-> {}]
Snapshot       == [all |-> {"positions"}, optional |-> {}]

Route == [new_order_ack |-> NewOrderAck, new_order_reject |-> NewOrderReject,
          execution_report |-> TradeExecution, position_snapshot |-> Snapshot,
          order_cancelled |-> CancelAck, order_cancel_reject |-> CancelReject]

\* A kind without a route is skipped, and a call with a wrong or missing keyword
\* raises: of what is put on the queue, only rejections and snapshots go out.
Deliverable(k) ==
  /\ k \in DOMAIN Route
  /\ Keys[k] \subseteq Route[k].all
  /\ Route[k].all \ Route[k].optional \subseteq Keys[k]

ASSUME KindsAssumption == Kinds \subseteq DOMAIN Keys \ {"position_snapshot"}

Message == [kind : Kinds \cup {"position_snapshot"}, to : Teams]
NoMessage == [kind |-> "none", to |-> NoOne]

TypeOK ==
  /\ team \in [Conns -> Teams \cup {NoOne}]
  /\ sock \in [Conns -> {"new", "open", "refused", "gone", "closed"}]
  /\ pc \in [Conns -> {"idle", "connectWaits", "connecting", "accepting", "receiving",
                       "disconnectWaits", "done"}]
  /\ active \in [Teams -> Conns \cup {NoOne}]
  /\ seq \in [Teams -> Nat]
  /\ holder \in Conns \cup {Sender, NoOne}
  /\ waiters \in Seq(Conns \cup {Sender})
  /\ bound \in {"http", "websocket", NoOne}
  /\ queue \in Seq(Message)
  /\ sending \in {"idle", "ready", "waits", "asleep", "sending", "failed"}
  /\ message \in Message \cup {NoMessage}
  /\ target \in Conns \cup {NoOne}
  /\ put \in 0..MaxMessages
  /\ got \in [Conns -> Seq(Nat)]

Init ==
  /\ team = [c \in Conns |-> NoOne]
  /\ sock = [c \in Conns |-> "new"]
  /\ pc = [c \in Conns |-> "idle"]
  /\ active = [t \in Teams |-> NoOne]
  /\ seq = [t \in Teams |-> 0]
  /\ holder = NoOne
  /\ waiters = <<>>
  /\ bound = NoOne
  /\ queue = <<>>
  /\ sending = "idle"
  /\ message = NoMessage
  /\ target = NoOne
  /\ put = 0
  /\ got = [c \in Conns |-> <<>>]

-----------------------------------------------------------------------------
(* asyncio.Lock. *)

Loop(x) == IF x = Sender THEN "websocket" ELSE "http"

LockIsFree == holder = NoOne /\ waiters = <<>>

Waits(x) ==
  /\ ~LockIsFree
  /\ bound \in {NoOne, Loop(x)}
  /\ bound' = Loop(x)
  /\ waiters' = Append(waiters, x)
  /\ UNCHANGED holder

WaitRaises(x) ==
  /\ ~LockIsFree
  /\ bound \notin {NoOne, Loop(x)}
  /\ UNCHANGED lockVars

\* x takes the lock at once, or as the first of those who waited.
Acquires(x) ==
  /\ holder = NoOne
  /\ IF waiters = <<>> THEN UNCHANGED waiters
     ELSE Head(waiters) = x /\ waiters' = Tail(waiters)
  /\ UNCHANGED bound

Takes(x) == Acquires(x) /\ holder' = x

\* A section without an await: taken and released in one step.
TakesAndReleases(x) == Acquires(x) /\ UNCHANGED holder

Releases(x) == holder = x /\ holder' = NoOne /\ UNCHANGED <<waiters, bound>>

-----------------------------------------------------------------------------
(* The handler of a connection. *)

senderVars == <<sending, message, target, put>>

\* A handler has released the lock.  A sender that waits hears of it only if its
\* event loop is awake; nothing else is scheduled there that would wake it.
TellsSender ==
  /\ \/ UNCHANGED sending
     \/ sending = "waits" /\ sending' = "asleep"
  /\ UNCHANGED <<message, target, put>>

SetActive(t, c) == active' = [active EXCEPT ![t] = c] /\ seq' = [seq EXCEPT ![t] = 0]

Goes(c, place) == pc' = [pc EXCEPT ![c] = place]

\* connect: the lock is asked for.  When that raises, the handler ends and the
\* server closes the connection.
Connect(c, t) ==
  /\ pc[c] = "idle"
  /\ team' = [team EXCEPT ![c] = t]
  /\ \/ Takes(c) /\ Goes(c, "connecting") /\ UNCHANGED sock
     \/ Waits(c) /\ Goes(c, "connectWaits") /\ UNCHANGED sock
     \/ WaitRaises(c) /\ Goes(c, "done") /\ sock' = [sock EXCEPT ![c] = "closed"]
  /\ UNCHANGED <<active, seq, queue, senderVars, got>>

ConnectGoesOn(c) ==
  /\ pc[c] = "connectWaits"
  /\ Takes(c)
  /\ Goes(c, "connecting")
  /\ UNCHANGED <<team, sock, active, seq, queue, senderVars, got>>

\* A connection the client has left cannot be closed; that is ignored.
CloseOld(c) ==
  LET old == active[team[c]]
  IN /\ pc[c] = "connecting"
     /\ sock' = IF old # NoOne /\ sock[old] = "open"
                THEN [sock EXCEPT ![old] = "closed"] ELSE sock
     /\ Goes(c, "accepting")
     /\ UNCHANGED <<team, active, seq, lockVars, queue, senderVars, got>>

\* Mutant: a kind the sender does not know.
PutPositions(c) == queue' = Append(queue, [kind |-> "positions", to |-> team[c]])

PutSnapshot(c) ==
  queue' = Append(queue, [kind |-> "position_snapshot", to |-> team[c]])

\* Mutant: the sequence number of the team goes on.
AcceptKeepsNumber(c) ==
  /\ pc[c] = "accepting"
  /\ sock' = [sock EXCEPT ![c] = "open"]
  /\ active' = [active EXCEPT ![team[c]] = c]
  /\ Releases(c)
  /\ TellsSender
  /\ PutSnapshot(c)
  /\ Goes(c, "receiving")
  /\ UNCHANGED <<team, seq, got>>

\* From the release of the lock to the snapshot nothing is awaited.
Accept(c) ==
  /\ pc[c] = "accepting"
  /\ sock' = [sock EXCEPT ![c] = "open"]
  /\ SetActive(team[c], c)
  /\ Releases(c)
  /\ TellsSender
  /\ PutSnapshot(c)
  /\ Goes(c, "receiving")
  /\ UNCHANGED <<team, got>>

\* Mutant: the lock is not released on the way out.
AcceptFailsLocked(c) ==
  /\ pc[c] = "accepting"
  /\ sock' = [sock EXCEPT ![c] = "refused"]
  /\ PutSnapshot(c)
  /\ Goes(c, "done")
  /\ UNCHANGED <<team, active, seq, lockVars, senderVars, got>>

\* The entry of the old connection stays, the handler does not look at the
\* result of connect, and its first receive raises.
AcceptFails(c) ==
  /\ pc[c] = "accepting"
  /\ sock' = [sock EXCEPT ![c] = "refused"]
  /\ Releases(c)
  /\ TellsSender
  /\ PutSnapshot(c)
  /\ Goes(c, "done")
  /\ UNCHANGED <<team, active, seq, got>>

ClientLeaves(c) ==
  /\ sock[c] = "open"
  /\ sock' = [sock EXCEPT ![c] = "gone"]
  /\ UNCHANGED <<team, pc, active, seq, lockVars, queue, senderVars, got>>

\* Mutant: disconnect does not take the lock.
DisconnectUnlocked(c) ==
  /\ pc[c] = "receiving"
  /\ sock[c] \in {"gone", "closed"}
  /\ SetActive(team[c], NoOne)
  /\ Goes(c, "done")
  /\ UNCHANGED <<team, sock, lockVars, queue, senderVars, got>>

\* receive_text raises WebSocketDisconnect, and disconnect is called for the
\* team, whichever connection is registered for it.
Disconnect(c) ==
  /\ pc[c] = "receiving"
  /\ sock[c] \in {"gone", "closed"}
  /\ \/ TakesAndReleases(c) /\ SetActive(team[c], NoOne) /\ Goes(c, "done")
     \/ Waits(c) /\ Goes(c, "disconnectWaits") /\ UNCHANGED <<active, seq>>
     \/ WaitRaises(c) /\ Goes(c, "done") /\ UNCHANGED <<active, seq>>
  /\ UNCHANGED <<team, sock, queue, senderVars, got>>

DisconnectGoesOn(c) ==
  /\ pc[c] = "disconnectWaits"
  /\ TakesAndReleases(c)
  /\ SetActive(team[c], NoOne)
  /\ Goes(c, "done")
  /\ UNCHANGED <<team, sock, queue, senderVars, got>>

-----------------------------------------------------------------------------
(* The sender. *)

handlerVars == <<team, sock, pc, active>>

PutMessage(k, t) ==
  /\ put < MaxMessages
  /\ put' = put + 1
  /\ queue' = Append(queue, [kind |-> k, to |-> t])
  /\ UNCHANGED <<handlerVars, seq, lockVars, sending, message, target, got>>

\* Messages of teams without a connection are skipped.
TakeMessage ==
  /\ sending = "idle"
  /\ queue # <<>>
  /\ queue' = Tail(queue)
  /\ IF active[Head(queue).to] # NoOne /\ Deliverable(Head(queue).kind)
     THEN message' = Head(queue) /\ sending' = "ready"
     ELSE UNCHANGED <<message, sending>>
  /\ UNCHANGED <<handlerVars, seq, lockVars, target, put, got>>

SenderIdle == sending' = "idle" /\ message' = NoMessage /\ target' = NoOne

\* send_to_team, with the lock: the team may have been disconnected meanwhile.
StartSend ==
  \/ /\ active[message.to] = NoOne
     /\ TakesAndReleases(Sender)
     /\ SenderIdle
     /\ UNCHANGED seq
  \/ /\ active[message.to] # NoOne
     /\ Takes(Sender)
     /\ seq' = [seq EXCEPT ![message.to] = @ + 1]
     /\ target' = active[message.to]
     /\ sending' = "sending"
     /\ UNCHANGED message

LockToSend ==
  /\ sending = "ready"
  /\ \/ StartSend
     \/ Waits(Sender) /\ sending' = "waits" /\ UNCHANGED <<message, target, seq>>
     \/ WaitRaises(Sender) /\ SenderIdle /\ UNCHANGED seq
  /\ UNCHANGED <<handlerVars, queue, put, got>>

\* A sender that is asleep does not go on, although the lock is free.
SendGoesOn ==
  /\ sending = "waits"
  /\ StartSend
  /\ UNCHANGED <<handlerVars, queue, put, got>>

\* What is sent to a client that has left may go unnoticed.
SendDone ==
  /\ sending = "sending"
  /\ sock[target] \in {"open", "gone"}
  /\ got' = IF sock[target] = "open"
            THEN [got EXCEPT ![target] = Append(@, seq[message.to])] ELSE got
  /\ Releases(Sender)
  /\ SenderIdle
  /\ UNCHANGED <<handlerVars, seq, queue, put>>

\* The sender calls disconnect with the lock in its hands.  It waits for itself,
\* or, when the lock belongs to the other loop, leaves with RuntimeError.
SendFails ==
  /\ sending = "sending"
  /\ sock[target] # "open"
  /\ \/ Waits(Sender) /\ sending' = "failed" /\ UNCHANGED <<message, target>>
     \/ /\ bound = "http"
        /\ Releases(Sender)
        /\ SenderIdle
  /\ UNCHANGED <<handlerVars, seq, queue, put, got>>

-----------------------------------------------------------------------------

HandlerStep(c) ==
  ConnectGoesOn(c) \/ CloseOld(c) \/ Accept(c) \/ AcceptFails(c) \/ Disconnect(c)
    \/ DisconnectGoesOn(c)

SenderStep == TakeMessage \/ LockToSend \/ SendGoesOn \/ SendDone \/ SendFails

Next ==
  \/ \E c \in Conns, t \in Teams : Connect(c, t)
  \/ \E c \in Conns : HandlerStep(c) \/ ClientLeaves(c)
  \/ \E k \in Kinds, t \in Teams : PutMessage(k, t)
  \/ SenderStep

SafeSpec == Init /\ [][Next]_vars

\* Both event loops run every coroutine they know can go on.  The loop of the
\* HTTP server ticks, so its handlers notice a lock that the sender released;
\* the sender's loop does not (TellsSender).  Nothing is assumed of the clients
\* and of the trading threads.
Spec ==
  /\ SafeSpec
  /\ \A c \in Conns : WF_vars(HandlerStep(c))
  /\ WF_vars(SenderStep)

-----------------------------------------------------------------------------
(* Safety. *)

\* The messages of a connection are numbered 1, 2, 3, ... without a gap or a
\* repetition, whoever connects, disconnects or is replaced meanwhile.
NumbersConsecutive == \A c \in Conns : \A i \in DOMAIN got[c] : got[c][i] = i

\* While a message is being sent, its connection is the registered one of the
\* team: no handler changes the tables under the sender.
SendsToRegistered == sending \in {"sending", "failed"} => active[message.to] = target

-----------------------------------------------------------------------------
(* Liveness. *)

\* No handler waits for the lock, or holds it, for ever: not behind other
\* handlers, nor when the sender waits for itself or sleeps over its turn.
HandlersGoOn ==
  \A c \in Conns :
    pc[c] \in {"connectWaits", "connecting", "accepting", "disconnectWaits"}
      ~> pc[c] \in {"receiving", "done"}

-----------------------------------------------------------------------------
(* Statements of the code and its documentation that the behaviour does not *)
(* keep.                                                                    *)

\* websocket_endpoint: "Only one WebSocket connection is allowed per team.  New
\* connections will automatically close any existing connection for that team."
OneConnectionPerTeam ==
  \A c, d \in Conns :
    c # d /\ team[c] = team[d] => ~(sock[c] = "open" /\ sock[d] = "open")

\* websocket_thread: "disconnected clients are silently skipped to prevent
\* blocking the queue."  A message to a client that has just gone blocks it: the
\* send fails, and the sender waits for the lock it holds.  So may one that has
\* to wait for a handler, since nothing wakes the sender when it is its turn.
QueueNotBlocked == sending # "idle" ~> sending = "idle"
====
