---- MODULE WebSocketManagerProofs ----
(***************************************************************************)
(* Proofs about the WebSocket manager, for every number of connections,    *)
(* teams and messages: its variables keep their types, the numbers that a  *)
(* client receives have no gap, and nobody changes the tables while a      *)
(* message is being sent.                                                  *)
(*                                                                         *)
(* They rest on one inductive invariant: the lock is held by exactly the   *)
(* coroutine that is in a section of its own (LockHeld), what the sender   *)
(* works with is registered (Sending), a registered connection belongs to  *)
(* its team and has been accepted (Registered), and the number of a team   *)
(* is the count of what its open connection has received, one more while a *)
(* message is on its way (Numbered).  Without the last part a gap could    *)
(* only be seen when the next number arrives; without the lock the count   *)
(* could be reset between the number and the message.                      *)
(***************************************************************************)
EXTENDS WebSocketManager, SequenceTheorems, TLAPS

\* Where a handler holds the lock, and where it has not been accepted yet.
Holding == {"connecting", "accepting"}
Before == {"idle", "connectWaits"} \cup Holding

\* The lock is held by whoever is in one of its sections.
LockHeld ==
  /\ \A c \in Conns : holder = c <=> pc[c] \in Holding
  /\ holder = Sender <=> sending \in {"sending", "failed"}

\* The message and the connection that the sender works with.
Sending ==
  /\ sending # "idle" => message \in Message
  /\ sending \in {"sending", "failed"} => target \in Conns /\ active[message.to] = target

\* A connection that has a team; a registered connection has been accepted.
Registered ==
  /\ \A c \in Conns : pc[c] # "idle" => team[c] \in Teams
  /\ \A t \in Teams : active[t] \in Conns =>
       team[active[t]] = t /\ pc[active[t]] \notin Before

\* What a client has received, and what the next number will be.
Numbered ==
  \A c \in Conns :
    /\ \A i \in 1..Len(got[c]) : got[c][i] = i
    /\ pc[c] \in Before => got[c] = <<>>
    /\ \A t \in Teams : active[t] = c /\ sock[c] = "open" =>
         seq[t] = IF sending = "sending" /\ target = c THEN Len(got[c]) + 1 ELSE Len(got[c])

\* The types of the lock and of the queue.
LockTyped ==
  /\ holder \in Conns \cup {Sender, NoOne}
  /\ waiters \in Seq(Conns \cup {Sender})
  /\ bound \in {"http", "websocket", NoOne}

QueueTyped == queue \in Seq(Message)

ElseTyped ==
  /\ team \in [Conns -> Teams \cup {NoOne}]
  /\ sock \in [Conns -> {"new", "open", "refused", "gone", "closed"}]
  /\ pc \in [Conns -> {"idle", "connectWaits", "connecting", "accepting", "receiving",
                       "disconnectWaits", "done"}]
  /\ active \in [Teams -> Conns \cup {NoOne}]
  /\ seq \in [Teams -> Nat]
  /\ sending \in {"idle", "ready", "waits", "asleep", "sending", "failed"}
  /\ message \in Message \cup {NoMessage}
  /\ target \in Conns \cup {NoOne}
  /\ put \in 0..MaxMessages
  /\ got \in [Conns -> Seq(Nat)]

Inv ==
  /\ LockTyped /\ QueueTyped /\ ElseTyped
  /\ LockHeld /\ Sending /\ Registered /\ Numbered

-----------------------------------------------------------------------------
(* The names and the lock. *)

\* Nobody is called like the sender, or like nobody.
LEMMA Names == /\ Sender \notin Conns /\ NoOne \notin Conns /\ Sender # NoOne
               /\ NoOne \notin Teams
BY NamesAssumption DEF Sender, NoOne

\* Whatever a coroutine does to the lock, it stays a lock of coroutines.
LEMMA LockSteps ==
  ASSUME LockTyped, NEW x \in Conns \cup {Sender},
         \/ Waits(x) \/ WaitRaises(x) \/ Takes(x) \/ TakesAndReleases(x)
         \/ Releases(x) \/ UNCHANGED lockVars
  PROVE  LockTyped'
<1>1. Append(waiters, x) \in Seq(Conns \cup {Sender})
  BY AppendProperties DEF LockTyped
<1>2. waiters # <<>> => Tail(waiters) \in Seq(Conns \cup {Sender})
  BY HeadTailProperties DEF LockTyped
<1>3. Acquires(x) => waiters' \in Seq(Conns \cup {Sender}) /\ bound' = bound
  BY <1>2 DEF Acquires, LockTyped
<1>. QED  BY <1>1, <1>3 DEF LockTyped, Waits, WaitRaises, Takes, TakesAndReleases, Releases,
          lockVars, Loop

-----------------------------------------------------------------------------
(* The handler of a connection. *)

\* connect asks for the lock; the connection is not registered yet.
LEMMA ConnectKeeps ==
  ASSUME Inv, NEW c \in Conns, NEW t \in Teams, Connect(c, t)
  PROVE  Inv'
<1>1. LockTyped'
  BY LockSteps DEF Inv, Connect
<1>2. QueueTyped'
  BY AppendProperties DEF Inv, Connect, QueueTyped, Registered, ElseTyped, Message
<1>3. ElseTyped'
  BY DEF Inv, Connect, Takes, Acquires, Waits, WaitRaises, lockVars, Goes, senderVars,
      ElseTyped, Registered
<1>4. LockHeld'
  BY Names
  DEF Inv, Connect, Takes, Acquires, Waits, WaitRaises, lockVars, Goes, senderVars,
      LockHeld, Holding, ElseTyped
<1>5. Sending'
  BY Names
  DEF Inv, Connect, Takes, Acquires, Waits, WaitRaises, lockVars, Goes, senderVars,
      Sending, LockHeld, Registered, ElseTyped, Holding
<1>6. Registered'
  BY Names
  DEF Inv, Connect, Takes, Acquires, Waits, WaitRaises, lockVars, Goes, senderVars,
      Registered, ElseTyped, Before, Holding
<1>7. Numbered'
  BY Names
  DEF Inv, Connect, Takes, Acquires, Waits, WaitRaises, lockVars, Goes, senderVars,
      Numbered, Registered, LockHeld, Sending, ElseTyped, Before, Holding
<1>. QED  BY <1>1, <1>2, <1>3, <1>4, <1>5, <1>6, <1>7 DEF Inv

\* The handler gets the lock it waited for.
LEMMA ConnectGoesOnKeeps ==
  ASSUME Inv, NEW c \in Conns, ConnectGoesOn(c)
  PROVE  Inv'
<1>1. LockTyped'
  BY LockSteps DEF Inv, ConnectGoesOn
<1>2. QueueTyped'
  BY AppendProperties DEF Inv, ConnectGoesOn, QueueTyped, Registered, ElseTyped, Message
<1>3. ElseTyped'
  BY DEF Inv, ConnectGoesOn, Takes, Acquires, Goes, senderVars, ElseTyped, Registered
<1>4. LockHeld'
  BY Names
  DEF Inv, ConnectGoesOn, Takes, Acquires, Goes, senderVars, LockHeld, Holding,
      ElseTyped
<1>5. Sending'
  BY Names
  DEF Inv, ConnectGoesOn, Takes, Acquires, Goes, senderVars, Sending, LockHeld,
      Registered, ElseTyped, Holding
<1>6. Registered'
  BY Names
  DEF Inv, ConnectGoesOn, Takes, Acquires, Goes, senderVars, Registered, ElseTyped,
      Before, Holding
<1>7. Numbered'
  BY Names
  DEF Inv, ConnectGoesOn, Takes, Acquires, Goes, senderVars, Numbered, Registered,
      LockHeld, Sending, ElseTyped, Before, Holding
<1>. QED  BY <1>1, <1>2, <1>3, <1>4, <1>5, <1>6, <1>7 DEF Inv

\* The old connection is closed: it receives nothing more.
LEMMA CloseOldKeeps ==
  ASSUME Inv, NEW c \in Conns, CloseOld(c)
  PROVE  Inv'
<1>1. LockTyped'
  BY LockSteps DEF Inv, CloseOld
<1>2. QueueTyped'
  BY AppendProperties DEF Inv, CloseOld, QueueTyped, Registered, ElseTyped, Message
<1>3. ElseTyped'
  BY DEF Inv, CloseOld, lockVars, Goes, senderVars, ElseTyped, Registered
<1>4. LockHeld'
  BY Names DEF Inv, CloseOld, lockVars, Goes, senderVars, LockHeld, Holding, ElseTyped
<1>5. Sending'
  BY Names
  DEF Inv, CloseOld, lockVars, Goes, senderVars, Sending, LockHeld, Registered,
      ElseTyped, Holding
<1>6. Registered'
  BY Names
  DEF Inv, CloseOld, lockVars, Goes, senderVars, Registered, ElseTyped, Before, Holding
<1>7. Numbered'
  BY Names
  DEF Inv, CloseOld, lockVars, Goes, senderVars, Numbered, Registered, LockHeld,
      Sending, ElseTyped, Before, Holding
<1>. QED  BY <1>1, <1>2, <1>3, <1>4, <1>5, <1>6, <1>7 DEF Inv

\* The new connection starts to count from nothing; the sender does not hold the lock.
LEMMA AcceptKeeps ==
  ASSUME Inv, NEW c \in Conns, Accept(c)
  PROVE  Inv'
<1>1. LockTyped'
  BY LockSteps DEF Inv, Accept
<1>2. QueueTyped'
  BY AppendProperties
  DEF Inv, Accept, PutSnapshot, QueueTyped, Registered, ElseTyped, Message
<1>3. ElseTyped'
  BY DEF Inv, Accept, Releases, SetActive, PutSnapshot, Goes, TellsSender, ElseTyped,
      Registered
<1>4. LockHeld'
  BY Names
  DEF Inv, Accept, Releases, SetActive, PutSnapshot, Goes, TellsSender, LockHeld,
      Holding, ElseTyped
<1>5. Sending'
  BY Names
  DEF Inv, Accept, Releases, SetActive, PutSnapshot, Goes, TellsSender, Sending,
      LockHeld, Registered, ElseTyped, Holding
<1>6. Registered'
  BY Names
  DEF Inv, Accept, Releases, SetActive, PutSnapshot, Goes, TellsSender, Registered,
      ElseTyped, Before, Holding
<1>7. Numbered'
  BY Names
  DEF Inv, Accept, Releases, SetActive, PutSnapshot, Goes, TellsSender, Numbered,
      Registered, LockHeld, Sending, ElseTyped, Before, Holding
<1>. QED  BY <1>1, <1>2, <1>3, <1>4, <1>5, <1>6, <1>7 DEF Inv

\* accept raises; the tables stay.
LEMMA AcceptFailsKeeps ==
  ASSUME Inv, NEW c \in Conns, AcceptFails(c)
  PROVE  Inv'
<1>1. LockTyped'
  BY LockSteps DEF Inv, AcceptFails
<1>2. QueueTyped'
  BY AppendProperties
  DEF Inv, AcceptFails, PutSnapshot, QueueTyped, Registered, ElseTyped, Message
<1>3. ElseTyped'
  BY DEF Inv, AcceptFails, Releases, PutSnapshot, Goes, TellsSender, ElseTyped,
      Registered
<1>4. LockHeld'
  BY Names
  DEF Inv, AcceptFails, Releases, PutSnapshot, Goes, TellsSender, LockHeld, Holding,
      ElseTyped
<1>5. Sending'
  BY Names
  DEF Inv, AcceptFails, Releases, PutSnapshot, Goes, TellsSender, Sending, LockHeld,
      Registered, ElseTyped, Holding
<1>6. Registered'
  BY Names
  DEF Inv, AcceptFails, Releases, PutSnapshot, Goes, TellsSender, Registered, ElseTyped,
      Before, Holding
<1>7. Numbered'
  BY Names
  DEF Inv, AcceptFails, Releases, PutSnapshot, Goes, TellsSender, Numbered, Registered,
      LockHeld, Sending, ElseTyped, Before, Holding
<1>. QED  BY <1>1, <1>2, <1>3, <1>4, <1>5, <1>6, <1>7 DEF Inv

\* A client that has left receives nothing more.
LEMMA ClientLeavesKeeps ==
  ASSUME Inv, NEW c \in Conns, ClientLeaves(c)
  PROVE  Inv'
<1>1. LockTyped'
  BY LockSteps DEF Inv, ClientLeaves
<1>2. QueueTyped'
  BY AppendProperties DEF Inv, ClientLeaves, QueueTyped, Registered, ElseTyped, Message
<1>3. ElseTyped'
  BY DEF Inv, ClientLeaves, lockVars, senderVars, ElseTyped, Registered
<1>4. LockHeld'
  BY Names DEF Inv, ClientLeaves, lockVars, senderVars, LockHeld, Holding, ElseTyped
<1>5. Sending'
  BY Names
  DEF Inv, ClientLeaves, lockVars, senderVars, Sending, LockHeld, Registered,
      ElseTyped, Holding
<1>6. Registered'
  BY Names
  DEF Inv, ClientLeaves, lockVars, senderVars, Registered, ElseTyped, Before, Holding
<1>7. Numbered'
  BY Names
  DEF Inv, ClientLeaves, lockVars, senderVars, Numbered, Registered, LockHeld, Sending,
      ElseTyped, Before, Holding
<1>. QED  BY <1>1, <1>2, <1>3, <1>4, <1>5, <1>6, <1>7 DEF Inv

\* The team is taken out; the sender does not hold the lock.
LEMMA DisconnectGoesOnKeeps ==
  ASSUME Inv, NEW c \in Conns, DisconnectGoesOn(c)
  PROVE  Inv'
<1>1. LockTyped'
  BY LockSteps DEF Inv, DisconnectGoesOn
<1>2. QueueTyped'
  BY AppendProperties
  DEF Inv, DisconnectGoesOn, QueueTyped, Registered, ElseTyped, Message
<1>3. ElseTyped'
  BY DEF Inv, DisconnectGoesOn, TakesAndReleases, Acquires, SetActive, Goes,
      senderVars, ElseTyped, Registered
<1>4. LockHeld'
  BY Names
  DEF Inv, DisconnectGoesOn, TakesAndReleases, Acquires, SetActive, Goes, senderVars,
      LockHeld, Holding, ElseTyped
<1>5. Sending'
  BY Names
  DEF Inv, DisconnectGoesOn, TakesAndReleases, Acquires, SetActive, Goes, senderVars,
      Sending, LockHeld, Registered, ElseTyped, Holding
<1>6. Registered'
  BY Names
  DEF Inv, DisconnectGoesOn, TakesAndReleases, Acquires, SetActive, Goes, senderVars,
      Registered, ElseTyped, Before, Holding
<1>7. Numbered'
  BY Names
  DEF Inv, DisconnectGoesOn, TakesAndReleases, Acquires, SetActive, Goes, senderVars,
      Numbered, Registered, LockHeld, Sending, ElseTyped, Before, Holding
<1>. QED  BY <1>1, <1>2, <1>3, <1>4, <1>5, <1>6, <1>7 DEF Inv

\* receive_text raises: the team is taken out, or the handler waits for the lock
\* or leaves without it.
LEMMA DisconnectKeeps ==
  ASSUME Inv, NEW c \in Conns, Disconnect(c)
  PROVE  Inv'
<1>1. /\ pc[c] = "receiving" /\ team[c] \in Teams /\ ElseTyped
      /\ UNCHANGED <<team, sock, queue, sending, message, target, put, got>>
  BY DEF Disconnect, Inv, Registered, senderVars, ElseTyped
<1>2. LockTyped'
  BY LockSteps DEF Inv, Disconnect
<1>3. CASE TakesAndReleases(c) /\ SetActive(team[c], NoOne) /\ Goes(c, "done")
  <2>1. /\ active' = [active EXCEPT ![team[c]] = NoOne]
        /\ seq' = [seq EXCEPT ![team[c]] = 0]
        /\ pc' = [pc EXCEPT ![c] = "done"]
        /\ holder = NoOne /\ holder' = NoOne
    BY <1>3 DEF TakesAndReleases, Acquires, SetActive, Goes
  <2>2. QueueTyped' /\ ElseTyped'
    BY <1>1, <2>1 DEF Inv, QueueTyped, ElseTyped
  <2>3. LockHeld' /\ Sending'
    BY <1>1, <2>1, Names DEF Inv, LockHeld, Sending, ElseTyped, Holding
  <2>4. Registered'
    BY <1>1, <2>1, Names DEF Inv, Registered, ElseTyped, Before, Holding
  <2>5. Numbered'
    BY <1>1, <2>1, Names DEF Inv, Numbered, ElseTyped, Before, Holding
  <2>. QED  BY <1>2, <2>2, <2>3, <2>4, <2>5 DEF Inv
<1>4. CASE (Waits(c) \/ WaitRaises(c)) /\ UNCHANGED <<active, seq>>
             /\ (Goes(c, "disconnectWaits") \/ Goes(c, "done"))
  <2>1. PICK a \in {"disconnectWaits", "done"} : pc' = [pc EXCEPT ![c] = a]
    BY <1>4 DEF Goes
  <2>2. holder' = holder /\ UNCHANGED <<active, seq>>
    BY <1>4 DEF Waits, WaitRaises, lockVars
  <2>3. QueueTyped' /\ ElseTyped'
    BY <1>1, <2>1, <2>2 DEF Inv, QueueTyped, ElseTyped
  <2>4. LockHeld' /\ Sending'
    BY <1>1, <2>1, <2>2 DEF Inv, LockHeld, Sending, ElseTyped, Holding
  <2>5. Registered'
    BY <1>1, <2>1, <2>2 DEF Inv, Registered, ElseTyped, Before, Holding
  <2>6. Numbered'
    BY <1>1, <2>1, <2>2 DEF Inv, Numbered, ElseTyped, Before, Holding
  <2>. QED  BY <1>2, <2>3, <2>4, <2>5, <2>6 DEF Inv
<1>. QED  BY <1>3, <1>4 DEF Disconnect

-----------------------------------------------------------------------------
(* The sender. *)

\* A trading thread puts a message for a team.
LEMMA PutMessageKeeps ==
  ASSUME Inv, NEW k \in Kinds, NEW t \in Teams, PutMessage(k, t)
  PROVE  Inv'
<1>1. /\ put < MaxMessages /\ put' = put + 1
      /\ queue' = Append(queue, [kind |-> k, to |-> t])
      /\ UNCHANGED <<team, sock, pc, active, seq, holder, waiters, bound, sending,
                     message, target, got>>
  BY DEF PutMessage, handlerVars, lockVars
<1>2. put' \in 0..MaxMessages
  BY <1>1, MaxMessagesAssumption DEF Inv, ElseTyped
<1>3. queue' \in Seq(Message)
  BY <1>1, AppendProperties DEF Inv, QueueTyped, Message
<1>4. LockTyped' /\ QueueTyped' /\ ElseTyped'
  BY <1>1, <1>2, <1>3 DEF Inv, LockTyped, QueueTyped, ElseTyped
<1>5. LockHeld' /\ Sending' /\ Registered' /\ Numbered'
  BY <1>1 DEF Inv, LockHeld, Sending, Registered, Numbered
<1>. QED  BY <1>4, <1>5 DEF Inv

\* The sender keeps the message, or skips it.
LEMMA TakeMessageKeeps ==
  ASSUME Inv, TakeMessage
  PROVE  Inv'
<1>1. /\ sending = "idle" /\ queue # <<>> /\ queue' = Tail(queue)
      /\ UNCHANGED <<team, sock, pc, active, seq, holder, waiters, bound, target,
                     put, got>>
  BY DEF TakeMessage, handlerVars, lockVars
<1>2. queue' \in Seq(Message) /\ Head(queue) \in Message
  BY <1>1, HeadTailProperties DEF Inv, QueueTyped
<1>3. \/ message' = Head(queue) /\ sending' = "ready"
      \/ UNCHANGED <<message, sending>>
  BY DEF TakeMessage
<1>4. /\ message' \in Message \cup {NoMessage} /\ sending' \in {"idle", "ready"}
      /\ sending' # "idle" => message' \in Message
  BY <1>1, <1>2, <1>3 DEF Inv, ElseTyped
<1>5. LockTyped' /\ QueueTyped' /\ ElseTyped'
  BY <1>1, <1>2, <1>4 DEF Inv, LockTyped, QueueTyped, ElseTyped
<1>6. LockHeld' /\ Sending' /\ Registered' /\ Numbered'
  BY <1>1, <1>4 DEF Inv, LockHeld, Sending, Registered, Numbered
<1>. QED  BY <1>5, <1>6 DEF Inv

\* The sender is done with its message, and does not have the lock any more.
LEMMA SenderRestsKeeps ==
  ASSUME Inv, LockTyped', SenderIdle, got' \in [Conns -> Seq(Nat)], Numbered',
         UNCHANGED <<team, sock, pc, active, queue, put, seq>>,
         \/ sending \in {"ready", "waits"} /\ holder' = holder
         \/ sending = "sending" /\ holder' = NoOne
  PROVE  Inv'
<1>1. /\ sending' = "idle" /\ message' = NoMessage /\ target' = NoOne
      /\ UNCHANGED <<team, sock, pc, active, queue, put, seq>>
  BY DEF SenderIdle
<1>2. QueueTyped' /\ ElseTyped'
  BY <1>1 DEF Inv, QueueTyped, ElseTyped
<1>3. LockHeld'
  BY <1>1, Names DEF Inv, LockHeld
<1>4. Sending' /\ Registered'
  BY <1>1 DEF Inv, Sending, Registered
<1>. QED  BY <1>2, <1>3, <1>4 DEF Inv

\* send_to_team: the number of the team goes up with the lock in hand, or the
\* team has no connection any more.
LEMMA StartSendKeeps ==
  ASSUME Inv, sending \in {"ready", "waits"}, StartSend,
         UNCHANGED <<handlerVars, queue, put, got>>
  PROVE  Inv'
<1>1. /\ message \in Message /\ message.to \in Teams /\ ElseTyped
      /\ UNCHANGED <<team, sock, pc, active, queue, put, got>>
  BY DEF Inv, Sending, Message, handlerVars
<1>2. LockTyped'
  BY LockSteps DEF Inv, StartSend
<1>3. CASE /\ TakesAndReleases(Sender)
           /\ SenderIdle
           /\ UNCHANGED seq
  <2>1. holder' = holder /\ sending' = "idle" /\ target' = NoOne
    BY <1>3 DEF TakesAndReleases, SenderIdle
  <2>2. Numbered'
    BY <1>1, <1>3, <2>1 DEF Inv, Numbered
  <2>3. got' \in [Conns -> Seq(Nat)]
    BY <1>1 DEF ElseTyped
  <2>4. UNCHANGED <<team, sock, pc, active, queue, put, seq>>
    BY <1>1, <1>3
  <2>5. sending \in {"ready", "waits"} /\ holder' = holder
    BY <2>1
  <2>. QED  BY <1>2, <1>3, <2>2, <2>3, <2>4, <2>5, SenderRestsKeeps
<1>4. CASE /\ active[message.to] # NoOne
           /\ Takes(Sender)
           /\ seq' = [seq EXCEPT ![message.to] = @ + 1]
           /\ target' = active[message.to]
           /\ sending' = "sending"
           /\ UNCHANGED message
  <2>1. /\ holder = NoOne /\ holder' = Sender
        /\ active[message.to] \in Conns
    BY <1>1, <1>4 DEF Takes, Acquires, ElseTyped
  <2>2. QueueTyped' /\ ElseTyped'
    <3>1. seq' \in [Teams -> Nat]
      BY <1>1, <1>4 DEF ElseTyped
    <3>. QED  BY <1>1, <1>4, <2>1, <3>1 DEF Inv, QueueTyped, ElseTyped
  <2>3. LockHeld'
    BY <1>1, <1>4, <2>1, Names DEF Inv, LockHeld
  <2>4. Sending' /\ Registered'
    BY <1>1, <1>4, <2>1 DEF Inv, Sending, Registered
  <2>5. Numbered'
    <3>1. \A t \in Teams : active[t] = target' => t = message.to
      BY <1>1, <1>4, <2>1 DEF Inv, Registered
    <3>2. /\ seq'[message.to] = seq[message.to] + 1
          /\ \A t \in Teams : t # message.to => seq'[t] = seq[t]
      BY <1>1, <1>4 DEF ElseTyped
    <3>. QED  BY <1>1, <1>4, <3>1, <3>2 DEF Inv, Numbered
  <2>. QED  BY <1>2, <2>2, <2>3, <2>4, <2>5 DEF Inv
<1>. QED  BY <1>3, <1>4 DEF StartSend

\* The lock is asked for; without it nothing is sent.
LEMMA LockToSendKeeps ==
  ASSUME Inv, LockToSend
  PROVE  Inv'
<1>1. /\ sending = "ready" /\ UNCHANGED <<handlerVars, queue, put, got>>
      /\ message \in Message /\ ElseTyped
  BY DEF LockToSend, Inv, Sending
<1>2. CASE StartSend
  BY <1>1, <1>2, StartSendKeeps
<1>3. CASE Waits(Sender) /\ sending' = "waits" /\ UNCHANGED <<message, target, seq>>
  <2>1. LockTyped' /\ holder' = holder
    BY <1>3, LockSteps DEF Inv, Waits
  <2>2. QueueTyped' /\ ElseTyped'
    BY <1>1, <1>3 DEF Inv, QueueTyped, ElseTyped, handlerVars
  <2>3. LockHeld' /\ Sending' /\ Registered' /\ Numbered'
    BY <1>1, <1>3, <2>1 DEF Inv, LockHeld, Sending, Registered, Numbered, handlerVars
  <2>. QED  BY <2>1, <2>2, <2>3 DEF Inv
<1>4. CASE WaitRaises(Sender) /\ SenderIdle /\ UNCHANGED seq
  <2>1. LockTyped' /\ holder' = holder
    BY <1>4, LockSteps DEF Inv, WaitRaises, lockVars
  <2>2. got' \in [Conns -> Seq(Nat)] /\ Numbered'
    BY <1>1, <1>4 DEF Inv, Numbered, ElseTyped, handlerVars, SenderIdle
  <2>3. UNCHANGED <<team, sock, pc, active, queue, put, seq>>
    BY <1>1, <1>4 DEF handlerVars
  <2>4. sending \in {"ready", "waits"} /\ holder' = holder
    BY <1>1, <2>1
  <2>. QED  BY <1>4, <2>1, <2>2, <2>3, <2>4, SenderRestsKeeps
<1>. QED  BY <1>2, <1>3, <1>4 DEF LockToSend

\* The client receives the number that the team has reached.
LEMMA SendDoneKeeps ==
  ASSUME Inv, SendDone
  PROVE  Inv'
<1>1. PICK c, n : c = target /\ n = seq[message.to]
  OBVIOUS
<1>2. /\ sending = "sending" /\ message \in Message /\ message.to \in Teams
      /\ c \in Conns /\ active[message.to] = c /\ n \in Nat /\ ElseTyped
      /\ got[c] \in Seq(Nat)
  BY <1>1 DEF SendDone, Inv, Sending, ElseTyped, Message
<1>3. /\ SenderIdle /\ Releases(Sender) /\ UNCHANGED <<handlerVars, seq, queue, put>>
      /\ got' = IF sock[c] = "open" THEN [got EXCEPT ![c] = Append(got[c], n)] ELSE got
  BY <1>1 DEF SendDone
<1>4. LockTyped' /\ holder' = NoOne /\ sending' = "idle"
  BY <1>3, LockSteps DEF Inv, Releases, SenderIdle
<1>5. got' \in [Conns -> Seq(Nat)]
  BY <1>2, <1>3, AppendProperties DEF ElseTyped
<1>6. Numbered'
  <2>1. CASE sock[c] # "open"
    BY <1>1, <1>2, <1>3, <1>4, <2>1 DEF Inv, Numbered, handlerVars
  <2>2. CASE sock[c] = "open"
    <3>1. n = Len(got[c]) + 1
      BY <1>1, <1>2, <2>2 DEF Inv, Numbered
    <3>2. \A t \in Teams : active[t] = c => t = message.to
      BY <1>2 DEF Inv, Registered
    <3>3. /\ got'[c] = Append(got[c], n) /\ Len(got'[c]) = n
          /\ \A d \in Conns \ {c} : got'[d] = got[d]
      BY <1>2, <1>3, <2>2, <3>1, AppendProperties DEF ElseTyped
    <3>4. \A i \in 1..Len(got'[c]) : got'[c][i] = i
      <4>1. /\ \A i \in 1..Len(got[c]) : got[c][i] = i
            /\ Len(got[c]) \in Nat
        BY <1>2, LenProperties DEF Inv, Numbered
      <4>. QED  BY <1>2, <3>1, <3>3, <4>1, AppendProperties
    <3>5. pc[c] \notin Before
      BY <1>2 DEF Inv, Registered
    <3>. QED  BY <1>1, <1>2, <1>3, <1>4, <3>2, <3>3, <3>4, <3>5
              DEF Inv, Numbered, handlerVars
  <2>. QED  BY <2>1, <2>2
<1>7. UNCHANGED <<team, sock, pc, active, queue, put, seq>>
  BY <1>3 DEF handlerVars
<1>8. sending = "sending" /\ holder' = NoOne
  BY <1>2, <1>4
<1>. QED  BY <1>3, <1>4, <1>5, <1>6, <1>7, <1>8, SenderRestsKeeps

\* disconnect is called with the lock in hand.
LEMMA SendFailsKeeps ==
  ASSUME Inv, SendFails
  PROVE  Inv'
<1>1. /\ sending = "sending" /\ sock[target] # "open" /\ holder = Sender /\ ElseTyped
      /\ UNCHANGED <<handlerVars, seq, queue, put, got>>
  BY DEF SendFails, Inv, LockHeld
<1>2. CASE Waits(Sender) /\ sending' = "failed" /\ UNCHANGED <<message, target>>
  <2>1. LockTyped' /\ holder' = holder
    BY <1>2, LockSteps DEF Inv, Waits
  <2>2. QueueTyped' /\ ElseTyped'
    BY <1>1, <1>2 DEF Inv, QueueTyped, ElseTyped, handlerVars
  <2>3. LockHeld' /\ Sending' /\ Registered' /\ Numbered'
    BY <1>1, <1>2, <2>1 DEF Inv, LockHeld, Sending, Registered, Numbered, handlerVars
  <2>. QED  BY <2>1, <2>2, <2>3 DEF Inv
<1>3. CASE Releases(Sender) /\ SenderIdle
  <2>1. LockTyped' /\ holder' = NoOne
    BY <1>3, LockSteps DEF Inv, Releases
  <2>2. got' \in [Conns -> Seq(Nat)] /\ Numbered'
    BY <1>1, <1>3 DEF Inv, Numbered, ElseTyped, handlerVars, SenderIdle
  <2>3. UNCHANGED <<team, sock, pc, active, queue, put, seq>>
    BY <1>1 DEF handlerVars
  <2>4. sending = "sending" /\ holder' = NoOne
    BY <1>1, <2>1
  <2>. QED  BY <1>3, <2>1, <2>2, <2>3, <2>4, SenderRestsKeeps
<1>. QED  BY <1>2, <1>3 DEF SendFails

-----------------------------------------------------------------------------
(* The theorems. *)

\* Nobody is connected and nothing is queued.
LEMMA InitInv == Init => Inv
<1>. SUFFICES ASSUME Init PROVE Inv
  OBVIOUS
<1>1. LockTyped /\ QueueTyped
  BY DEF Init, LockTyped, QueueTyped
<1>2. ElseTyped
  BY MaxMessagesAssumption DEF Init, ElseTyped
<1>3. LockHeld
  BY Names DEF Init, LockHeld, Holding
<1>4. Sending /\ Registered
  BY Names DEF Init, Sending, Registered
<1>5. Numbered
  BY Names, EmptySeq DEF Init, Numbered
<1>. QED  BY <1>1, <1>2, <1>3, <1>4, <1>5 DEF Inv

\* Every step keeps the invariant.
LEMMA NextKeepsInv == Inv /\ [Next]_vars => Inv'
<1>. SUFFICES ASSUME Inv, [Next]_vars PROVE Inv'
  OBVIOUS
<1>1. ASSUME NEW c \in Conns, NEW t \in Teams, Connect(c, t) PROVE Inv'
  BY <1>1, ConnectKeeps
<1>2. ASSUME NEW c \in Conns, HandlerStep(c) \/ ClientLeaves(c) PROVE Inv'
  BY <1>2, ConnectGoesOnKeeps, CloseOldKeeps, AcceptKeeps, AcceptFailsKeeps,
     DisconnectKeeps, DisconnectGoesOnKeeps, ClientLeavesKeeps
  DEF HandlerStep
<1>3. ASSUME NEW k \in Kinds, NEW t \in Teams, PutMessage(k, t) PROVE Inv'
  BY <1>3, PutMessageKeeps
<1>4. CASE SenderStep
  <2>1. CASE SendGoesOn
    BY <2>1, StartSendKeeps DEF SendGoesOn
  <2>. QED  BY <1>4, <2>1, TakeMessageKeeps, LockToSendKeeps, SendDoneKeeps,
               SendFailsKeeps DEF SenderStep
<1>5. CASE UNCHANGED vars
  <2>1. UNCHANGED <<team, sock, pc, active, seq, holder, waiters, bound, queue,
                    sending, message, target, put, got>>
    BY <1>5 DEF vars, lockVars
  <2>2. LockTyped' /\ QueueTyped' /\ ElseTyped'
    BY <2>1 DEF Inv, LockTyped, QueueTyped, ElseTyped
  <2>3. LockHeld' /\ Sending' /\ Registered' /\ Numbered'
    BY <2>1 DEF Inv, LockHeld, Sending, Registered, Numbered
  <2>. QED  BY <2>2, <2>3 DEF Inv
<1>. QED  BY <1>1, <1>2, <1>3, <1>4, <1>5 DEF Next

\* The invariant holds in every reachable state.
LEMMA Invariance == SafeSpec => []Inv
BY InitInv, NextKeepsInv, PTL DEF SafeSpec

\* Every variable keeps its type: the tables name connections, and the lock's
\* holder and its waiters are coroutines.
THEOREM TypeCorrect == SafeSpec => []TypeOK
<1>1. Inv => TypeOK
  BY DEF Inv, TypeOK, LockTyped, QueueTyped, ElseTyped
<1>. QED  BY <1>1, Invariance, PTL

\* However many connections replace each other on the two event loops, a client
\* sees sequence numbers without a gap or a repetition.
THEOREM NumbersHaveNoGap == SafeSpec => []NumbersConsecutive
<1>1. Inv => NumbersConsecutive
  BY LenProperties DEF Inv, ElseTyped, Numbered, NumbersConsecutive
<1>. QED  BY <1>1, Invariance, PTL

\* The tables do not change under the sender.
THEOREM SenderUsesTheRegistered == SafeSpec => []SendsToRegistered
<1>1. Inv => SendsToRegistered
  BY DEF Inv, Sending, SendsToRegistered
<1>. QED  BY <1>1, Invariance, PTL
====
