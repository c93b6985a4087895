---- MODULE TradingPipeline ----
(***************************************************************************)
(* The threads that an order passes through and the queues between them:   *)
(* the API puts it on the order queue, the validator checks it against the *)
(* team's position and forwards it, the matching thread trades it, the     *)
(* publisher forwards the result, and the position tracker books it.       *)
(*                                                                         *)
(* Cancellations travel on the order queue too, but the validator carries  *)
(* them out at the exchange itself, without a lock, while the matching     *)
(* thread may be in the middle of a match: it has picked the order that it *)
(* is about to fill.  BookRace has that race step by step; here it is what *)
(* the calls of the two threads may return.                                *)
(*                                                                         *)
(* Orders are of one contract at one price, so the book is a FIFO of       *)
(* orders of one side, and an order trades once; ExchangeVenue has the     *)
(* real book.                                                              *)
(***************************************************************************)
EXTENDS Integers, Sequences, FiniteSetsExt, SequencesExt

CONSTANTS
  Orders,    \* order ids
  Teams,     \* trading teams
  Limit,     \* max_position of the position limit constraint
  MaxQueued, \* bound: API calls that wait in the order queue at a time
  MaxCancels, \* bound: cancellations asked for
  MayFail    \* bound: FALSE in instances without timeouts and shutdown

ASSUME OrdersAssumption == "none" \notin Orders \cup Teams
ASSUME LimitAssumption == Limit \in Nat \ {0}
ASSUME MaxQueuedAssumption == MaxQueued \in Nat \ {0}
ASSUME MaxCancelsAssumption == MaxCancels \in Nat
ASSUME MayFailAssumption == MayFail \in BOOLEAN

VARIABLES
  team, side,  \* of an order, team "none" before it is sent
  q,           \* the four queues
  running,     \* the threads that have not taken their sentinel
  deciding,    \* the order the validator has forwarded and not yet answered
  reply,       \* reply[o]: the API's answer to the submission
  cancelReply, \* cancelReply[o]: the API's answer to a cancellation
  resting,     \* the order book
  done,        \* orders the matching thread has taken to the exchange
  taker,       \* the order that is being matched
  maker,       \* the resting order picked for it, "none" if it is to rest
  race,        \* whether a cancellation has met this match, or only a past one
  position,    \* PositionManagementService: position[t]
  half,        \* the trade whose counterparty is not booked yet
  closing,     \* the queues that shutdown still has to put a sentinel on
  executed,    \* history: trades the exchange returned, <<incoming, resting>>
  dropped,     \* history: trades of calls that raised before they returned
  booked,      \* history: the trades that both teams' positions include
  overlapped   \* history: teams that had two live orders at a time

vars == <<team, side, q, running, deciding, reply, cancelReply, resting, done,
          taker, maker, race, position, half, closing, executed, dropped, booked,
          overlapped>>

\* The matching thread's own variables while it is in the exchange.
matching == <<taker, maker, race, dropped>>

Queues  == {"order", "match", "trade", "position"}
Threads == {"validator", "matcher", "publisher", "tracker"}

Message(k, o, m) == [kind |-> k, order |-> o, maker |-> m]
Stop == Message("stop", "none", "none")

NoTrade == Message("none", "none", "none")

Delta(o) == IF side[o] = "buy" THEN 1 ELSE -1

Put(name, msg) == q' = [q EXCEPT ![name] = Append(@, msg)]
First(name) == Head(q[name])
HasMessage(name, k) == q[name] # <<>> /\ First(name).kind = k

\* What the match queue carries for a validated order.
\* Mutant: the message is passed on as it came from the order queue.
PassedOn(o) == Message("new", o, "none")
Validated(o) == Message("match", o, "none")

\* The messages that the consumer of each queue understands.
Kinds == [order |-> {"new", "cancel", "stop"}, match |-> {"match", "stop"},
          trade |-> {"result", "stop"}, position |-> {"result", "stop"}]

\* Take the front message of one queue and put a message on another one.
Forward(from, to, msg) ==
  q' = [q EXCEPT ![from] = Tail(@), ![to] = Append(@, msg)]

Take(name) == q' = [q EXCEPT ![name] = Tail(@)]

TypeOK ==
  /\ team \in [Orders -> Teams \cup {"none"}]
  /\ side \in [Orders -> {"buy", "sell"}]
  /\ DOMAIN q = Queues
  /\ \A n \in Queues : \A m \in Range(q[n]) : m.kind \in Kinds[n]
  /\ running \subseteq Threads
  /\ deciding \in Orders \cup {"none"}
  /\ reply \in [Orders -> {"none", "accepted", "rejected", "timeout", "shutdown"}]
  /\ cancelReply \in [Orders -> {"none", "asked", "ok", "failed"}]
  /\ resting \in Seq(Orders)
  /\ done \subseteq Orders
  /\ taker \in Orders \cup {"none"} /\ maker \in Orders \cup {"none"}
  /\ race \in {"none", "now", "past"}
  /\ dropped \subseteq Orders \X Orders
  /\ position \in [Teams -> Int]
  /\ booked \subseteq executed
  /\ overlapped \subseteq Teams

Init ==
  /\ team = [o \in Orders |-> "none"]
  /\ side = [o \in Orders |-> "buy"]
  /\ q = [n \in Queues |-> <<>>]
  /\ running = Threads
  /\ deciding = "none"
  /\ reply = [o \in Orders |-> "none"]
  /\ cancelReply = [o \in Orders |-> "none"]
  /\ resting = <<>>
  /\ done = {}
  /\ taker = "none" /\ maker = "none" /\ race = "none" /\ dropped = {}
  /\ position = [t \in Teams |-> 0]
  /\ half = NoTrade
  /\ closing = <<>>
  /\ executed = {}
  /\ booked = {}
  /\ overlapped = {}

-----------------------------------------------------------------------------
(* The API. *)

\* shutdown() has not been called.
Open ==
  /\ closing = <<>>
  /\ \A n \in Queues : Stop \notin Range(q[n])
  /\ running = Threads

Submit(o, t, s) ==
  /\ team[o] = "none"
  /\ Open
  /\ Len(q["order"]) < MaxQueued
  /\ team' = [team EXCEPT ![o] = t]
  /\ side' = [side EXCEPT ![o] = s]
  /\ Put("order", Message("new", o, "none"))
  /\ UNCHANGED <<running, deciding, reply, cancelReply, resting, done,
                 position, half, closing, executed, booked, overlapped,
                 matching>>

\* A team can cancel once the answer has told it the order id.
AskCancel(o) ==
  /\ reply[o] = "accepted"
  /\ cancelReply[o] = "none"
  /\ Cardinality({i \in Orders : cancelReply[i] # "none"}) < MaxCancels
  /\ Open
  /\ Len(q["order"]) < MaxQueued
  /\ cancelReply' = [cancelReply EXCEPT ![o] = "asked"]
  /\ Put("order", Message("cancel", o, "none"))
  /\ UNCHANGED <<team, side, running, deciding, reply, resting, done, position,
                 half, closing, executed, booked, overlapped, matching>>

\* The call gives up waiting; the order stays where it is.
TimeOut(o) ==
  /\ MayFail
  /\ team[o] # "none"
  /\ reply[o] = "none"
  /\ reply' = [reply EXCEPT ![o] = "timeout"]
  /\ UNCHANGED <<team, side, q, running, deciding, cancelReply, resting, done,
                 position, half, closing, executed, booked, overlapped,
                 matching>>

-----------------------------------------------------------------------------
(* The validator thread. *)

\* notify_completion: a call that is no longer waiting gets nothing.
\* Mutant: the answer replaces one that was given already.
AnswerAgain(o, a) == reply' = [reply EXCEPT ![o] = a]

Answer(o, a) ==
  reply' = [reply EXCEPT ![o] = IF @ = "none" THEN a ELSE @]

\* Mutant: the order itself is not counted.
WithinLimitBefore(o) ==
  -Limit <= position[team[o]] /\ position[team[o]] <= Limit

\* The position limit is checked against the positions booked so far.
WithinLimit(o) ==
  LET p == position[team[o]] + Delta(o) IN -Limit <= p /\ p <= Limit

\* Orders of team t that were forwarded and may still change its position.
Live(t) ==
  LET queued == {q["match"][i].order : i \in DOMAIN q["match"]}
      traded == UNION {{p[1], p[2]} : p \in executed \ booked}
  IN {o \in Orders : team[o] = t
        /\ o \in queued \cup {taker, maker} \cup Range(resting) \cup traded}

ValidatorReady == "validator" \in running /\ deciding = "none"

\* validate_new_order accepts and the order is forwarded, before the answer.
ValidateAccept ==
  LET o == First("order").order
  IN /\ ValidatorReady
     /\ HasMessage("order", "new")
     /\ WithinLimit(o)
     /\ Forward("order", "match", Validated(o))
     /\ deciding' = o
     /\ overlapped' = IF Live(team[o]) # {} THEN overlapped \cup {team[o]}
                                            ELSE overlapped
     /\ UNCHANGED <<team, side, running, reply, cancelReply, resting, done,
                    position, half, closing, executed, booked, matching>>

AnswerAccepted ==
  /\ deciding # "none"
  /\ Answer(deciding, "accepted")
  /\ deciding' = "none"
  /\ UNCHANGED <<team, side, q, running, cancelReply, resting, done, position,
                 half, closing, executed, booked, overlapped, matching>>

ValidateReject ==
  LET o == First("order").order
  IN /\ ValidatorReady
     /\ HasMessage("order", "new")
     /\ ~WithinLimit(o)
     /\ Take("order")
     /\ Answer(o, "rejected")
     /\ UNCHANGED <<team, side, running, deciding, cancelReply, resting, done,
                    position, half, closing, executed, booked, overlapped,
                    matching>>

\* Mutant: every accepted order is reported as cancelled.
AlwaysCancelled(o) == "ok"

CancelOutcome(o) == IF o \in Range(resting) THEN "ok" ELSE "failed"

\* handle_order_cancellation, with exchange.cancel_order called in place.  When
\* both threads are in the book, the call may raise: before it has taken the
\* order out of its level (the deque changes under the iterator), or after (a
\* table entry or the level is gone).
ValidateCancel ==
  LET o == First("order").order
  IN /\ ValidatorReady
     /\ HasMessage("order", "cancel")
     /\ Take("order")
     /\ race' = IF taker # "none" /\ o \in Range(resting) THEN "now" ELSE race
     /\ \/ /\ resting' = RemoveFirst(resting, o)
           /\ cancelReply' = [cancelReply EXCEPT ![o] = CancelOutcome(o)]
        \/ /\ taker # "none"
           /\ resting' \in {resting, RemoveFirst(resting, o)}
           /\ cancelReply' = [cancelReply EXCEPT ![o] = "failed"]
     /\ UNCHANGED <<team, side, running, deciding, reply, done, taker, maker,
                    position, half, closing, executed, dropped, booked,
                    overlapped>>

-----------------------------------------------------------------------------
(* The matching thread: exchange.submit_order has picked the order that it   *)
(* will fill, if any, and the fill, the removal and the result follow.       *)

StartMatch ==
  LET o == First("match").order
      crosses == resting # <<>> /\ side[Head(resting)] # side[o]
  IN /\ "matcher" \in running /\ taker = "none"
     /\ HasMessage("match", "match")
     /\ Take("match")
     /\ taker' = o
     /\ maker' = IF crosses THEN Head(resting) ELSE "none"
     /\ race' = IF race = "none" THEN "none" ELSE "past"
     /\ done' = done \cup {o}
     /\ UNCHANGED <<team, side, running, deciding, reply, cancelReply, resting,
                    position, half, closing, executed, dropped, booked,
                    overlapped>>

\* Filled in a match that raised: the exchange refuses to fill it again.
Spent(m) == \E p \in dropped : m \in {p[1], p[2]}

\* An order that was cancelled after it was picked is filled all the same: the
\* call returns the trade if it was for a part of the order.
FinishTrade ==
  /\ taker # "none" /\ maker # "none" /\ ~Spent(maker)
  /\ executed' = executed \cup {<<taker, maker>>}
  /\ resting' = RemoveFirst(resting, maker)
  /\ Put("trade", Message("result", taker, maker))
  /\ taker' = "none" /\ maker' = "none"
  /\ UNCHANGED <<team, side, running, deciding, reply, cancelReply, done, race,
                 position, half, closing, dropped, booked, overlapped>>

\* The order rests.  A cancellation that is removing the level it is put into,
\* which was empty for a moment, takes it out of the book.
FinishRest ==
  /\ taker # "none" /\ maker = "none"
  /\ \/ resting' = Append(resting, taker)
     \/ race = "now" /\ UNCHANGED resting
  /\ Put("trade", Message("result", taker, "none"))
  /\ taker' = "none"
  /\ UNCHANGED <<team, side, running, deciding, reply, cancelReply, done,
                 maker, race, position, half, closing, executed, dropped,
                 booked, overlapped>>

\* The call raises, and the thread only logs that: in a level that a
\* cancellation has left empty, or for an order with nothing left; or after the
\* trade, at a table entry that a cancellation has deleted (the order is gone)
\* or an iterator that it has disturbed (the order stays, with nothing left).
MatchRaises ==
  /\ taker # "none" /\ race # "none"
  /\ \/ /\ maker \notin Range(resting) \/ Spent(maker)
        /\ UNCHANGED <<resting, dropped>>
     \/ /\ race = "now" /\ maker # "none" /\ ~Spent(maker)
        /\ dropped' = dropped \cup {<<taker, maker>>}
        /\ resting' \in {resting, RemoveFirst(resting, maker)}
  /\ taker' = "none" /\ maker' = "none"
  /\ UNCHANGED <<team, side, q, running, deciding, reply, cancelReply, done,
                 race, position, half, closing, executed, booked, overlapped>>

MatcherStep == StartMatch \/ FinishTrade \/ FinishRest \/ MatchRaises

-----------------------------------------------------------------------------
(* The publisher and the position tracker. *)

\* Mutant: the result is reported to the client only.
PublishToClient ==
  /\ "publisher" \in running
  /\ HasMessage("trade", "result")
  /\ Take("trade")
  /\ UNCHANGED <<team, side, running, deciding, reply, cancelReply, resting,
                 done, position, half, closing, executed, booked, overlapped,
                 matching>>

Publish ==
  /\ "publisher" \in running
  /\ HasMessage("trade", "result")
  /\ Forward("trade", "position", First("trade"))
  /\ UNCHANGED <<team, side, running, deciding, reply, cancelReply, resting,
                 done, position, half, closing, executed, booked, overlapped,
                 matching>>

\* process_aggressor_position, for a result with a fill.
TrackAggressor ==
  LET m == First("position")
  IN /\ "tracker" \in running
     /\ half = NoTrade
     /\ HasMessage("position", "result")
     /\ Take("position")
     /\ IF m.maker = "none"
        THEN UNCHANGED <<position, half>>
        ELSE /\ position' = [position EXCEPT ![team[m.order]] = @ + Delta(m.order)]
             /\ half' = m
     /\ UNCHANGED <<team, side, running, deciding, reply, cancelReply, resting,
                    done, closing, executed, booked, overlapped, matching>>

\* Mutant: the counterparty's position moves the same way.
CounterpartySameSign ==
  IF team[half.maker] = team[half.order] THEN position
  ELSE [position EXCEPT ![team[half.maker]] = @ + Delta(half.order)]

\* Skipped when a team trades with itself.
CounterpartyPosition ==
  IF team[half.maker] = team[half.order] THEN position
  ELSE [position EXCEPT ![team[half.maker]] = @ - Delta(half.order)]

\* process_counterparty_position
TrackCounterparty ==
  /\ half # NoTrade
  /\ position' = CounterpartyPosition
  /\ half' = NoTrade
  /\ booked' = booked \cup {<<half.order, half.maker>>}
  /\ UNCHANGED <<team, side, q, running, deciding, reply, cancelReply, resting,
                 done, closing, executed, overlapped, matching>>

-----------------------------------------------------------------------------
(* shutdown(): the coordinator answers the waiting calls, then a sentinel is *)
(* put on every queue in turn, and each thread stops at its own.             *)

StopCoordinator ==
  /\ MayFail
  /\ Open
  /\ reply' = [o \in Orders |-> IF team[o] # "none" /\ reply[o] = "none"
                                THEN "shutdown" ELSE reply[o]]
  /\ closing' = <<"order", "match", "trade", "position">>
  /\ UNCHANGED <<team, side, q, running, deciding, cancelReply, resting, done,
                 position, half, executed, booked, overlapped, matching>>

PutSentinel ==
  /\ closing # <<>>
  /\ Put(Head(closing), Stop)
  /\ closing' = Tail(closing)
  /\ UNCHANGED <<team, side, running, deciding, reply, cancelReply, resting,
                 done, position, half, executed, booked, overlapped, matching>>

Consumer == [order |-> "validator", match |-> "matcher", trade |-> "publisher",
             position |-> "tracker"]

StopThread(n) ==
  /\ Consumer[n] \in running
  /\ HasMessage(n, "stop")
  /\ n = "order" => deciding = "none"
  /\ n = "match" => taker = "none"
  /\ n = "position" => half = NoTrade
  /\ running' = running \ {Consumer[n]}
  /\ Take(n)
  /\ UNCHANGED <<team, side, deciding, reply, cancelReply, resting, done,
                 position, half, closing, executed, booked, overlapped,
                 matching>>

ValidatorStep == ValidateAccept \/ AnswerAccepted \/ ValidateReject \/ ValidateCancel
TrackerStep == TrackAggressor \/ TrackCounterparty

Next ==
  \/ \E o \in Orders, t \in Teams, s \in {"buy", "sell"} : Submit(o, t, s)
  \/ \E o \in Orders : AskCancel(o) \/ TimeOut(o)
  \/ ValidatorStep \/ MatcherStep \/ Publish \/ TrackerStep
  \/ StopCoordinator \/ PutSentinel
  \/ \E n \in Queues : StopThread(n)

SafeSpec == Init /\ [][Next]_vars

\* Every thread keeps taking messages; nothing is assumed of the clients.
Spec ==
  /\ SafeSpec
  /\ WF_vars(ValidatorStep)
  /\ WF_vars(MatcherStep)
  /\ WF_vars(Publish)
  /\ WF_vars(TrackerStep)

-----------------------------------------------------------------------------
(* Safety. *)

\* What trade p moves the position of team t by: the counterparty's part is
\* left out where it is the aggressor's own team.
AggressorPart(p, t) == IF team[p[1]] = t THEN Delta(p[1]) ELSE 0
CounterpartyPart(p, t) ==
  IF team[p[2]] = t /\ team[p[1]] # t THEN Delta(p[2]) ELSE 0

Traded(t) ==
  SumFunctionOnSet([p \in executed |-> AggressorPart(p, t) + CounterpartyPart(p, t)],
                   executed)

\* What is still under way to the position of team t.
UnderWay(t) ==
  SumFunctionOnSet([p \in executed \ booked |->
                      (IF half.order = p[1] THEN 0 ELSE AggressorPart(p, t))
                        + CounterpartyPart(p, t)],
                   executed \ booked)

\* A trade is booked exactly once for each of its teams, through three threads
\* and two queues.  A team that trades with itself holds what only one side of
\* that trade gives: its position is off by exactly its self-trades.
PositionsFollowTrades ==
  \A t \in Teams : position[t] = Traded(t) - UnderWay(t)

\* A team with never more than one live order stays within its limit.
SequentialTeamsWithinLimit ==
  \A t \in Teams \ overlapped : -Limit <= position[t] /\ position[t] <= Limit

TradesOf(o) == {p \in executed \cup dropped : o \in {p[1], p[2]}}

\* Once its cancellation was confirmed, an order is never in the book again and
\* no match picks it; the one trade that it can still make is that of the match
\* that had picked it before it was cancelled.
CancelledIsNotPicked ==
  [][\A o \in Orders : cancelReply[o] = "ok" =>
       /\ o \notin Range(resting')
       /\ maker' = o => maker = o
       /\ o # maker => TradesOf(o)' = TradesOf(o)]_vars

\* A confirmed order is always put through the exchange: the order is on the
\* match queue before the answer is given, and the answer before the sentinel.
ConfirmedIsMatched ==
  \A o \in Orders :
    reply[o] = "accepted" /\ "matcher" \notin running => o \in done /\ o # taker

-----------------------------------------------------------------------------
(* Liveness. *)

\* Without a shutdown every trade is booked for both teams.
TradesAreBooked ==
  \A a, b \in Orders : <<a, b>> \in executed ~> <<a, b>> \in booked \/ ~Open
====
