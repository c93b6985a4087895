---- MODULE TradingPipelineProofs ----
(***************************************************************************)
(* Proofs about TradingPipeline: every order passes each stage at most     *)
(* once and every result is booked exactly once, whatever the order in     *)
(* which the threads run, calls time out and the shutdown stops them.      *)
(*                                                                         *)
(* Inv says where an order may be while it is under way.  On top of it are *)
(* the sums that the positions follow and, for a team whose orders come    *)
(* one at a time, the limit that the order under way leaves it.            *)
(***************************************************************************)
EXTENDS TradingPipeline, DataLemmas

-----------------------------------------------------------------------------
(* The invariant. *)

\* Messages, and those that queue n may carry.
Msg == [kind : {"new", "cancel", "match", "result", "stop", "none"},
        order : Orders \cup {"none"}, maker : Orders \cup {"none"}]

Fits(n, m) ==
  /\ m \in Msg /\ m.kind \in Kinds[n]
  /\ m.kind = "stop" => m = Stop
  /\ m.kind # "stop" => m.order \in Orders
  /\ m.kind # "result" => m.maker = "none"

QueuesTyped ==
  /\ q \in [Queues -> Seq(Msg)]
  /\ \A n \in Queues : \A m \in Range(q[n]) : Fits(n, m)

ElseTyped ==
  /\ team \in [Orders -> Teams \cup {"none"}]
  /\ side \in [Orders -> {"buy", "sell"}]
  /\ running \subseteq Threads
  /\ deciding \in Orders \cup {"none"}
  /\ reply \in [Orders -> {"none", "accepted", "rejected", "timeout", "shutdown"}]
  /\ cancelReply \in [Orders -> {"none", "asked", "ok", "failed"}]
  /\ resting \in Seq(Orders)
  /\ done \subseteq Orders
  /\ position \in [Teams -> Int]
  /\ half \in Msg
  /\ half # NoTrade => half.order \in Orders /\ half.maker \in Orders
  /\ closing \in Seq(Queues)
  /\ taker \in Orders \cup {"none"} /\ maker \in Orders \cup {"none"}
  /\ race \in {"none", "now", "past"}
  /\ executed \subseteq Orders \X Orders /\ dropped \subseteq Orders \X Orders
  /\ booked \subseteq executed
  /\ overlapped \subseteq Teams

\* Sequence s has a message of kind k for order o; it has at most one.
Has(s, k, o) == \E m \in Range(s) : m.kind = k /\ m.order = o

Single(s, k, o) ==
  \A i, j \in DOMAIN s :
    /\ s[i].kind = k /\ s[i].order = o
    /\ s[j].kind = k /\ s[j].order = o
    => i = j

\* Where an order is: in the order queue, in the match queue, or through the
\* exchange; and its result: in the trade queue, in the position queue, or half
\* booked.
Stage(o) ==
  /\ team[o] = "none" =>
       /\ ~Has(q["order"], "new", o) /\ ~Has(q["match"], "match", o)
       /\ o \notin done /\ deciding # o
  /\ Has(q["order"], "new", o) =>
       /\ ~Has(q["match"], "match", o)
       /\ o \notin done /\ deciding # o /\ reply[o] # "accepted"
  /\ Has(q["match"], "match", o) => o \notin done
  /\ Has(q["trade"], "result", o) => o \in done /\ ~Has(q["position"], "result", o)
  /\ Has(q["position"], "result", o) => o \in done
  /\ half.order = o =>
       o \in done /\ ~Has(q["trade"], "result", o) /\ ~Has(q["position"], "result", o)
  /\ taker = o =>
       /\ o \in done /\ half.order # o
       /\ ~Has(q["trade"], "result", o) /\ ~Has(q["position"], "result", o)
  /\ Single(q["order"], "new", o) /\ Single(q["match"], "match", o)
  /\ Single(q["trade"], "result", o) /\ Single(q["position"], "result", o)

Stages == \A o \in Orders : Stage(o)

\* The orders in the book; a cancelled one is not there any more.
Book ==
  /\ IsInjective(resting) /\ Range(resting) \subseteq done
  /\ taker \notin Range(resting)
  /\ \A o \in Orders : cancelReply[o] = "ok" =>
       o \in done /\ o \notin Range(resting) /\ o # taker

\* The two orders of the match under way have not traded, and may.
Matching ==
  /\ maker # "none" => /\ taker \in Orders /\ maker \in done /\ maker # taker
                       /\ side[maker] # side[taker]
  /\ \A p \in executed : {taker, maker} \cap {p[1], p[2]} = {}

\* Every order trades at most once, against one of the other side.
Trades ==
  /\ IsFiniteSet(executed)
  /\ \A p \in executed :
       /\ p[1] # p[2] /\ side[p[1]] # side[p[2]]
       /\ p[1] \in done /\ p[2] \in done
       /\ p[1] \notin Range(resting) /\ p[2] \notin Range(resting)
  /\ \A p, r \in executed :
       p[1] = r[1] \/ p[1] = r[2] \/ p[2] = r[1] \/ p[2] = r[2] => p = r

\* A result tells of a trade that is not booked yet.
Unbooked(m) == m.maker # "none" => <<m.order, m.maker>> \in executed \ booked

Results == Unbooked(half) /\ \A n \in Queues : \A m \in Range(q[n]) : Unbooked(m)

\* An acceptance is told only before the shutdown, when the order is already in
\* front of the sentinel.
Replies ==
  /\ ~Open => \A o \in Orders : team[o] # "none" => reply[o] # "none"
  /\ deciding # "none" => deciding \in done \/ Has(q["match"], "match", deciding)
  /\ \A o \in Orders : reply[o] = "accepted" =>
       o \in done \/ ("matcher" \in running /\ Has(q["match"], "match", o))
  /\ taker # "none" => "matcher" \in running

InFront ==
  \A i, j \in DOMAIN q["match"] :
    /\ q["match"][i].kind = "match" /\ reply[q["match"][i].order] = "accepted"
    /\ q["match"][j].kind = "stop"
    => i < j

Inv ==
  /\ QueuesTyped /\ ElseTyped
  /\ Stages /\ Book /\ Trades /\ Matching /\ Results /\ Replies /\ InFront

\* A team whose orders come one at a time is within its limit, and will be when
\* its order has traded.
InTurn(t) ==
  /\ -Limit <= position[t] /\ position[t] <= Limit
  /\ \A a, b \in Live(t) : a = b
  /\ \A a \in Live(t) : half.order # a =>
       -Limit <= position[t] + Delta(a) /\ position[t] + Delta(a) <= Limit

TurnInv == \A t \in Teams \ overlapped : InTurn(t)

-----------------------------------------------------------------------------
(* Queues of messages. *)

\* A message is put at the end.
LEMMA Appended ==
  ASSUME NEW S, NEW s \in Seq(S), NEW m \in S
  PROVE  /\ Append(s, m) \in Seq(S)
         /\ Range(Append(s, m)) = Range(s) \cup {m}
         /\ \A k, o : Has(Append(s, m), k, o) <=>
                        Has(s, k, o) \/ (m.kind = k /\ m.order = o)
         /\ \A k, o : /\ Single(s, k, o)
                      /\ m.kind = k /\ m.order = o => ~Has(s, k, o)
                      => Single(Append(s, m), k, o)
<1>1. /\ Append(s, m) \in Seq(S) /\ Range(Append(s, m)) = Range(s) \cup {m}
      /\ Len(Append(s, m)) = Len(s) + 1 /\ Len(s) \in Nat
      /\ Append(s, m)[Len(s) + 1] = m
      /\ \A i \in 1..Len(s) : Append(s, m)[i] = s[i]
  BY AppendToQueue
<1>2. \A k, o : Has(Append(s, m), k, o) <=> Has(s, k, o) \/ (m.kind = k /\ m.order = o)
  BY <1>1 DEF Has
<1>3. ASSUME NEW k, NEW o, Single(s, k, o),
             m.kind = k /\ m.order = o => ~Has(s, k, o)
      PROVE  Single(Append(s, m), k, o)
  <2>1. /\ DOMAIN s = 1..Len(s) /\ DOMAIN Append(s, m) = 1..(Len(s) + 1)
        /\ \A i \in 1..Len(s) : s[i] \in Range(s)
    BY <1>1, LenProperties DEF Range
  <2>2. \A i \in 1..(Len(s) + 1) : i \in 1..Len(s) \/ i = Len(s) + 1
    BY <1>1
  <2>. QED  BY <1>1, <1>3, <2>1, <2>2 DEF Single, Has
<1>. QED  BY <1>1, <1>2, <1>3

\* The message in front is taken.
LEMMA Taken ==
  ASSUME NEW S, NEW s \in Seq(S), s # <<>>
  PROVE  /\ Tail(s) \in Seq(S) /\ Head(s) \in S
         /\ Range(s) = Range(Tail(s)) \cup {Head(s)}
         /\ \A k, o : Has(s, k, o) <=>
                        Has(Tail(s), k, o) \/ (Head(s).kind = k /\ Head(s).order = o)
         /\ \A k, o : Single(s, k, o) =>
              /\ Single(Tail(s), k, o)
              /\ Head(s).kind = k /\ Head(s).order = o => ~Has(Tail(s), k, o)
<1>1. /\ Tail(s) \in Seq(S) /\ Head(s) \in S /\ Head(s) = s[1]
      /\ Range(s) = Range(Tail(s)) \cup {Head(s)}
      /\ Len(s) \in Nat \ {0} /\ Len(Tail(s)) = Len(s) - 1
      /\ \A i \in 1..(Len(s) - 1) : Tail(s)[i] = s[i + 1]
  BY TailOfQueue, HeadTailProperties, LenProperties, EmptySeq
<1>2. \A k, o : Has(s, k, o) <=>
                  Has(Tail(s), k, o) \/ (Head(s).kind = k /\ Head(s).order = o)
  BY <1>1 DEF Has
<1>3. ASSUME NEW k, NEW o, Single(s, k, o)
      PROVE  /\ Single(Tail(s), k, o)
             /\ Head(s).kind = k /\ Head(s).order = o => ~Has(Tail(s), k, o)
  <2>1. /\ DOMAIN s = 1..Len(s) /\ DOMAIN Tail(s) = 1..(Len(s) - 1)
        /\ \A m \in Range(Tail(s)) : \E i \in 1..(Len(s) - 1) : Tail(s)[i] = m
    BY <1>1, LenProperties DEF Range
  <2>2. \A i \in 1..(Len(s) - 1) : i + 1 \in 1..Len(s) /\ i + 1 # 1 /\ 1 \in 1..Len(s)
    BY <1>1
  <2>3. Single(Tail(s), k, o)
    <3>1. ASSUME NEW i \in 1..(Len(s) - 1), NEW j \in 1..(Len(s) - 1), i + 1 = j + 1
          PROVE  i = j
      BY <3>1
    <3>. QED  BY <1>1, <1>3, <2>1, <2>2, <3>1 DEF Single
  <2>4. Head(s).kind = k /\ Head(s).order = o => ~Has(Tail(s), k, o)
    BY <1>1, <1>3, <2>1, <2>2 DEF Single, Has
  <2>. QED  BY <2>3, <2>4
<1>. QED  BY <1>1, <1>2, <1>3

\* A message is put on queue n.
LEMMA PutStep ==
  ASSUME QueuesTyped, NEW n \in Queues, NEW m, Fits(n, m), Put(n, m)
  PROVE  /\ QueuesTyped' /\ q'[n] = Append(q[n], m) /\ q[n] \in Seq(Msg) /\ m \in Msg
         /\ \A i \in Queues \ {n} : q'[i] = q[i]
<1>1. q[n] \in Seq(Msg) /\ m \in Msg /\ q' = [q EXCEPT ![n] = Append(q[n], m)]
  BY DEF QueuesTyped, Fits, Put
<1>2. Append(q[n], m) \in Seq(Msg) /\ Range(Append(q[n], m)) = Range(q[n]) \cup {m}
  BY <1>1, Appended
<1>3. /\ q' \in [Queues -> Seq(Msg)] /\ q'[n] = Append(q[n], m)
      /\ \A i \in Queues \ {n} : q'[i] = q[i]
  BY <1>1, <1>2 DEF QueuesTyped
<1>4. \A i \in Queues : \A x \in Range(q'[i]) : Fits(i, x)
  BY <1>2, <1>3 DEF QueuesTyped
<1>5. QueuesTyped'
  BY <1>3, <1>4 DEF QueuesTyped, Fits, Msg
<1>. QED  BY <1>1, <1>3, <1>5

\* A message is taken from queue n.
LEMMA TakeStep ==
  ASSUME QueuesTyped, NEW n \in Queues, q[n] # <<>>, Take(n)
  PROVE  /\ QueuesTyped' /\ q'[n] = Tail(q[n]) /\ q[n] \in Seq(Msg)
         /\ Fits(n, First(n)) /\ First(n) \in Range(q[n])
         /\ \A i \in Queues \ {n} : q'[i] = q[i]
<1>1. q[n] \in Seq(Msg) /\ q' = [q EXCEPT ![n] = Tail(q[n])]
  BY DEF QueuesTyped, Take
<1>2. /\ Tail(q[n]) \in Seq(Msg) /\ First(n) \in Range(q[n])
      /\ Range(Tail(q[n])) \subseteq Range(q[n])
  BY <1>1, Taken DEF First
<1>3. /\ q' \in [Queues -> Seq(Msg)] /\ q'[n] = Tail(q[n])
      /\ \A i \in Queues \ {n} : q'[i] = q[i]
  BY <1>1, <1>2 DEF QueuesTyped
<1>4. \A i \in Queues : \A x \in Range(q'[i]) : Fits(i, x)
  BY <1>2, <1>3 DEF QueuesTyped
<1>5. QueuesTyped'
  BY <1>3, <1>4 DEF QueuesTyped, Fits, Msg
<1>. QED  BY <1>1, <1>2, <1>3, <1>5 DEF QueuesTyped

\* A message is taken from queue a, and another one is put on queue b.
LEMMA ForwardStep ==
  ASSUME QueuesTyped, NEW a \in Queues, NEW b \in Queues \ {a}, q[a] # <<>>,
         NEW m, Fits(b, m), Forward(a, b, m)
  PROVE  /\ QueuesTyped' /\ q'[a] = Tail(q[a]) /\ q'[b] = Append(q[b], m)
         /\ q[a] \in Seq(Msg) /\ q[b] \in Seq(Msg) /\ m \in Msg
         /\ Fits(a, First(a)) /\ First(a) \in Range(q[a])
         /\ \A i \in Queues \ {a, b} : q'[i] = q[i]
<1>1. /\ q[a] \in Seq(Msg) /\ q[b] \in Seq(Msg) /\ m \in Msg
      /\ q' = [q EXCEPT ![a] = Tail(q[a]), ![b] = Append(q[b], m)]
  BY DEF QueuesTyped, Fits, Forward
<1>2. /\ Tail(q[a]) \in Seq(Msg) /\ First(a) \in Range(q[a])
      /\ Range(Tail(q[a])) \subseteq Range(q[a])
      /\ Append(q[b], m) \in Seq(Msg) /\ Range(Append(q[b], m)) = Range(q[b]) \cup {m}
  BY <1>1, Taken, Appended DEF First
<1>3. /\ q' \in [Queues -> Seq(Msg)] /\ q'[a] = Tail(q[a]) /\ q'[b] = Append(q[b], m)
      /\ \A i \in Queues \ {a, b} : q'[i] = q[i]
  BY <1>1, <1>2 DEF QueuesTyped
<1>4. ASSUME NEW i \in Queues, NEW x \in Range(q'[i]) PROVE Fits(i, x)
  <2>1. CASE i = a
    BY <1>2, <1>3, <2>1 DEF QueuesTyped
  <2>2. CASE i = b
    BY <1>2, <1>3, <2>2 DEF QueuesTyped
  <2>3. CASE i \notin {a, b}
    BY <1>3, <2>3 DEF QueuesTyped
  <2>. QED  BY <2>1, <2>2, <2>3
<1>5. QueuesTyped'
  BY <1>3, <1>4 DEF QueuesTyped, Fits, Msg
<1>. QED  BY <1>1, <1>2, <1>3, <1>5 DEF QueuesTyped

\* The parts of a message, and of the first message of a kind.
LEMMA Messages ==
  /\ \A k, o, m : /\ Message(k, o, m).kind = k /\ Message(k, o, m).order = o
                  /\ Message(k, o, m).maker = m
  /\ Stop.kind = "stop" /\ Stop.order = "none" /\ Stop.maker = "none"
  /\ NoTrade.kind = "none" /\ NoTrade.order = "none" /\ NoTrade.maker = "none"
BY DEF Message, Stop, NoTrade

\* Calls are open as long as no sentinel is put and no thread stops.
LEMMA StaysOpen ==
  ASSUME Open, UNCHANGED <<closing, running>>,
         \A n \in Queues : Stop \in Range(q'[n]) => Stop \in Range(q[n])
  PROVE  Open'
BY DEF Open

-----------------------------------------------------------------------------
(* The API. *)

\* An order that nobody knows yet is put on the order queue.
LEMMA SubmitKeeps ==
  ASSUME Inv, NEW o \in Orders, NEW t \in Teams, NEW s \in {"buy", "sell"}, Submit(o, t, s)
  PROVE  Inv'
<1>1. PICK m : m = Message("new", o, "none")
  OBVIOUS
<1>2. /\ team[o] = "none" /\ Open
      /\ team' = [team EXCEPT ![o] = t] /\ side' = [side EXCEPT ![o] = s]
      /\ Put("order", m)
      /\ UNCHANGED <<running, deciding, reply, cancelReply, resting, done, position,
                     half, closing, executed, booked, overlapped, taker, maker, race,
                     dropped>>
  BY <1>1 DEF Submit, matching
<1>3. m.kind = "new" /\ m.order = o /\ m.maker = "none" /\ Fits("order", m) /\ m # Stop
  BY <1>1, Messages DEF Fits, Msg, Message, Kinds
<1>4. /\ QueuesTyped' /\ q["order"] \in Seq(Msg) /\ m \in Msg
      /\ q'["order"] = Append(q["order"], m)
      /\ \A i \in Queues \ {"order"} : q'[i] = q[i]
  BY <1>2, <1>3, PutStep DEF Inv, Queues
<1>5. /\ q'["match"] = q["match"] /\ q'["trade"] = q["trade"]
      /\ q'["position"] = q["position"] /\ Range(q'["order"]) = Range(q["order"]) \cup {m}
  BY <1>4, Appended DEF Queues
<1>6. /\ team' \in [Orders -> Teams \cup {"none"}] /\ team'[o] = t /\ team'[o] # "none"
      /\ side' \in [Orders -> {"buy", "sell"}]
      /\ \A x \in Orders \ {o} : team'[x] = team[x] /\ side'[x] = side[x]
  BY <1>2, OrdersAssumption DEF Inv, ElseTyped
<1>7. ElseTyped'
  BY <1>2, <1>6 DEF Inv, ElseTyped
<1>8. /\ o \notin done /\ ~Has(q["order"], "new", o) /\ ~Has(q["match"], "match", o)
      /\ deciding # o /\ reply[o] # "accepted"
  BY <1>2 DEF Inv, Stages, Stage, Replies
<1>9. Stages'
  <2>1. ASSUME NEW x \in Orders PROVE Stage(x)'
    <3>1. /\ Has(q'["order"], "new", x) <=> Has(q["order"], "new", x) \/ x = o
          /\ Single(q["order"], "new", x) => Single(q'["order"], "new", x)
      BY <1>3, <1>4, <1>8, Appended
    <3>2. Stage(x)
      BY DEF Inv, Stages
    <3>. QED  BY <1>2, <1>5, <1>6, <1>8, <3>1, <3>2 DEF Stage
  <2>. QED  BY <2>1 DEF Stages
<1>10. Book' /\ Trades' /\ Matching'
  <2>1. Book' /\ Trades'
    BY <1>2, <1>6, <1>8 DEF Inv, Book, Trades, ElseTyped
  <2>2. taker # o /\ (maker # "none" => maker \in Orders \ {o} /\ taker \in Orders \ {o})
    BY <1>8 DEF Inv, Matching, ElseTyped, Stages, Stage
  <2>3. Matching'
    BY <1>2, <1>6, <2>2 DEF Inv, Matching
  <2>. QED  BY <2>1, <2>3
<1>11. Results'
  <2>1. ASSUME NEW i \in Queues, NEW x \in Range(q'[i]) PROVE Unbooked(x)'
    <3>1. x = m \/ x \in Range(q[i])
      BY <1>4, <1>5
    <3>. QED  BY <1>2, <1>3, <3>1 DEF Inv, Results, Unbooked
  <2>. QED  BY <1>2, <2>1 DEF Inv, Results, Unbooked
<1>12. Replies'
  <2>1. Open'
    BY <1>2, <1>3, <1>4, <1>5, StaysOpen
  <2>. QED  BY <1>2, <1>5, <2>1 DEF Inv, Replies
<1>13. InFront'
  BY <1>2, <1>5 DEF Inv, InFront
<1>. QED  BY <1>4, <1>7, <1>9, <1>10, <1>11, <1>12, <1>13 DEF Inv

\* A cancellation is put on the order queue.
LEMMA AskCancelKeeps ==
  ASSUME Inv, NEW o \in Orders, AskCancel(o)
  PROVE  Inv'
<1>1. PICK m : m = Message("cancel", o, "none")
  OBVIOUS
<1>2. /\ Open /\ cancelReply' = [cancelReply EXCEPT ![o] = "asked"] /\ Put("order", m)
      /\ UNCHANGED <<team, side, running, deciding, reply, resting, done, position,
                     half, closing, executed, booked, overlapped, taker, maker, race,
                     dropped>>
  BY <1>1 DEF AskCancel, matching
<1>3. m.kind = "cancel" /\ m.order = o /\ m.maker = "none" /\ Fits("order", m) /\ m # Stop
  BY <1>1, Messages DEF Fits, Msg, Message, Kinds
<1>4. /\ QueuesTyped' /\ q["order"] \in Seq(Msg) /\ m \in Msg
      /\ q'["order"] = Append(q["order"], m)
      /\ \A i \in Queues \ {"order"} : q'[i] = q[i]
  BY <1>2, <1>3, PutStep DEF Inv, Queues
<1>5. /\ q'["match"] = q["match"] /\ q'["trade"] = q["trade"]
      /\ q'["position"] = q["position"] /\ Range(q'["order"]) = Range(q["order"]) \cup {m}
  BY <1>4, Appended DEF Queues
<1>6. ElseTyped'
  BY <1>2 DEF Inv, ElseTyped
<1>7. Stages'
  <2>1. ASSUME NEW x \in Orders PROVE Stage(x)'
    <3>1. /\ Has(q'["order"], "new", x) <=> Has(q["order"], "new", x)
          /\ Single(q["order"], "new", x) => Single(q'["order"], "new", x)
      BY <1>3, <1>4, Appended
    <3>2. Stage(x)
      BY DEF Inv, Stages
    <3>. QED  BY <1>2, <1>5, <3>1, <3>2 DEF Stage
  <2>. QED  BY <2>1 DEF Stages
<1>8. Book' /\ Trades' /\ Matching'
  BY <1>2 DEF Inv, Book, Trades, Matching, ElseTyped
<1>9. Results'
  <2>1. ASSUME NEW i \in Queues, NEW x \in Range(q'[i]) PROVE Unbooked(x)'
    <3>1. x = m \/ x \in Range(q[i])
      BY <1>4, <1>5
    <3>. QED  BY <1>2, <1>3, <3>1 DEF Inv, Results, Unbooked
  <2>. QED  BY <1>2, <2>1 DEF Inv, Results, Unbooked
<1>10. Replies'
  <2>1. Open'
    BY <1>2, <1>3, <1>4, <1>5, StaysOpen
  <2>. QED  BY <1>2, <1>5, <2>1 DEF Inv, Replies
<1>11. InFront'
  BY <1>2, <1>5 DEF Inv, InFront
<1>. QED  BY <1>4, <1>6, <1>7, <1>8, <1>9, <1>10, <1>11 DEF Inv

\* A step that leaves the queues, the book, the trades and the threads alone.
LEMMA OnlyReplies ==
  ASSUME Inv, UNCHANGED <<team, side, q, running, deciding, cancelReply, resting,
                          done, position, half, executed, booked, overlapped, taker,
                          maker, race, dropped>>,
         reply' \in [Orders -> {"none", "accepted", "rejected", "timeout", "shutdown"}],
         \A x \in Orders : reply'[x] = "accepted" => reply[x] = "accepted",
         closing' \in Seq(Queues),
         ~Open' => \A x \in Orders : team[x] # "none" => reply'[x] # "none"
  PROVE  Inv'
<1>1. QueuesTyped' /\ ElseTyped'
  BY DEF Inv, QueuesTyped, ElseTyped
<1>2. Stages'
  BY DEF Inv, Stages, Stage
<1>3. Book' /\ Trades' /\ Matching' /\ Results'
  BY DEF Inv, Book, Trades, Matching, Results, Unbooked
<1>4. Replies'
  BY DEF Inv, Replies
<1>5. InFront'
  <2>1. ASSUME NEW i \in DOMAIN q["match"], q["match"][i].kind = "match"
        PROVE  q["match"][i].order \in Orders
    <3>1. q["match"][i] \in Range(q["match"])
      BY DEF Range
    <3>. QED  BY <2>1, <3>1 DEF Inv, QueuesTyped, Fits, Queues
  <2>. QED  BY <2>1 DEF Inv, InFront
<1>. QED  BY <1>1, <1>2, <1>3, <1>4, <1>5 DEF Inv

\* The call gives up.
LEMMA TimeOutKeeps ==
  ASSUME Inv, NEW o \in Orders, TimeOut(o)
  PROVE  Inv'
<1>1. /\ reply' = [reply EXCEPT ![o] = "timeout"]
      /\ UNCHANGED <<team, side, q, running, deciding, cancelReply, resting, done,
                     position, half, closing, executed, booked, overlapped, taker,
                     maker, race, dropped>>
  BY DEF TimeOut, matching
<1>2. /\ reply' \in [Orders -> {"none", "accepted", "rejected", "timeout", "shutdown"}]
      /\ \A x \in Orders : reply'[x] = "accepted" => reply[x] = "accepted"
      /\ \A x \in Orders : reply[x] # "none" => reply'[x] # "none"
  BY <1>1 DEF Inv, ElseTyped
<1>3. Open => Open'
  BY <1>1 DEF Open
<1>4. /\ closing' \in Seq(Queues)
      /\ ~Open => \A x \in Orders : team[x] # "none" => reply[x] # "none"
  BY <1>1 DEF Inv, ElseTyped, Replies
<1>. QED  BY <1>1, <1>2, <1>3, <1>4, OnlyReplies

\* shutdown answers every call that waits.
LEMMA StopCoordinatorKeeps ==
  ASSUME Inv, StopCoordinator
  PROVE  Inv'
<1>1. /\ reply' = [o \in Orders |-> IF team[o] # "none" /\ reply[o] = "none"
                                    THEN "shutdown" ELSE reply[o]]
      /\ closing' = <<"order", "match", "trade", "position">>
      /\ UNCHANGED <<team, side, q, running, deciding, cancelReply, resting, done,
                     position, half, executed, booked, overlapped, taker, maker, race,
                     dropped>>
  BY DEF StopCoordinator, matching
<1>2. /\ reply' \in [Orders -> {"none", "accepted", "rejected", "timeout", "shutdown"}]
      /\ \A x \in Orders : reply'[x] = "accepted" => reply[x] = "accepted"
      /\ \A x \in Orders : team[x] # "none" => reply'[x] # "none"
  BY <1>1 DEF Inv, ElseTyped
<1>3. closing' \in Seq(Queues)
  BY <1>1 DEF Queues
<1>. QED  BY <1>1, <1>2, <1>3, OnlyReplies

-----------------------------------------------------------------------------
(* The validator. *)

\* An order is forwarded: it was not known to be accepted before.
LEMMA ValidateAcceptKeeps ==
  ASSUME Inv, ValidateAccept
  PROVE  Inv'
<1>1. PICK o, m : o = First("order").order /\ m = Validated(o)
  OBVIOUS
<1>2. /\ q["order"] # <<>> /\ First("order").kind = "new" /\ deciding = "none"
      /\ Forward("order", "match", m) /\ deciding' = o
      /\ overlapped' \in {overlapped, overlapped \cup {team[o]}}
      /\ UNCHANGED <<team, side, running, reply, cancelReply, resting, done, position,
                     half, closing, executed, booked, taker, maker, race, dropped>>
  BY <1>1 DEF ValidateAccept, matching, ValidatorReady, HasMessage
<1>3. "order" \in Queues /\ "match" \in Queues \ {"order"}
  BY DEF Queues
<1>4. q["order"] \in Seq(Msg) /\ Fits("order", First("order"))
  BY <1>2, <1>3, Taken DEF Inv, QueuesTyped, First
<1>5. o \in Orders
  BY <1>1, <1>2, <1>4 DEF Fits
<1>6. m.kind = "match" /\ m.order = o /\ m.maker = "none" /\ Fits("match", m) /\ m # Stop
  BY <1>1, <1>5, Messages DEF Fits, Msg, Message, Kinds, Validated
<1>7. /\ QueuesTyped' /\ q["match"] \in Seq(Msg) /\ m \in Msg
      /\ q'["order"] = Tail(q["order"]) /\ q'["match"] = Append(q["match"], m)
      /\ \A i \in Queues \ {"order", "match"} : q'[i] = q[i]
  BY <1>2, <1>3, <1>6, ForwardStep DEF Inv
<1>8. /\ q'["trade"] = q["trade"] /\ q'["position"] = q["position"]
      /\ Range(q'["match"]) = Range(q["match"]) \cup {m}
      /\ Range(q'["order"]) \subseteq Range(q["order"])
  BY <1>2, <1>4, <1>7, Appended, Taken DEF Queues
<1>9. /\ Has(q["order"], "new", o)
      /\ ~Has(q["match"], "match", o) /\ o \notin done /\ reply[o] # "accepted"
      /\ team[o] # "none"
  <2>1. Has(q["order"], "new", o)
    BY <1>1, <1>2, <1>4, Taken DEF First
  <2>. QED  BY <1>5, <2>1 DEF Inv, Stages, Stage
<1>10. ElseTyped'
  BY <1>2, <1>5, <1>9 DEF Inv, ElseTyped
<1>11. Stages'
  <2>1. ASSUME NEW x \in Orders PROVE Stage(x)'
    <3>1. Stage(x)
      BY DEF Inv, Stages
    <3>2. /\ Has(q'["order"], "new", x) => Has(q["order"], "new", x) /\ x # o
          /\ Single(q'["order"], "new", x)
      BY <1>1, <1>2, <1>4, <1>7, <3>1, Taken DEF Stage, First
    <3>3. /\ Has(q'["match"], "match", x) <=> Has(q["match"], "match", x) \/ x = o
          /\ Single(q'["match"], "match", x)
      BY <1>6, <1>7, <1>9, <3>1, Appended DEF Stage
    <3>. QED  BY <1>2, <1>8, <1>9, <3>1, <3>2, <3>3 DEF Stage
  <2>. QED  BY <2>1 DEF Stages
<1>12. Book' /\ Trades' /\ Matching'
  BY <1>2 DEF Inv, Book, Trades, Matching
<1>13. Results'
  <2>1. ASSUME NEW i \in Queues, NEW x \in Range(q'[i]) PROVE Unbooked(x)'
    <3>1. x = m \/ x \in Range(q[i])
      BY <1>7, <1>8
    <3>. QED  BY <1>2, <1>6, <3>1 DEF Inv, Results, Unbooked
  <2>. QED  BY <1>2, <2>1 DEF Inv, Results, Unbooked
<1>14. Replies'
  <2>1. \A x : Has(q'["match"], "match", x) <=> Has(q["match"], "match", x) \/ x = o
    BY <1>6, <1>7, Appended
  <2>2. Open => Open'
    BY <1>2, <1>6, <1>7, <1>8, StaysOpen
  <2>. QED  BY <1>2, <2>1, <2>2 DEF Inv, Replies
<1>15. InFront'
  <2>1. /\ Len(q["match"]) \in Nat /\ DOMAIN q["match"] = 1..Len(q["match"])
        /\ DOMAIN q'["match"] = 1..(Len(q["match"]) + 1)
        /\ q'["match"][Len(q["match"]) + 1] = m
        /\ \A i \in 1..Len(q["match"]) : q'["match"][i] = q["match"][i]
    BY <1>7, AppendToQueue, LenProperties
  <2>2. \A i \in 1..(Len(q["match"]) + 1) :
          i \in 1..Len(q["match"]) \/ i = Len(q["match"]) + 1
    BY <2>1
  <2>. QED  BY <1>2, <1>6, <1>9, <2>1, <2>2 DEF Inv, InFront
<1>. QED  BY <1>7, <1>10, <1>11, <1>12, <1>13, <1>14, <1>15 DEF Inv

\* The acceptance is told only to a call that still waits, so there has been no
\* shutdown.
LEMMA AnswerAcceptedKeeps ==
  ASSUME Inv, AnswerAccepted
  PROVE  Inv'
<1>1. PICK o : o = deciding
  OBVIOUS
<1>2. /\ o \in Orders /\ deciding' = "none"
      /\ reply' = [reply EXCEPT ![o] = IF reply[o] = "none" THEN "accepted" ELSE reply[o]]
      /\ UNCHANGED <<team, side, q, running, cancelReply, resting, done, position,
                     half, closing, executed, booked, overlapped, taker, maker, race,
                     dropped>>
  BY <1>1 DEF AnswerAccepted, matching, Answer, Inv, ElseTyped
<1>3. /\ reply' \in [Orders -> {"none", "accepted", "rejected", "timeout", "shutdown"}]
      /\ \A x \in Orders : reply'[x] = "accepted" =>
           reply[x] = "accepted" \/ (x = o /\ reply[o] = "none")
      /\ \A x \in Orders : reply[x] # "none" => reply'[x] # "none"
  BY <1>2 DEF Inv, ElseTyped
<1>4. team[o] # "none" /\ ~Has(q["order"], "new", o)
  BY <1>1, <1>2 DEF Inv, Stages, Stage
<1>5. reply[o] = "none" => Open
  BY <1>2, <1>4 DEF Inv, Replies
<1>6. QueuesTyped' /\ ElseTyped'
  BY <1>2, <1>3 DEF Inv, QueuesTyped, ElseTyped
<1>7. Stages'
  BY <1>2, <1>3, <1>4, OrdersAssumption DEF Inv, Stages, Stage
<1>8. Book' /\ Trades' /\ Matching' /\ Results'
  BY <1>2 DEF Inv, Book, Trades, Matching, Results, Unbooked
<1>9. Replies'
  <2>1. Open => Open'
    BY <1>2 DEF Open
  <2>2. reply[o] = "none" => "matcher" \in running
    BY <1>5 DEF Open, Threads
  <2>3. o \in done \/ Has(q["match"], "match", o)
    BY <1>1, <1>2, OrdersAssumption DEF Inv, Replies
  <2>. QED  BY <1>2, <1>3, <2>1, <2>2, <2>3 DEF Inv, Replies
<1>10. InFront'
  <2>1. ASSUME NEW i \in DOMAIN q["match"]
        PROVE  Fits("match", q["match"][i]) /\ q["match"][i] \in Range(q["match"])
    <3>1. q["match"][i] \in Range(q["match"])
      BY DEF Range
    <3>. QED  BY <3>1 DEF Inv, QueuesTyped, Queues
  <2>2. CASE reply[o] = "none"
    <3>1. \A i \in DOMAIN q["match"] : q["match"][i].kind # "stop"
      BY <1>5, <2>1, <2>2 DEF Open, Queues, Fits
    <3>. QED  BY <1>2, <3>1 DEF InFront
  <2>3. CASE reply[o] # "none"
    <3>1. \A i \in DOMAIN q["match"] : q["match"][i].kind = "match" =>
            q["match"][i].order \in Orders
      BY <2>1 DEF Fits
    <3>. QED  BY <1>2, <1>3, <2>3, <3>1 DEF Inv, InFront
  <2>. QED  BY <2>2, <2>3
<1>. QED  BY <1>6, <1>7, <1>8, <1>9, <1>10 DEF Inv

\* The order ends at the validator.
LEMMA ValidateRejectKeeps ==
  ASSUME Inv, ValidateReject
  PROVE  Inv'
<1>1. PICK o : o = First("order").order
  OBVIOUS
<1>2. /\ q["order"] # <<>> /\ First("order").kind = "new" /\ Take("order")
      /\ reply' = [reply EXCEPT ![o] = IF reply[o] = "none" THEN "rejected" ELSE reply[o]]
      /\ UNCHANGED <<team, side, running, deciding, cancelReply, resting, done,
                     position, half, closing, executed, booked, overlapped, taker,
                     maker, race, dropped>>
  BY <1>1 DEF ValidateReject, matching, HasMessage, Answer
<1>3. "order" \in Queues
  BY DEF Queues
<1>4. /\ QueuesTyped' /\ q'["order"] = Tail(q["order"]) /\ q["order"] \in Seq(Msg)
      /\ \A i \in Queues \ {"order"} : q'[i] = q[i]
  BY <1>2, <1>3, TakeStep DEF Inv
<1>5. /\ q'["match"] = q["match"] /\ q'["trade"] = q["trade"]
      /\ q'["position"] = q["position"] /\ Range(q'["order"]) \subseteq Range(q["order"])
  BY <1>2, <1>4, Taken DEF Queues
<1>6. /\ reply' \in [Orders -> {"none", "accepted", "rejected", "timeout", "shutdown"}]
      /\ \A x \in Orders : reply'[x] = "accepted" => reply[x] = "accepted"
      /\ \A x \in Orders : reply[x] # "none" => reply'[x] # "none"
  BY <1>2 DEF Inv, ElseTyped
<1>7. ElseTyped'
  BY <1>2, <1>6 DEF Inv, ElseTyped
<1>8. Stages'
  <2>1. ASSUME NEW x \in Orders PROVE Stage(x)'
    <3>1. Stage(x)
      BY DEF Inv, Stages
    <3>2. /\ Has(q'["order"], "new", x) => Has(q["order"], "new", x)
          /\ Single(q'["order"], "new", x)
      BY <1>2, <1>4, <3>1, Taken DEF Stage
    <3>. QED  BY <1>2, <1>5, <1>6, <3>1, <3>2 DEF Stage
  <2>. QED  BY <2>1 DEF Stages
<1>9. Book' /\ Trades' /\ Matching'
  BY <1>2 DEF Inv, Book, Trades, Matching
<1>10. Results'
  <2>1. ASSUME NEW i \in Queues, NEW x \in Range(q'[i]) PROVE Unbooked(x)'
    <3>1. x \in Range(q[i])
      BY <1>4, <1>5
    <3>. QED  BY <1>2, <3>1 DEF Inv, Results, Unbooked
  <2>. QED  BY <1>2, <2>1 DEF Inv, Results, Unbooked
<1>11. Replies'
  <2>1. Open => Open'
    BY <1>2, <1>4, <1>5, StaysOpen
  <2>. QED  BY <1>2, <1>5, <1>6, <2>1 DEF Inv, Replies
<1>12. InFront'
  <2>1. ASSUME NEW i \in DOMAIN q["match"], q["match"][i].kind = "match"
        PROVE  q["match"][i].order \in Orders
    <3>1. q["match"][i] \in Range(q["match"])
      BY DEF Range
    <3>. QED  BY <2>1, <3>1 DEF Inv, QueuesTyped, Fits, Queues
  <2>. QED  BY <1>5, <1>6, <2>1 DEF Inv, InFront
<1>. QED  BY <1>4, <1>7, <1>8, <1>9, <1>10, <1>11, <1>12 DEF Inv

\* The book after a cancellation.
LEMMA RestingWithout ==
  ASSUME Inv, NEW o \in Orders
  PROVE  /\ RemoveFirst(resting, o) \in Seq(Orders)
         /\ IsInjective(RemoveFirst(resting, o))
         /\ Range(RemoveFirst(resting, o)) = Range(resting) \ {o}
<1>1. resting \in Seq(Orders) /\ IsInjective(resting)
  BY DEF Inv, ElseTyped, Book
<1>2. CASE o \in Range(resting)
  <2>1. PICK i \in 1..Len(resting) :
          resting[i] = o /\ RemoveFirst(resting, o) = RemoveAt(resting, i)
    BY <1>1, <1>2, RemoveFirstFromQueue
  <2>. QED  BY <1>1, <2>1, RemoveFromQueue
<1>3. CASE o \notin Range(resting)
  <2>1. RemoveFirst(resting, o) = resting
    BY <1>1, <1>3, LenProperties DEF RemoveFirst, Range
  <2>. QED  BY <1>1, <1>3, <2>1
<1>. QED  BY <1>2, <1>3

\* A cancellation is confirmed when the order was in the book; then it has been
\* through the exchange, and it is not the one that is being matched.
LEMMA ValidateCancelKeeps ==
  ASSUME Inv, ValidateCancel
  PROVE  Inv'
<1>1. PICK o : o = First("order").order
  OBVIOUS
<1>2. /\ q["order"] # <<>> /\ First("order").kind = "cancel" /\ Take("order")
      /\ resting' = RemoveFirst(resting, o) \/ resting' = resting
      /\ \/ /\ resting' = RemoveFirst(resting, o)
            /\ cancelReply' = [cancelReply EXCEPT ![o] = CancelOutcome(o)]
         \/ cancelReply' = [cancelReply EXCEPT ![o] = "failed"]
      /\ UNCHANGED <<team, side, running, deciding, reply, done, position, half, closing,
                     executed, booked, overlapped, taker, maker, dropped>>
  BY <1>1 DEF ValidateCancel, HasMessage
<1>3. "order" \in Queues
  BY DEF Queues
<1>4. /\ QueuesTyped' /\ q'["order"] = Tail(q["order"]) /\ q["order"] \in Seq(Msg)
      /\ \A i \in Queues \ {"order"} : q'[i] = q[i]
      /\ Fits("order", First("order"))
  BY <1>2, <1>3, TakeStep DEF Inv
<1>5. o \in Orders
  BY <1>1, <1>2, <1>4 DEF Fits
<1>6. /\ q'["match"] = q["match"] /\ q'["trade"] = q["trade"]
      /\ q'["position"] = q["position"] /\ Range(q'["order"]) \subseteq Range(q["order"])
  BY <1>2, <1>4, Taken DEF Queues
<1>7. /\ resting' \in Seq(Orders) /\ IsInjective(resting')
      /\ Range(resting') \subseteq Range(resting)
      /\ resting' = RemoveFirst(resting, o) => o \notin Range(resting')
      /\ race' \in {"none", "now", "past"}
  <2>1. race' \in {"none", "now", "past"}
    BY DEF ValidateCancel, Inv, ElseTyped
  <2>2. resting \in Seq(Orders) /\ IsInjective(resting)
    BY DEF Inv, ElseTyped, Book
  <2>. QED  BY <1>2, <1>5, <2>1, <2>2, RestingWithout
<1>8. /\ cancelReply' \in [Orders -> {"none", "asked", "ok", "failed"}]
      /\ \A x \in Orders : cancelReply'[x] = "ok" =>
           cancelReply[x] = "ok"
           \/ (x = o /\ o \in Range(resting) /\ o \notin Range(resting'))
  BY <1>2, <1>5, <1>7 DEF Inv, ElseTyped, CancelOutcome
<1>9. ElseTyped'
  BY <1>2, <1>7, <1>8 DEF Inv, ElseTyped
<1>10. Stages'
  <2>1. ASSUME NEW x \in Orders PROVE Stage(x)'
    <3>1. Stage(x)
      BY DEF Inv, Stages
    <3>2. /\ Has(q'["order"], "new", x) => Has(q["order"], "new", x)
          /\ Single(q'["order"], "new", x)
      BY <1>2, <1>4, <3>1, Taken DEF Stage
    <3>. QED  BY <1>2, <1>6, <3>1, <3>2 DEF Stage
  <2>. QED  BY <2>1 DEF Stages
<1>11. Trades' /\ Matching'
  BY <1>2, <1>7 DEF Inv, Trades, Matching
<1>12. Book'
  <2>1. o \in Range(resting) => o \in done /\ o # taker
    BY DEF Inv, Book
  <2>. QED  BY <1>2, <1>7, <1>8, <2>1 DEF Inv, Book
<1>13. Results'
  <2>1. ASSUME NEW i \in Queues, NEW x \in Range(q'[i]) PROVE Unbooked(x)'
    <3>1. x \in Range(q[i])
      BY <1>4, <1>6
    <3>. QED  BY <1>2, <3>1 DEF Inv, Results, Unbooked
  <2>. QED  BY <1>2, <2>1 DEF Inv, Results, Unbooked
<1>14. Replies'
  <2>1. Open => Open'
    BY <1>2, <1>4, <1>6, StaysOpen
  <2>. QED  BY <1>2, <1>6, <2>1 DEF Inv, Replies
<1>15. InFront'
  BY <1>2, <1>6 DEF Inv, InFront
<1>. QED  BY <1>4, <1>9, <1>10, <1>11, <1>12, <1>13, <1>14, <1>15 DEF Inv

-----------------------------------------------------------------------------
(* The matching thread, the publisher and the position tracker. *)

\* What is in front of the sentinel stays there when the first message is taken.
LEMMA InFrontStays ==
  ASSUME InFront, q["match"] \in Seq(Msg), q["match"] # <<>>,
         q'["match"] = Tail(q["match"]), reply' = reply
  PROVE  InFront'
<1>1. /\ Len(q["match"]) \in Nat \ {0} /\ DOMAIN q["match"] = 1..Len(q["match"])
      /\ DOMAIN q'["match"] = 1..(Len(q["match"]) - 1)
      /\ \A i \in 1..(Len(q["match"]) - 1) : q'["match"][i] = q["match"][i + 1]
  BY HeadTailProperties, LenProperties, EmptySeq
<1>2. ASSUME NEW i \in 1..(Len(q["match"]) - 1), NEW j \in 1..(Len(q["match"]) - 1),
             q["match"][i + 1].kind = "match",
             reply[q["match"][i + 1].order] = "accepted",
             q["match"][j + 1].kind = "stop"
      PROVE  i < j
  <2>1. i + 1 \in DOMAIN q["match"] /\ j + 1 \in DOMAIN q["match"]
    BY <1>1
  <2>2. i + 1 < j + 1
    BY <1>2, <2>1 DEF InFront
  <2>. QED  BY <1>1, <2>2
<1>3. ASSUME NEW i \in 1..(Len(q["match"]) - 1), NEW j \in 1..(Len(q["match"]) - 1),
             q'["match"][i].kind = "match", reply'[q'["match"][i].order] = "accepted",
             q'["match"][j].kind = "stop"
      PROVE  i < j
  <2>1. /\ q["match"][i + 1].kind = "match" /\ q["match"][j + 1].kind = "stop"
        /\ reply[q["match"][i + 1].order] = "accepted"
    BY <1>1, <1>3
  <2>. QED  BY <1>2, <2>1
<1>. QED  BY <1>1, <1>3 DEF InFront

\* The order goes into the exchange, which picks the first order of the book for
\* it, or none.
LEMMA StartMatchKeeps ==
  ASSUME Inv, StartMatch
  PROVE  Inv'
<1>1. PICK o, r : o = First("match").order /\ r = Head(resting)
  OBVIOUS
<1>2. /\ "matcher" \in running /\ taker = "none"
      /\ q["match"] # <<>> /\ First("match").kind = "match" /\ Take("match")
      /\ taker' = o /\ done' = done \cup {o}
      /\ \/ maker' = "none"
         \/ maker' = r /\ resting # <<>> /\ side[r] # side[o]
      /\ UNCHANGED <<team, side, running, deciding, reply, cancelReply, resting, position,
                     half, closing, executed, dropped, booked, overlapped>>
  BY <1>1 DEF StartMatch, HasMessage
<1>3. race' \in {"none", "now", "past"}
  BY DEF StartMatch
<1>4. "match" \in Queues
  BY DEF Queues
<1>5. /\ QueuesTyped' /\ q'["match"] = Tail(q["match"]) /\ q["match"] \in Seq(Msg)
      /\ Fits("match", First("match"))
      /\ \A i \in Queues \ {"match"} : q'[i] = q[i]
  BY <1>2, <1>4, TakeStep DEF Inv
<1>6. /\ q'["order"] = q["order"] /\ q'["trade"] = q["trade"]
      /\ q'["position"] = q["position"] /\ Range(q'["match"]) \subseteq Range(q["match"])
  BY <1>2, <1>5, Taken DEF Queues
<1>7. o \in Orders /\ o # "none"
  BY <1>1, <1>2, <1>5, OrdersAssumption DEF Fits
<1>8. /\ Has(q["match"], "match", o) /\ o \notin done /\ team[o] # "none"
      /\ ~Has(q["order"], "new", o) /\ o \notin Range(resting) /\ cancelReply[o] # "ok"
      /\ ~Has(q["trade"], "result", o) /\ ~Has(q["position"], "result", o)
      /\ half.order # o
  <2>1. Has(q["match"], "match", o)
    BY <1>1, <1>2, <1>5, Taken DEF First
  <2>. QED  BY <1>7, <2>1 DEF Inv, Stages, Stage, Book
<1>9. maker' # "none" =>
        /\ r \in Range(resting) /\ r \in Orders /\ r \in done /\ r # o
        /\ maker' = r /\ side[r] # side[o]
  <2>1. resting # <<>> => r \in Range(resting)
    BY <1>1, TailOfQueue DEF Inv, ElseTyped, Book
  <2>. QED  BY <1>2, <1>8, <2>1 DEF Inv, Book, ElseTyped
<1>10. ElseTyped'
  BY <1>2, <1>3, <1>7, <1>9 DEF Inv, ElseTyped
<1>11. Stages'
  <2>1. ASSUME NEW x \in Orders PROVE Stage(x)'
    <3>1. Stage(x)
      BY DEF Inv, Stages
    <3>2. /\ Has(q'["match"], "match", x) => Has(q["match"], "match", x) /\ x # o
          /\ Single(q'["match"], "match", x)
      BY <1>1, <1>2, <1>5, <3>1, Taken DEF Stage, First
    <3>. QED  BY <1>2, <1>6, <1>8, <3>1, <3>2 DEF Stage
  <2>. QED  BY <2>1 DEF Stages
<1>12. Book' /\ Trades'
  BY <1>2, <1>8 DEF Inv, Book, Trades
<1>13. Matching'
  <2>1. \A p \in executed : p[1] # o /\ p[2] # o
    BY <1>8 DEF Inv, Trades
  <2>2. ASSUME NEW p \in executed PROVE maker' \notin {p[1], p[2]}
    <3>1. p[1] \in Orders /\ p[2] \in Orders
      BY DEF Inv, ElseTyped
    <3>. QED  BY <1>9, <3>1, OrdersAssumption DEF Inv, Trades
  <2>. QED  BY <1>2, <1>7, <1>9, <2>1, <2>2 DEF Matching
<1>14. Results'
  <2>1. ASSUME NEW i \in Queues, NEW x \in Range(q'[i]) PROVE Unbooked(x)'
    <3>1. x \in Range(q[i])
      BY <1>5, <1>6
    <3>. QED  BY <1>2, <3>1 DEF Inv, Results, Unbooked
  <2>. QED  BY <1>2, <2>1 DEF Inv, Results, Unbooked
<1>15. Replies'
  <2>1. Open => Open'
    BY <1>2, <1>5, <1>6, StaysOpen
  <2>2. \A x : Has(q["match"], "match", x) => Has(q'["match"], "match", x) \/ x = o
    BY <1>1, <1>2, <1>5, Taken DEF First
  <2>. QED  BY <1>2, <2>1, <2>2 DEF Inv, Replies
<1>16. InFront'
  BY <1>2, <1>5, InFrontStays DEF Inv
<1>. QED  BY <1>5, <1>10, <1>11, <1>12, <1>13, <1>14, <1>15, <1>16 DEF Inv

\* The result of the match goes on the trade queue, behind all others.
LEMMA ResultPut ==
  ASSUME Inv, NEW m, taker \in Orders, Fits("trade", m), m.kind = "result",
         m.order = taker, Put("trade", m), taker' = "none",
         UNCHANGED <<team, side, running, deciding, reply, done, half, closing>>
  PROVE  /\ QueuesTyped' /\ Stages' /\ Replies' /\ InFront'
         /\ \A i \in Queues : \A x \in Range(q'[i]) : x = m \/ x \in Range(q[i])
<1>1. "trade" \in Queues /\ m # Stop
  BY Messages DEF Queues
<1>2. /\ QueuesTyped' /\ q'["trade"] = Append(q["trade"], m) /\ q["trade"] \in Seq(Msg)
      /\ m \in Msg /\ \A i \in Queues \ {"trade"} : q'[i] = q[i]
  BY <1>1, PutStep DEF Inv
<1>3. /\ q'["order"] = q["order"] /\ q'["match"] = q["match"]
      /\ q'["position"] = q["position"] /\ Range(q'["trade"]) = Range(q["trade"]) \cup {m}
  BY <1>2, Appended DEF Queues
<1>4. /\ taker \in done /\ half.order # taker
      /\ ~Has(q["trade"], "result", taker) /\ ~Has(q["position"], "result", taker)
  BY DEF Inv, Stages, Stage
<1>5. Stages'
  <2>1. ASSUME NEW x \in Orders PROVE Stage(x)'
    <3>1. Stage(x) /\ x # "none"
      BY OrdersAssumption DEF Inv, Stages
    <3>2. /\ Has(q'["trade"], "result", x) <=> Has(q["trade"], "result", x) \/ x = taker
          /\ Single(q'["trade"], "result", x)
      BY <1>2, <1>4, <3>1, Appended DEF Stage
    <3>. QED  BY <1>3, <1>4, <3>1, <3>2 DEF Stage
  <2>. QED  BY <2>1 DEF Stages
<1>6. Replies'
  <2>1. Open => Open'
    BY <1>1, <1>2, <1>3, StaysOpen
  <2>. QED  BY <1>3, <2>1 DEF Inv, Replies
<1>7. InFront'
  BY <1>3 DEF Inv, InFront
<1>8. ASSUME NEW i \in Queues, NEW x \in Range(q'[i]) PROVE x = m \/ x \in Range(q[i])
  BY <1>2, <1>3
<1>. QED  BY <1>2, <1>5, <1>6, <1>7, <1>8

\* The two orders trade; a cancellation may have taken the resting one out of the
\* book.
LEMMA FinishTradeKeeps ==
  ASSUME Inv, FinishTrade
  PROVE  Inv'
<1>1. PICK m : m = Message("result", taker, maker)
  OBVIOUS
<1>2. /\ taker # "none" /\ maker # "none" /\ executed' = executed \cup {<<taker, maker>>}
      /\ resting' = RemoveFirst(resting, maker) /\ Put("trade", m)
      /\ taker' = "none" /\ maker' = "none"
      /\ UNCHANGED <<team, side, running, deciding, reply, cancelReply, done, race,
                     position, half, closing, dropped, booked, overlapped>>
  BY <1>1 DEF FinishTrade
<1>3. /\ taker \in Orders /\ maker \in Orders /\ taker \in done /\ maker \in done
      /\ maker # taker /\ side[maker] # side[taker] /\ taker \notin Range(resting)
  BY <1>2 DEF Inv, ElseTyped, Matching, Stages, Stage, Book
<1>4. m.kind = "result" /\ m.order = taker /\ m.maker = maker /\ Fits("trade", m)
  BY <1>1, <1>3, Messages DEF Fits, Msg, Message, Kinds
<1>5. /\ QueuesTyped' /\ Stages' /\ Replies' /\ InFront'
      /\ \A i \in Queues : \A x \in Range(q'[i]) : x = m \/ x \in Range(q[i])
  BY <1>2, <1>3, <1>4, ResultPut
<1>6. /\ resting' \in Seq(Orders) /\ IsInjective(resting')
      /\ Range(resting') = Range(resting) \ {maker}
  BY <1>2, <1>3, RestingWithout
<1>7. "none" \notin Orders
  BY OrdersAssumption
<1>8. ElseTyped'
  BY <1>2, <1>3, <1>6 DEF Inv, ElseTyped
<1>9. Book'
  BY <1>2, <1>6, <1>7 DEF Inv, Book, ElseTyped
<1>10. ASSUME NEW p \in executed'
       PROVE  p \in executed \/ (p[1] = taker /\ p[2] = maker /\ p = <<taker, maker>>)
  BY <1>2
<1>11. \A p \in executed : /\ p[1] # taker /\ p[2] # taker
                           /\ p[1] # maker /\ p[2] # maker
  BY DEF Inv, Matching
<1>12. Trades'
  <2>1. IsFiniteSet(executed')
    BY <1>2, FS_AddElement DEF Inv, Trades
  <2>2. ASSUME NEW p \in executed'
        PROVE  /\ p[1] # p[2] /\ side[p[1]] # side[p[2]]
               /\ p[1] \in done /\ p[2] \in done
               /\ p[1] \notin Range(resting') /\ p[2] \notin Range(resting')
    BY <1>3, <1>6, <1>10 DEF Inv, Trades
  <2>3. ASSUME NEW p \in executed', NEW s \in executed',
               p[1] = s[1] \/ p[1] = s[2] \/ p[2] = s[1] \/ p[2] = s[2]
        PROVE  p = s
    <3>1. CASE p \in executed /\ s \in executed
      BY <2>3, <3>1 DEF Inv, Trades
    <3>2. CASE ~(p \in executed /\ s \in executed)
      BY <1>10, <1>11, <2>3, <3>2
    <3>. QED  BY <3>1, <3>2
  <2>. QED  BY <1>2, <2>1, <2>2, <2>3 DEF Trades
<1>13. Matching'
  <2>1. executed' \subseteq Orders \X Orders
    BY <1>8 DEF ElseTyped
  <2>. QED  BY <1>2, <1>7, <2>1 DEF Matching
<1>14. Results'
  <2>1. Unbooked(m)'
    <3>1. <<taker, maker>> \notin booked
      BY <1>11 DEF Inv, ElseTyped
    <3>. QED  BY <1>2, <1>4, <3>1 DEF Unbooked
  <2>2. \A x : Unbooked(x) => Unbooked(x)'
    BY <1>2 DEF Unbooked
  <2>3. Unbooked(half)'
    BY <1>2, <2>2 DEF Inv, Results, Unbooked
  <2>. QED  BY <1>5, <2>1, <2>2, <2>3 DEF Inv, Results
<1>. QED  BY <1>5, <1>8, <1>9, <1>12, <1>13, <1>14 DEF Inv

\* The order comes to rest.
LEMMA FinishRestKeeps ==
  ASSUME Inv, FinishRest
  PROVE  Inv'
<1>1. PICK m : m = Message("result", taker, "none")
  OBVIOUS
<1>2. /\ taker # "none" /\ maker = "none" /\ Put("trade", m) /\ taker' = "none"
      /\ resting' = Append(resting, taker) \/ resting' = resting
      /\ UNCHANGED <<team, side, running, deciding, reply, cancelReply, done, maker, race,
                     position, half, closing, executed, dropped, booked, overlapped>>
  BY <1>1 DEF FinishRest
<1>3. taker \in Orders /\ taker \in done /\ taker \notin Range(resting)
  BY <1>2 DEF Inv, ElseTyped, Stages, Stage, Book
<1>4. m.kind = "result" /\ m.order = taker /\ m.maker = "none" /\ Fits("trade", m)
  BY <1>1, <1>3, Messages DEF Fits, Msg, Message, Kinds
<1>5. /\ QueuesTyped' /\ Stages' /\ Replies' /\ InFront'
      /\ \A i \in Queues : \A x \in Range(q'[i]) : x = m \/ x \in Range(q[i])
  BY <1>2, <1>3, <1>4, ResultPut
<1>6. /\ resting' \in Seq(Orders) /\ IsInjective(resting')
      /\ Range(resting') \subseteq Range(resting) \cup {taker}
  <2>1. resting \in Seq(Orders) /\ IsInjective(resting)
    BY DEF Inv, ElseTyped, Book
  <2>2. CASE resting' = resting
    BY <2>1, <2>2
  <2>3. CASE resting' = Append(resting, taker)
    BY <1>3, <2>1, <2>3, AppendToQueue
  <2>. QED  BY <1>2, <2>2, <2>3
<1>7. "none" \notin Orders
  BY OrdersAssumption
<1>8. ElseTyped'
  BY <1>2, <1>3, <1>6 DEF Inv, ElseTyped
<1>9. Book'
  BY <1>2, <1>3, <1>6, <1>7 DEF Inv, Book, ElseTyped
<1>10. Trades'
  BY <1>2, <1>6 DEF Inv, Trades, Matching
<1>11. Matching'
  <2>1. executed \subseteq Orders \X Orders
    BY DEF Inv, ElseTyped
  <2>. QED  BY <1>2, <1>7, <2>1 DEF Matching
<1>12. Results'
  <2>1. Unbooked(m)'
    BY <1>4 DEF Unbooked
  <2>2. \A x : Unbooked(x) => Unbooked(x)'
    BY <1>2 DEF Unbooked
  <2>3. Unbooked(half)'
    BY <1>2, <2>2 DEF Inv, Results, Unbooked
  <2>. QED  BY <1>5, <2>1, <2>2, <2>3 DEF Inv, Results
<1>. QED  BY <1>5, <1>8, <1>9, <1>10, <1>11, <1>12 DEF Inv

\* The match raises: no result, and at most the resting order has gone.
LEMMA MatchRaisesKeeps ==
  ASSUME Inv, MatchRaises
  PROVE  Inv'
<1>1. /\ taker # "none" /\ taker' = "none" /\ maker' = "none"
      /\ UNCHANGED <<team, side, q, running, deciding, reply, cancelReply, done, race,
                     position, half, closing, executed, booked, overlapped>>
  BY DEF MatchRaises
<1>2. \/ resting' = resting /\ dropped' = dropped
      \/ /\ maker # "none" /\ dropped' = dropped \cup {<<taker, maker>>}
         /\ resting' \in {resting, RemoveFirst(resting, maker)}
  BY DEF MatchRaises
<1>3. taker \in Orders /\ (maker # "none" => maker \in Orders)
  BY <1>1 DEF Inv, ElseTyped
<1>4. /\ resting' \in Seq(Orders) /\ IsInjective(resting')
      /\ Range(resting') \subseteq Range(resting)
  <2>1. CASE resting' = resting
    BY <2>1 DEF Inv, ElseTyped, Book
  <2>2. CASE resting' # resting
    BY <1>2, <1>3, <2>2, RestingWithout
  <2>. QED  BY <2>1, <2>2
<1>5. dropped' \subseteq Orders \X Orders
  BY <1>2, <1>3 DEF Inv, ElseTyped
<1>6. QueuesTyped'
  BY <1>1 DEF Inv, QueuesTyped, Fits, Msg
<1>7. ElseTyped'
  BY <1>1, <1>4, <1>5 DEF Inv, ElseTyped
<1>8. "none" \notin Orders
  BY OrdersAssumption
<1>9. Stages'
  BY <1>1, <1>8 DEF Inv, Stages, Stage
<1>10. Book' /\ Trades'
  BY <1>1, <1>4, <1>8 DEF Inv, Book, Trades, ElseTyped
<1>11. Matching'
  <2>1. executed \subseteq Orders \X Orders
    BY DEF Inv, ElseTyped
  <2>. QED  BY <1>1, <1>8, <2>1 DEF Matching
<1>12. Results' /\ Replies' /\ InFront'
  BY <1>1 DEF Inv, Results, Unbooked, Replies, InFront, Open
<1>. QED  BY <1>6, <1>7, <1>9, <1>10, <1>11, <1>12 DEF Inv

\* The result goes from one queue to the next.
LEMMA PublishKeeps ==
  ASSUME Inv, Publish
  PROVE  Inv'
<1>1. PICK m : m = First("trade")
  OBVIOUS
<1>2. /\ q["trade"] # <<>> /\ m.kind = "result" /\ Forward("trade", "position", m)
      /\ UNCHANGED <<team, side, running, deciding, reply, cancelReply, resting, done,
                     position, half, closing, executed, booked, overlapped, taker,
                     maker, race, dropped>>
  BY <1>1 DEF Publish, matching, HasMessage
<1>3. "trade" \in Queues /\ "position" \in Queues \ {"trade"}
  BY DEF Queues
<1>4. q["trade"] \in Seq(Msg) /\ Fits("trade", m) /\ m \in Range(q["trade"])
  BY <1>1, <1>2, <1>3, Taken DEF Inv, QueuesTyped, First
<1>5. Fits("position", m) /\ m # Stop /\ m.order \in Orders
  BY <1>2, <1>4, Messages DEF Fits, Kinds
<1>6. /\ QueuesTyped' /\ q["position"] \in Seq(Msg) /\ m \in Msg
      /\ q'["trade"] = Tail(q["trade"]) /\ q'["position"] = Append(q["position"], m)
      /\ \A i \in Queues \ {"trade", "position"} : q'[i] = q[i]
  BY <1>2, <1>3, <1>5, ForwardStep DEF Inv
<1>7. /\ q'["order"] = q["order"] /\ q'["match"] = q["match"]
      /\ Range(q'["position"]) = Range(q["position"]) \cup {m}
      /\ Range(q'["trade"]) \subseteq Range(q["trade"])
  BY <1>2, <1>4, <1>6, Appended, Taken DEF Queues
<1>8. ElseTyped'
  BY <1>2 DEF Inv, ElseTyped
<1>9. Stages'
  <2>1. ASSUME NEW x \in Orders PROVE Stage(x)'
    <3>1. Stage(x)
      BY DEF Inv, Stages
    <3>2. /\ Has(q["trade"], "result", x) <=> Has(q'["trade"], "result", x) \/ x = m.order
          /\ x = m.order => ~Has(q'["trade"], "result", x)
          /\ Single(q'["trade"], "result", x)
      BY <1>1, <1>2, <1>4, <1>6, <3>1, Taken DEF Stage, First
    <3>3. /\ Has(q'["position"], "result", x) <=>
               Has(q["position"], "result", x) \/ x = m.order
          /\ x = m.order => ~Has(q["position"], "result", x)
      BY <1>2, <1>6, <3>1, <3>2, Appended DEF Stage
    <3>4. Single(q'["position"], "result", x)
      BY <1>2, <1>6, <3>1, <3>3, Appended DEF Stage
    <3>. QED  BY <1>2, <1>7, <3>1, <3>2, <3>3, <3>4 DEF Stage
  <2>. QED  BY <2>1 DEF Stages
<1>10. Book' /\ Trades' /\ Matching'
  BY <1>2 DEF Inv, Book, Trades, Matching
<1>11. Results'
  <2>1. ASSUME NEW i \in Queues, NEW x \in Range(q'[i]) PROVE Unbooked(x)'
    <3>1. x \in Range(q[i]) \/ x \in Range(q["trade"])
      BY <1>4, <1>6, <1>7
    <3>. QED  BY <1>2, <1>3, <3>1 DEF Inv, Results, Unbooked
  <2>. QED  BY <1>2, <2>1 DEF Inv, Results, Unbooked
<1>12. Replies'
  <2>1. Open => Open'
    BY <1>2, <1>5, <1>6, <1>7, StaysOpen
  <2>. QED  BY <1>2, <1>7, <2>1 DEF Inv, Replies
<1>13. InFront'
  BY <1>2, <1>7 DEF Inv, InFront
<1>. QED  BY <1>6, <1>8, <1>9, <1>10, <1>11, <1>12, <1>13 DEF Inv

\* The aggressor's half of a result is booked, or a result without a fill is
\* dropped.
LEMMA TrackAggressorKeeps ==
  ASSUME Inv, TrackAggressor
  PROVE  Inv'
<1>1. PICK m : m = First("position")
  OBVIOUS
<1>2. /\ half = NoTrade /\ q["position"] # <<>> /\ m.kind = "result" /\ Take("position")
      /\ \/ m.maker = "none" /\ position' = position /\ half' = half
         \/ /\ m.maker # "none" /\ half' = m
            /\ position' = [position EXCEPT ![team[m.order]] =
                              position[team[m.order]] + Delta(m.order)]
      /\ UNCHANGED <<team, side, running, deciding, reply, cancelReply, resting, done,
                     closing, executed, booked, overlapped, taker, maker, race,
                     dropped>>
  BY <1>1 DEF TrackAggressor, matching, HasMessage
<1>3. "position" \in Queues
  BY DEF Queues
<1>4. /\ QueuesTyped' /\ q'["position"] = Tail(q["position"]) /\ q["position"] \in Seq(Msg)
      /\ \A i \in Queues \ {"position"} : q'[i] = q[i]
      /\ Fits("position", m) /\ m \in Range(q["position"])
  BY <1>1, <1>2, <1>3, TakeStep DEF Inv
<1>5. /\ q'["order"] = q["order"] /\ q'["match"] = q["match"] /\ q'["trade"] = q["trade"]
      /\ Range(q'["position"]) \subseteq Range(q["position"])
  BY <1>2, <1>4, Taken DEF Queues
<1>6. m \in Msg /\ m.order \in Orders /\ m.maker \in Orders \cup {"none"}
  BY <1>2, <1>4 DEF Fits, Msg
<1>7. ElseTyped'
  <2>1. position' \in [Teams -> Int]
    <3>1. position \in [Teams -> Int] /\ Delta(m.order) \in Int
      BY DEF Inv, ElseTyped, Delta
    <3>. QED  BY <1>2, <3>1
  <2>2. /\ half' \in Msg
        /\ half' # NoTrade => half'.order \in Orders /\ half'.maker \in Orders
    BY <1>2, <1>6 DEF Inv, ElseTyped
  <2>. QED  BY <1>2, <2>1, <2>2 DEF Inv, ElseTyped
<1>8. Stages'
  <2>1. ASSUME NEW x \in Orders PROVE Stage(x)'
    <3>1. Stage(x)
      BY DEF Inv, Stages
    <3>2. /\ Has(q["position"], "result", x) <=>
               Has(q'["position"], "result", x) \/ x = m.order
          /\ x = m.order => ~Has(q'["position"], "result", x)
          /\ Single(q'["position"], "result", x)
      BY <1>1, <1>2, <1>4, <3>1, Taken DEF Stage, First
    <3>3. half'.order = x =>
            /\ x \in done /\ ~Has(q'["trade"], "result", x)
            /\ ~Has(q'["position"], "result", x)
      <4>1. CASE half' = half
        BY <1>5, <3>1, <3>2, <4>1 DEF Stage
      <4>2. CASE half' = m
        BY <1>5, <3>1, <3>2, <4>2 DEF Stage
      <4>. QED  BY <1>2, <4>1, <4>2
    <3>. QED  BY <1>2, <1>5, <3>1, <3>2, <3>3 DEF Stage
  <2>. QED  BY <2>1 DEF Stages
<1>9. Book' /\ Trades' /\ Matching'
  BY <1>2 DEF Inv, Book, Trades, Matching
<1>10. Results'
  <2>1. ASSUME NEW i \in Queues, NEW x \in Range(q'[i]) PROVE Unbooked(x)'
    <3>1. x \in Range(q[i])
      BY <1>4, <1>5
    <3>. QED  BY <1>2, <3>1 DEF Inv, Results, Unbooked
  <2>2. Unbooked(m) /\ Unbooked(half)
    BY <1>3, <1>4 DEF Inv, Results
  <2>3. Unbooked(half)'
    BY <1>2, <2>2 DEF Unbooked
  <2>. QED  BY <2>1, <2>3 DEF Results
<1>11. Replies'
  <2>1. Open => Open'
    BY <1>2, <1>4, <1>5, StaysOpen
  <2>. QED  BY <1>2, <1>5, <2>1 DEF Inv, Replies
<1>12. InFront'
  BY <1>2, <1>5 DEF Inv, InFront
<1>. QED  BY <1>4, <1>7, <1>8, <1>9, <1>10, <1>11, <1>12 DEF Inv

\* The counterparty's half is booked; no other result tells of that trade.
LEMMA TrackCounterpartyKeeps ==
  ASSUME Inv, TrackCounterparty
  PROVE  Inv'
<1>1. /\ half # NoTrade /\ position' = CounterpartyPosition /\ half' = NoTrade
      /\ booked' = booked \cup {<<half.order, half.maker>>}
      /\ UNCHANGED <<team, side, q, running, deciding, reply, cancelReply, resting,
                     done, closing, executed, overlapped, taker, maker, race,
                     dropped>>
  BY DEF TrackCounterparty, matching
<1>2. half.order \in Orders /\ half.maker \in Orders /\ half.maker # "none"
  BY <1>1, OrdersAssumption DEF Inv, ElseTyped
<1>3. <<half.order, half.maker>> \in executed
  BY <1>2 DEF Inv, Results, Unbooked
<1>4. /\ NoTrade \in Msg /\ NoTrade.order = "none" /\ NoTrade.maker = "none"
      /\ \A o \in Orders : o # "none"
  BY OrdersAssumption DEF NoTrade, Message, Msg
<1>5. QueuesTyped'
  BY <1>1 DEF Inv, QueuesTyped, Fits, Msg
<1>6. ElseTyped'
  <2>1. position' \in [Teams -> Int]
    <3>1. position \in [Teams -> Int]
      BY DEF Inv, ElseTyped
    <3>2. PICK d \in Int : d = Delta(half.order)
      BY DEF Delta
    <3>3. PICK t : t = team[half.maker]
      OBVIOUS
    <3>4. position' \in {position, [position EXCEPT ![t] = position[t] - d]}
      BY <1>1, <3>2, <3>3 DEF CounterpartyPosition
    <3>5. [position EXCEPT ![t] = position[t] - d] \in [Teams -> Int]
      <4>1. t \in Teams => position[t] - d \in Int
        BY <3>1, <3>2
      <4>. QED  BY <3>1, <4>1, Zenon
    <3>. QED  BY <3>1, <3>4, <3>5
  <2>. QED  BY <1>1, <1>3, <1>4, <2>1 DEF Inv, ElseTyped, Msg
<1>7. Stages'
  BY <1>1, <1>4 DEF Inv, Stages, Stage
<1>8. Book' /\ Trades' /\ Matching'
  BY <1>1 DEF Inv, Book, Trades, Matching
<1>9. Results'
  <2>1. ASSUME NEW i \in Queues, NEW x \in Range(q[i]), x.maker # "none"
        PROVE  x.order # half.order
    <3>1. x.kind = "result" /\ i \in {"trade", "position"} /\ x.order \in Orders
      BY <2>1 DEF Inv, QueuesTyped, Fits, Kinds, Queues
    <3>2. Has(q["trade"], "result", x.order) \/ Has(q["position"], "result", x.order)
      BY <2>1, <3>1 DEF Has
    <3>. QED  BY <1>2, <3>2 DEF Inv, Stages, Stage
  <2>2. ASSUME NEW i \in Queues, NEW x \in Range(q[i]) PROVE Unbooked(x)'
    <3>1. Unbooked(x)
      BY DEF Inv, Results
    <3>. QED  BY <1>1, <2>1, <3>1 DEF Unbooked
  <2>. QED  BY <1>1, <1>4, <2>2 DEF Results, Unbooked
<1>10. Replies'
  BY <1>1 DEF Inv, Replies, Open
<1>11. InFront'
  BY <1>1 DEF Inv, InFront
<1>. QED  BY <1>5, <1>6, <1>7, <1>8, <1>9, <1>10, <1>11 DEF Inv

-----------------------------------------------------------------------------
(* Shutdown. *)

\* A sentinel is put behind all the messages of a queue.
LEMMA PutSentinelKeeps ==
  ASSUME Inv, PutSentinel
  PROVE  Inv'
<1>1. PICK n : n = Head(closing)
  OBVIOUS
<1>2. /\ closing # <<>> /\ Put(n, Stop) /\ closing' = Tail(closing)
      /\ UNCHANGED <<team, side, running, deciding, reply, cancelReply, resting, done,
                     position, half, executed, booked, overlapped, taker, maker, race,
                     dropped>>
  BY <1>1 DEF PutSentinel, matching
<1>3. closing \in Seq(Queues)
  BY DEF Inv, ElseTyped
<1>4. n \in Queues /\ closing' \in Seq(Queues)
  BY <1>1, <1>2, <1>3, HeadTailProperties
<1>5. Fits(n, Stop)
  BY <1>4, Messages DEF Fits, Msg, Kinds, Queues, Stop, Message
<1>6. /\ QueuesTyped' /\ q'[n] = Append(q[n], Stop) /\ q[n] \in Seq(Msg) /\ Stop \in Msg
      /\ \A i \in Queues \ {n} : q'[i] = q[i]
  BY <1>2, <1>4, <1>5, PutStep DEF Inv
<1>7. /\ Range(q'[n]) = Range(q[n]) \cup {Stop}
      /\ Len(q[n]) \in Nat /\ DOMAIN q[n] = 1..Len(q[n])
      /\ DOMAIN q'[n] = 1..(Len(q[n]) + 1)
      /\ \A i \in 1..Len(q[n]) : q'[n][i] = q[n][i]
      /\ q'[n][Len(q[n]) + 1] = Stop
  BY <1>6, AppendProperties, AppendToQueue, LenProperties
<1>8. ASSUME NEW i \in Queues, NEW k \in {"new", "match", "result"}, NEW x
      PROVE  /\ Has(q'[i], k, x) <=> Has(q[i], k, x)
             /\ Single(q[i], k, x) => Single(q'[i], k, x)
  <2>1. CASE i = n
    <3>1. Stop.kind # k
      BY Messages
    <3>2. Has(Append(q[n], Stop), k, x) <=> Has(q[n], k, x)
      BY <1>6, <3>1, Appended
    <3>3. Single(q[n], k, x) => Single(Append(q[n], Stop), k, x)
      BY <1>6, <3>1, Appended
    <3>. QED  BY <1>6, <2>1, <3>2, <3>3
  <2>2. CASE i # n
    BY <1>6, <2>2
  <2>. QED  BY <2>1, <2>2
<1>9. ElseTyped'
  BY <1>2, <1>4 DEF Inv, ElseTyped
<1>10. Stages'
  <2>1. ASSUME NEW x \in Orders PROVE Stage(x)'
    <3>1. Stage(x)
      BY DEF Inv, Stages
    <3>2. \A i \in {"order", "match", "trade", "position"} : i \in Queues
      BY DEF Queues
    <3>. QED  BY <1>2, <1>8, <3>1, <3>2 DEF Stage
  <2>. QED  BY <2>1 DEF Stages
<1>11. Book' /\ Trades' /\ Matching'
  BY <1>2 DEF Inv, Book, Trades, Matching
<1>12. Results'
  <2>1. ASSUME NEW i \in Queues, NEW x \in Range(q'[i]) PROVE Unbooked(x)'
    <3>1. x = Stop \/ x \in Range(q[i])
      BY <1>6, <1>7
    <3>. QED  BY <1>2, <3>1, Messages DEF Inv, Results, Unbooked
  <2>. QED  BY <1>2, <2>1 DEF Inv, Results, Unbooked
<1>13. Replies'
  <2>1. ~Open
    BY <1>2 DEF Open
  <2>2. "match" \in Queues
    BY DEF Queues
  <2>. QED  BY <1>2, <1>8, <2>1, <2>2 DEF Inv, Replies
<1>14. InFront'
  <2>1. CASE n = "match"
    <3>1. ASSUME NEW i \in 1..(Len(q[n]) + 1), NEW j \in 1..(Len(q[n]) + 1),
                 q'[n][i].kind = "match", reply[q'[n][i].order] = "accepted",
                 q'[n][j].kind = "stop"
          PROVE  i < j
      <4>1. i \in 1..Len(q[n]) /\ q'[n][i] = q[n][i]
        BY <1>7, <3>1, Messages
      <4>2. CASE j = Len(q[n]) + 1
        BY <1>7, <4>1, <4>2
      <4>3. CASE j \in 1..Len(q[n])
        BY <1>7, <2>1, <3>1, <4>1, <4>3 DEF Inv, InFront
      <4>. QED  BY <1>7, <4>2, <4>3
    <3>. QED  BY <1>2, <1>7, <2>1, <3>1 DEF InFront
  <2>2. CASE n # "match"
    <3>1. q'["match"] = q["match"]
      BY <1>6, <2>2 DEF Queues
    <3>. QED  BY <1>2, <3>1 DEF Inv, InFront
  <2>. QED  BY <2>1, <2>2
<1>. QED  BY <1>6, <1>9, <1>10, <1>11, <1>12, <1>13, <1>14 DEF Inv

\* A thread stops at its sentinel; the matching thread has then put every order
\* through the exchange whose acceptance was told.
LEMMA StopThreadKeeps ==
  ASSUME Inv, NEW n \in Queues, StopThread(n)
  PROVE  Inv'
<1>1. PICK m : m = First(n)
  OBVIOUS
<1>2. /\ q[n] # <<>> /\ m.kind = "stop" /\ Take(n) /\ running' = running \ {Consumer[n]}
      /\ UNCHANGED <<team, side, deciding, reply, cancelReply, resting, done,
                     position, half, closing, executed, booked, overlapped, taker,
                     maker, race, dropped>>
  BY <1>1 DEF StopThread, matching, HasMessage
<1>3. /\ QueuesTyped' /\ q'[n] = Tail(q[n]) /\ q[n] \in Seq(Msg)
      /\ \A i \in Queues \ {n} : q'[i] = q[i]
      /\ Fits(n, m) /\ m \in Range(q[n])
  BY <1>1, <1>2, TakeStep DEF Inv
<1>4. m = Stop /\ Range(q'[n]) \subseteq Range(q[n]) /\ ~Open
  <2>1. m = Stop
    BY <1>2, <1>3 DEF Fits
  <2>2. Range(q'[n]) \subseteq Range(q[n])
    BY <1>2, <1>3, Taken
  <2>. QED  BY <1>3, <2>1, <2>2 DEF Open
<1>5. ASSUME NEW i \in Queues, NEW k \in {"new", "match", "result"}, NEW x
      PROVE  /\ Has(q'[i], k, x) <=> Has(q[i], k, x)
             /\ Single(q[i], k, x) => Single(q'[i], k, x)
  <2>1. CASE i = n
    <3>1. Head(q[n]).kind # k
      BY <1>1, <1>2 DEF First
    <3>. QED  BY <1>2, <1>3, <2>1, <3>1, Taken
  <2>2. CASE i # n
    BY <1>3, <2>2
  <2>. QED  BY <2>1, <2>2
<1>6. ElseTyped'
  BY <1>2 DEF Inv, ElseTyped
<1>7. Stages'
  <2>1. ASSUME NEW x \in Orders PROVE Stage(x)'
    <3>1. Stage(x)
      BY DEF Inv, Stages
    <3>2. \A i \in {"order", "match", "trade", "position"} : i \in Queues
      BY DEF Queues
    <3>. QED  BY <1>2, <1>5, <3>1, <3>2 DEF Stage
  <2>. QED  BY <2>1 DEF Stages
<1>8. Book' /\ Trades' /\ Matching'
  BY <1>2 DEF Inv, Book, Trades, Matching
<1>9. Results'
  <2>1. ASSUME NEW i \in Queues, NEW x \in Range(q'[i]) PROVE Unbooked(x)'
    <3>1. x \in Range(q[i])
      BY <1>3, <1>4
    <3>. QED  BY <1>2, <3>1 DEF Inv, Results, Unbooked
  <2>. QED  BY <1>2, <2>1 DEF Inv, Results, Unbooked
<1>10. /\ "match" \in Queues /\ (n # "match" => Consumer[n] # "matcher")
       /\ n = "match" => taker = "none"
  BY DEF Queues, Consumer, StopThread
<1>11. ASSUME n = "match", NEW x \in Orders, reply[x] = "accepted"
       PROVE  x \in done
  <2>1. SUFFICES ASSUME Has(q["match"], "match", x) PROVE FALSE
    BY <1>11 DEF Inv, Replies
  <2>2. /\ Len(q[n]) \in Nat \ {0} /\ DOMAIN q[n] = 1..Len(q[n]) /\ q[n][1] = m
    BY <1>1, <1>2, <1>3, HeadTailProperties, LenProperties, EmptySeq DEF First
  <2>3. PICK i \in 1..Len(q[n]) : q[n][i].kind = "match" /\ q[n][i].order = x
    BY <1>11, <2>1, <2>2 DEF Has, Range
  <2>4. 1 \in DOMAIN q["match"] /\ i \in DOMAIN q["match"]
    BY <1>11, <2>2
  <2>5. i < 1
    BY <1>2, <1>11, <2>2, <2>3, <2>4 DEF Inv, InFront
  <2>. QED  BY <2>2, <2>5
<1>12. Replies'
  <2>1. \A x \in Orders : reply[x] = "accepted" =>
          x \in done \/ ("matcher" \in running' /\ Has(q'["match"], "match", x))
    <3>1. CASE n = "match"
      BY <1>11, <3>1
    <3>2. CASE n # "match"
      BY <1>2, <1>5, <1>10, <3>2 DEF Inv, Replies
    <3>. QED  BY <3>1, <3>2
  <2>2. deciding # "none" => deciding \in done \/ Has(q'["match"], "match", deciding)
    BY <1>5, <1>10 DEF Inv, Replies
  <2>3. \A o \in Orders : team[o] # "none" => reply[o] # "none"
    BY <1>4 DEF Inv, Replies
  <2>4. taker # "none" => "matcher" \in running'
    BY <1>2, <1>10 DEF Inv, Replies
  <2>. QED  BY <1>2, <2>1, <2>2, <2>3, <2>4 DEF Replies
<1>13. InFront'
  <2>1. CASE n = "match"
    BY <1>2, <1>3, <2>1, InFrontStays DEF Inv
  <2>2. CASE n # "match"
    BY <1>2, <1>3, <1>10, <2>2 DEF Inv, InFront
  <2>. QED  BY <2>1, <2>2
<1>. QED  BY <1>3, <1>6, <1>7, <1>8, <1>9, <1>12, <1>13 DEF Inv

-----------------------------------------------------------------------------
(* The invariant holds in every reachable state. *)

LEMMA InitInv == Init => Inv
<1> SUFFICES ASSUME Init PROVE Inv
  OBVIOUS
<1>1. /\ \A n \in Queues : q[n] = <<>>
      /\ q \in [Queues -> Seq(Msg)]
  BY DEF Init
<1>2. \A o \in Orders : o # "none"
  BY OrdersAssumption
<1>3. /\ Range(<<>>) = {} /\ DOMAIN <<>> = {}
      /\ \A k, o : ~Has(<<>>, k, o) /\ Single(<<>>, k, o)
  BY DEF Range, Has, Single
<1>4. QueuesTyped
  BY <1>1, <1>3 DEF QueuesTyped
<1>5. NoTrade \in Msg /\ NoTrade.order = "none" /\ NoTrade.maker = "none"
  BY DEF NoTrade, Message, Msg
<1>6. ElseTyped
  BY <1>5 DEF Init, ElseTyped
<1>7. Stages
  BY <1>1, <1>2, <1>3, <1>5 DEF Init, Stages, Stage, Queues
<1>8. Book /\ Trades /\ Matching
  BY <1>2, <1>3, FS_EmptySet DEF Init, Book, Trades, Matching, IsInjective
<1>9. Results
  BY <1>1, <1>3, <1>5 DEF Init, Results, Unbooked
<1>10. Replies
  BY <1>1, <1>3 DEF Init, Replies, Open
<1>11. InFront
  BY <1>1, <1>3 DEF InFront, Queues
<1>. QED  BY <1>4, <1>6, <1>7, <1>8, <1>9, <1>10, <1>11 DEF Inv

LEMMA NextKeepsInv == Inv /\ [Next]_vars => Inv'
<1> SUFFICES ASSUME Inv, [Next]_vars PROVE Inv'
  OBVIOUS
<1>1. ASSUME NEW o \in Orders, NEW t \in Teams, NEW s \in {"buy", "sell"}, Submit(o, t, s)
      PROVE  Inv'
  BY <1>1, SubmitKeeps
<1>2. ASSUME NEW o \in Orders, AskCancel(o) \/ TimeOut(o) PROVE Inv'
  BY <1>2, AskCancelKeeps, TimeOutKeeps
<1>3. CASE ValidatorStep
  BY <1>3, ValidateAcceptKeeps, AnswerAcceptedKeeps, ValidateRejectKeeps,
     ValidateCancelKeeps DEF ValidatorStep
<1>4. CASE MatcherStep \/ Publish
  BY <1>4, StartMatchKeeps, FinishTradeKeeps, FinishRestKeeps, MatchRaisesKeeps,
     PublishKeeps DEF MatcherStep
<1>5. CASE TrackerStep
  BY <1>5, TrackAggressorKeeps, TrackCounterpartyKeeps DEF TrackerStep
<1>6. CASE StopCoordinator \/ PutSentinel
  BY <1>6, StopCoordinatorKeeps, PutSentinelKeeps
<1>7. ASSUME NEW n \in Queues, StopThread(n) PROVE Inv'
  BY <1>7, StopThreadKeeps
<1>8. CASE UNCHANGED vars
  <2>1. UNCHANGED <<team, side, q, running, deciding, reply, cancelReply, resting,
                    done, position, half, closing, executed, booked, overlapped,
                    taker, maker, race, dropped>>
    BY <1>8 DEF vars, matching
  <2>2. QueuesTyped' /\ ElseTyped' /\ Book' /\ Trades' /\ Matching'
    BY <2>1 DEF Inv, QueuesTyped, ElseTyped, Book, Trades, Matching, Fits, Msg
  <2>3. Stages'
    BY <2>1 DEF Inv, Stages, Stage
  <2>4. Results' /\ Replies' /\ InFront'
    BY <2>1 DEF Inv, Results, Unbooked, Replies, InFront, Open
  <2>. QED  BY <2>2, <2>3, <2>4 DEF Inv
<1>. QED  BY <1>1, <1>2, <1>3, <1>4, <1>5, <1>6, <1>7, <1>8 DEF Next

\* Every reachable state satisfies the invariant.
THEOREM Invariance == SafeSpec => []Inv
BY InitInv, NextKeepsInv, PTL DEF SafeSpec

\* The variables have their types: each queue carries only messages that its
\* consumer understands, and only trades made by the exchange are booked.
THEOREM TypeCorrect == SafeSpec => []TypeOK
<1>1. Inv => TypeOK
  BY DEF Inv, QueuesTyped, ElseTyped, Fits, TypeOK
<1>. QED  BY <1>1, Invariance, PTL

\* Once its cancellation was confirmed (handle_order_cancellation, on the
\* validator thread), the matching thread never picks an order again nor puts it
\* back in the book; it can trade only in the match that had picked it before.
THEOREM CancelledOrdersAreNotPicked == SafeSpec => CancelledIsNotPicked
<1>1. ASSUME Inv, Inv', [Next]_vars, NEW o \in Orders, cancelReply[o] = "ok"
      PROVE  /\ o \notin Range(resting')
             /\ maker' = o => maker = o
             /\ o # maker => TradesOf(o)' = TradesOf(o)
  <2>1. o \notin Range(resting) /\ o # taker /\ o # "none"
    BY <1>1, OrdersAssumption DEF Inv, Book
  <2>2. CASE StartMatch
    <3>1. resting' = resting /\ executed' = executed /\ dropped' = dropped
      BY <2>2 DEF StartMatch
    <3>2. maker' = "none" \/ maker' \in Range(resting)
      <4>1. resting # <<>> => Head(resting) \in Range(resting)
        BY <1>1, TailOfQueue DEF Inv, ElseTyped, Book
      <4>. QED  BY <2>2, <4>1 DEF StartMatch
    <3>. QED  BY <2>1, <3>1, <3>2 DEF TradesOf
  <2>3. CASE FinishTrade \/ FinishRest \/ MatchRaises
    <3>1. maker' = "none" /\ cancelReply' = cancelReply
      BY <2>3 DEF FinishTrade, FinishRest, MatchRaises
    <3>2. \A p \in executed' \cup dropped' :
            p \in executed \cup dropped \/ (p[1] = taker /\ p[2] = maker)
      BY <2>3 DEF FinishTrade, FinishRest, MatchRaises
    <3>3. executed \subseteq executed' /\ dropped \subseteq dropped'
      BY <2>3 DEF FinishTrade, FinishRest, MatchRaises
    <3>. QED  BY <1>1, <2>1, <3>1, <3>2, <3>3 DEF TradesOf, Inv, Book
  <2>4. CASE ValidateCancel
    <3>1. Range(resting') \subseteq Range(resting)
      <4>1. PICK x : x = First("order").order
        OBVIOUS
      <4>2. x \in Orders
        <5>1. q["order"] \in Seq(Msg) /\ "order" \in Queues
          BY <1>1 DEF Inv, QueuesTyped, Queues
        <5>2. Fits("order", First("order"))
          BY <1>1, <2>4, <5>1, Taken DEF ValidateCancel, HasMessage, Inv, QueuesTyped, First
        <5>. QED  BY <2>4, <4>1, <5>2 DEF ValidateCancel, HasMessage, Fits
      <4>3. resting' = resting \/ resting' = RemoveFirst(resting, x)
        BY <2>4, <4>1 DEF ValidateCancel
      <4>. QED  BY <1>1, <4>2, <4>3, RestingWithout
    <3>2. UNCHANGED <<maker, executed, dropped>>
      BY <2>4 DEF ValidateCancel
    <3>. QED  BY <2>1, <3>1, <3>2 DEF TradesOf
  <2>5. CASE \/ \E x \in Orders, t \in Teams, s \in {"buy", "sell"} : Submit(x, t, s)
             \/ \E x \in Orders : AskCancel(x) \/ TimeOut(x)
             \/ ValidateAccept \/ AnswerAccepted \/ ValidateReject \/ Publish
             \/ TrackerStep \/ StopCoordinator \/ PutSentinel
             \/ \E n \in Queues : StopThread(n)
             \/ UNCHANGED vars
    <3>1. UNCHANGED <<resting, maker, executed, dropped>>
      BY <2>5 DEF Submit, AskCancel, TimeOut, ValidateAccept, AnswerAccepted,
                  ValidateReject, Publish, TrackerStep, TrackAggressor, TrackCounterparty,
                  StopCoordinator, PutSentinel, StopThread, vars, matching
    <3>. QED  BY <2>1, <3>1 DEF TradesOf
  <2>. QED
    BY <1>1, <2>2, <2>3, <2>4, <2>5 DEF Next, ValidatorStep, MatcherStep
<1>2. Inv /\ Inv' /\ [Next]_vars =>
        [\A o \in Orders : cancelReply[o] = "ok" =>
           /\ o \notin Range(resting')
           /\ maker' = o => maker = o
           /\ o # maker => TradesOf(o)' = TradesOf(o)]_vars
  BY <1>1
<1>. QED  BY <1>2, Invariance, PTL DEF SafeSpec, CancelledIsNotPicked

\* An order whose acceptance was told is put through the exchange before the
\* matching thread stops, whatever the shutdown interrupts.
THEOREM ConfirmedOrdersAreMatched == SafeSpec => []ConfirmedIsMatched
<1>1. Inv => ConfirmedIsMatched
  BY OrdersAssumption DEF Inv, Replies, ConfirmedIsMatched
<1>. QED  BY <1>1, Invariance, PTL

-----------------------------------------------------------------------------
(* Positions. *)

\* A sum with one term more.
LEMMA GrowingSum ==
  ASSUME NEW S, IsFiniteSet(S), NEW x, x \notin S,
         NEW f \in [S -> Int], NEW g \in [S \cup {x} -> Int], \A y \in S : g[y] = f[y]
  PROVE  /\ SumFunctionOnSet(g, S \cup {x}) = SumFunctionOnSet(f, S) + g[x]
         /\ SumFunctionOnSet(f, S) \in Int
<1>1. \A y \in S \cup {x} : g[y] \in Int
  OBVIOUS
<1>2. SumFunctionOnSet(g, S \cup {x}) = SumFunctionOnSet(g, S) + g[x]
  BY <1>1, SumAdd
<1>3. SumFunctionOnSet(g, S) = SumFunctionOnSet(f, S)
  BY SumAgrees
<1>4. SumFunctionOnSet(f, S) \in Int
  BY SumType
<1>. QED  BY <1>2, <1>3, <1>4

\* A sum with one term less.
LEMMA ShrinkingSum ==
  ASSUME NEW S, IsFiniteSet(S), NEW x \in S,
         NEW f \in [S -> Int], NEW g \in [S \ {x} -> Int], \A y \in S \ {x} : g[y] = f[y]
  PROVE  /\ SumFunctionOnSet(f, S) = SumFunctionOnSet(g, S \ {x}) + f[x]
         /\ SumFunctionOnSet(g, S \ {x}) \in Int
<1>1. IsFiniteSet(S \ {x}) /\ x \notin S \ {x} /\ (S \ {x}) \cup {x} = S
  BY FS_Subset
<1>2. \A y \in S \ {x} : f[y] = g[y]
  OBVIOUS
<1>. QED  BY <1>1, <1>2, GrowingSum

\* A sum in which one term changes.
LEMMA ChangingSum ==
  ASSUME NEW S, IsFiniteSet(S), NEW x \in S,
         NEW f \in [S -> Int], NEW g \in [S -> Int], \A y \in S \ {x} : g[y] = f[y]
  PROVE  /\ SumFunctionOnSet(g, S) = SumFunctionOnSet(f, S) + (g[x] - f[x])
         /\ SumFunctionOnSet(f, S) \in Int
<1>1. \A y \in S : f[y] \in Int /\ g[y] \in Int
  OBVIOUS
<1>. QED  BY <1>1, SumUpdate, SumType

\* What trade p has still to move the position of team t by.
PartLeft(p, t) ==
  (IF half.order = p[1] THEN 0 ELSE AggressorPart(p, t)) + CounterpartyPart(p, t)

Moves(t) == [p \in executed |-> AggressorPart(p, t) + CounterpartyPart(p, t)]
MovesLeft(t) == [p \in executed \ booked |-> PartLeft(p, t)]

Position(t) == position[t] = Traded(t) - UnderWay(t)

LEMMA PartsAreNumbers ==
  ASSUME NEW t
  PROVE  /\ \A p : AggressorPart(p, t) \in Int /\ CounterpartyPart(p, t) \in Int
         /\ \A p : PartLeft(p, t) \in Int
         /\ Moves(t) \in [executed -> Int] /\ MovesLeft(t) \in [executed \ booked -> Int]
         /\ Traded(t) = SumFunctionOnSet(Moves(t), executed)
         /\ UnderWay(t) = SumFunctionOnSet(MovesLeft(t), executed \ booked)
<1>1. \A o : Delta(o) \in Int
  BY DEF Delta
<1>2. \A p : AggressorPart(p, t) \in Int /\ CounterpartyPart(p, t) \in Int
  BY <1>1 DEF AggressorPart, CounterpartyPart
<1>3. \A p : PartLeft(p, t) \in Int
  BY <1>2 DEF PartLeft
<1>4. Moves(t) \in [executed -> Int] /\ MovesLeft(t) \in [executed \ booked -> Int]
  BY <1>2, <1>3 DEF Moves, MovesLeft
<1>. QED  BY <1>2, <1>3, <1>4 DEF Traded, UnderWay, Moves, MovesLeft, PartLeft

LEMMA PartsAreNumbersNext ==
  ASSUME NEW t
  PROVE  /\ Moves(t)' \in [executed' -> Int]
         /\ MovesLeft(t)' \in [executed' \ booked' -> Int]
         /\ Traded(t)' = SumFunctionOnSet(Moves(t)', executed')
         /\ UnderWay(t)' = SumFunctionOnSet(MovesLeft(t)', executed' \ booked')
<1>1. \A o : Delta(o)' \in Int
  BY DEF Delta
<1>2. \A p : AggressorPart(p, t)' \in Int /\ CounterpartyPart(p, t)' \in Int
  BY <1>1 DEF AggressorPart, CounterpartyPart
<1>3. \A p : PartLeft(p, t)' \in Int
  BY <1>2 DEF PartLeft
<1>4. Moves(t)' \in [executed' -> Int] /\ MovesLeft(t)' \in [executed' \ booked' -> Int]
  BY <1>2, <1>3 DEF Moves, MovesLeft
<1>. QED  BY <1>2, <1>3, <1>4 DEF Traded, UnderWay, Moves, MovesLeft, PartLeft

\* A step that trades and books nothing; an order that is sent has not traded.
LEMMA NothingBooked ==
  ASSUME Inv, NEW t \in Teams, Position(t),
         UNCHANGED <<position, half, executed, booked>>,
         \A o \in done : team'[o] = team[o] /\ side'[o] = side[o]
  PROVE  Position(t)'
<1>1. \A p \in executed : p[1] \in done /\ p[2] \in done
  BY DEF Inv, Trades
<1>2. \A p \in executed : /\ AggressorPart(p, t)' = AggressorPart(p, t)
                          /\ CounterpartyPart(p, t)' = CounterpartyPart(p, t)
  BY <1>1 DEF AggressorPart, CounterpartyPart, Delta
<1>3. Moves(t)' = Moves(t) /\ MovesLeft(t)' = MovesLeft(t)
  BY <1>2 DEF Moves, MovesLeft, PartLeft
<1>4. Traded(t)' = Traded(t) /\ UnderWay(t)' = UnderWay(t)
  BY <1>3, PartsAreNumbers, PartsAreNumbersNext
<1>. QED  BY <1>4 DEF Position

\* A trade is under way to both positions.
LEMMA TradeMoves ==
  ASSUME Inv, FinishTrade, NEW t \in Teams, Position(t)
  PROVE  Position(t)'
<1>1. PICK p : p = <<taker, maker>>
  OBVIOUS
<1>2. /\ executed' = executed \cup {p} /\ taker \in Orders
      /\ UNCHANGED <<team, side, position, half, booked>>
  BY <1>1 DEF FinishTrade, Inv, ElseTyped
<1>3. CASE executed' = executed
  BY <1>2, <1>3, NothingBooked
<1>4. CASE executed' # executed
  <2>1. executed' = executed \cup {p} /\ p \notin executed
    BY <1>2, <1>4
  <2>2. half.order # p[1] /\ p \notin booked
    BY <1>1, <1>2, <2>1 DEF Inv, Stages, Stage, ElseTyped
  <2>3. \A x : /\ AggressorPart(x, t)' = AggressorPart(x, t)
               /\ CounterpartyPart(x, t)' = CounterpartyPart(x, t)
               /\ PartLeft(x, t)' = PartLeft(x, t)
    BY <1>2 DEF AggressorPart, CounterpartyPart, PartLeft, Delta
  <2>4. IsFiniteSet(executed) /\ IsFiniteSet(executed \ booked)
    BY FS_Subset DEF Inv, Trades
  <2>5. /\ Traded(t)' = Traded(t) + PartLeft(p, t) /\ Traded(t) \in Int
    <3>1. /\ \A x \in executed : Moves(t)'[x] = Moves(t)[x]
          /\ Moves(t)'[p] = PartLeft(p, t)
      BY <2>1, <2>2, <2>3 DEF Moves, PartLeft
    <3>2. Moves(t) \in [executed -> Int] /\ Moves(t)' \in [executed \cup {p} -> Int]
      BY <2>1, PartsAreNumbers, PartsAreNumbersNext
    <3>3. /\ SumFunctionOnSet(Moves(t)', executed \cup {p})
               = SumFunctionOnSet(Moves(t), executed) + Moves(t)'[p]
          /\ SumFunctionOnSet(Moves(t), executed) \in Int
      BY <2>1, <2>4, <3>1, <3>2, GrowingSum
    <3>. QED  BY <2>1, <3>1, <3>3, PartsAreNumbers, PartsAreNumbersNext
  <2>6. /\ UnderWay(t)' = UnderWay(t) + PartLeft(p, t) /\ UnderWay(t) \in Int
    <3>1. executed' \ booked' = (executed \ booked) \cup {p} /\ p \notin executed \ booked
      BY <1>2, <2>1, <2>2
    <3>2. /\ \A x \in executed \ booked : MovesLeft(t)'[x] = MovesLeft(t)[x]
          /\ MovesLeft(t)'[p] = PartLeft(p, t)
      BY <2>3, <3>1 DEF MovesLeft
    <3>3. /\ MovesLeft(t) \in [executed \ booked -> Int]
          /\ MovesLeft(t)' \in [(executed \ booked) \cup {p} -> Int]
      BY <3>1, PartsAreNumbers, PartsAreNumbersNext
    <3>4. /\ SumFunctionOnSet(MovesLeft(t)', (executed \ booked) \cup {p})
               = SumFunctionOnSet(MovesLeft(t), executed \ booked) + MovesLeft(t)'[p]
          /\ SumFunctionOnSet(MovesLeft(t), executed \ booked) \in Int
      BY <2>4, <3>1, <3>2, <3>3, GrowingSum
    <3>. QED  BY <3>1, <3>2, <3>4, PartsAreNumbers, PartsAreNumbersNext
  <2>7. position'[t] = position[t] /\ PartLeft(p, t) \in Int
    BY <1>2, PartsAreNumbers
  <2>. QED  BY <2>5, <2>6, <2>7 DEF Position
<1>. QED  BY <1>3, <1>4

\* The aggressor's part is booked.
LEMMA TrackAggressorMoves ==
  ASSUME Inv, TrackAggressor, NEW t \in Teams, Position(t)
  PROVE  Position(t)'
<1>1. PICK m : m = First("position")
  OBVIOUS
<1>2. /\ half = NoTrade /\ q["position"] # <<>> /\ m.kind = "result"
      /\ \/ m.maker = "none" /\ position' = position /\ half' = half
         \/ /\ m.maker # "none" /\ half' = m
            /\ position' = [position EXCEPT ![team[m.order]] =
                              position[team[m.order]] + Delta(m.order)]
      /\ UNCHANGED <<team, side, executed, booked>>
  BY <1>1 DEF TrackAggressor, matching, HasMessage
<1>3. CASE m.maker = "none"
  BY <1>2, <1>3, NothingBooked
<1>4. CASE m.maker # "none"
  <2>1. PICK p : p = <<m.order, m.maker>>
    OBVIOUS
  <2>2. p \in executed \ booked /\ half.order # p[1] /\ half'.order = p[1]
    <3>1. q["position"] \in Seq(Msg) /\ "position" \in Queues
      BY DEF Inv, QueuesTyped, Queues
    <3>2. m \in Range(q["position"])
      BY <1>1, <1>2, <3>1, Taken DEF First
    <3>3. Unbooked(m) /\ m.order \in Orders
      BY <1>2, <3>1, <3>2 DEF Inv, Results, QueuesTyped, Fits
    <3>4. half.order = "none"
      BY <1>2, Messages
    <3>. QED  BY <1>2, <1>4, <2>1, <3>3, <3>4, OrdersAssumption DEF Unbooked
  <2>3. \A x : /\ AggressorPart(x, t)' = AggressorPart(x, t)
               /\ CounterpartyPart(x, t)' = CounterpartyPart(x, t)
    BY <1>2 DEF AggressorPart, CounterpartyPart, Delta
  <2>4. Traded(t)' = Traded(t)
    <3>1. Moves(t)' = Moves(t)
      BY <1>2, <2>3 DEF Moves
    <3>. QED  BY <1>2, <3>1, PartsAreNumbers, PartsAreNumbersNext
  <2>5. \A x \in (executed \ booked) \ {p} : x[1] # half.order /\ x[1] # p[1]
    <3>1. \A x \in executed : x[1] \in Orders
      BY DEF Inv, ElseTyped
    <3>2. \A x \in executed : x[1] = p[1] => x = p
      BY <2>2 DEF Inv, Trades
    <3>. QED  BY <1>2, <3>1, <3>2, Messages, OrdersAssumption
  <2>6. UnderWay(t)' = UnderWay(t) - AggressorPart(p, t) /\ UnderWay(t) \in Int
    <3>1. \A x \in (executed \ booked) \ {p} : MovesLeft(t)'[x] = MovesLeft(t)[x]
      BY <1>2, <2>2, <2>3, <2>5 DEF MovesLeft, PartLeft
    <3>2. /\ MovesLeft(t)'[p] = 0 + CounterpartyPart(p, t)
          /\ MovesLeft(t)[p] = AggressorPart(p, t) + CounterpartyPart(p, t)
      BY <1>2, <2>2, <2>3 DEF MovesLeft, PartLeft
    <3>3. MovesLeft(t)'[p] - MovesLeft(t)[p] = -AggressorPart(p, t)
      BY <3>2, PartsAreNumbers
    <3>4. IsFiniteSet(executed \ booked) /\ executed' \ booked' = executed \ booked
      BY <1>2, FS_Subset DEF Inv, Trades
    <3>5. /\ UnderWay(t)' = UnderWay(t) + (MovesLeft(t)'[p] - MovesLeft(t)[p])
          /\ UnderWay(t) \in Int
      <4>1. /\ MovesLeft(t) \in [executed \ booked -> Int]
            /\ MovesLeft(t)' \in [executed \ booked -> Int]
        BY <3>4, PartsAreNumbers, PartsAreNumbersNext
      <4>2. /\ SumFunctionOnSet(MovesLeft(t)', executed \ booked)
                 = SumFunctionOnSet(MovesLeft(t), executed \ booked)
                     + (MovesLeft(t)'[p] - MovesLeft(t)[p])
            /\ SumFunctionOnSet(MovesLeft(t), executed \ booked) \in Int
        BY <2>2, <3>1, <3>4, <4>1, ChangingSum
      <4>. QED  BY <3>4, <4>2, PartsAreNumbers, PartsAreNumbersNext
    <3>. QED  BY <3>3, <3>5, PartsAreNumbers
  <2>7. position'[t] = position[t] + AggressorPart(p, t) /\ position[t] \in Int
    <3>1. position \in [Teams -> Int]
      BY DEF Inv, ElseTyped
    <3>. QED  BY <1>2, <1>4, <2>1, <3>1 DEF AggressorPart
  <2>8. Traded(t) \in Int /\ AggressorPart(p, t) \in Int
    BY SumType, PartsAreNumbers DEF Inv, Trades
  <2>. QED  BY <2>4, <2>6, <2>7, <2>8 DEF Position
<1>. QED  BY <1>3, <1>4

\* The counterparty's part is booked, and the trade with it.
LEMMA TrackCounterpartyMoves ==
  ASSUME Inv, TrackCounterparty, NEW t \in Teams, Position(t)
  PROVE  Position(t)'
<1>1. /\ half # NoTrade /\ position' = CounterpartyPosition /\ half' = NoTrade
      /\ booked' = booked \cup {<<half.order, half.maker>>}
      /\ UNCHANGED <<team, side, executed>>
  BY DEF TrackCounterparty, matching
<1>2. PICK p : p = <<half.order, half.maker>>
  OBVIOUS
<1>3. half.order \in Orders /\ half.maker \in Orders /\ half.maker # "none"
  BY <1>1, OrdersAssumption DEF Inv, ElseTyped
<1>4. p \in executed \ booked /\ half.order = p[1] /\ half.maker = p[2]
  BY <1>2, <1>3 DEF Inv, Results, Unbooked
<1>5. \A x : /\ AggressorPart(x, t)' = AggressorPart(x, t)
             /\ CounterpartyPart(x, t)' = CounterpartyPart(x, t)
  BY <1>1 DEF AggressorPart, CounterpartyPart, Delta
<1>6. Traded(t)' = Traded(t)
  <2>1. Moves(t)' = Moves(t)
    BY <1>1, <1>5 DEF Moves
  <2>. QED  BY <1>1, <2>1, PartsAreNumbers, PartsAreNumbersNext
<1>7. \A x \in (executed \ booked) \ {p} : x[1] # half.order /\ x[1] # half'.order
  <2>1. \A x \in executed : x[1] \in Orders
    BY DEF Inv, ElseTyped
  <2>2. \A x \in executed : x[1] = p[1] => x = p
    BY <1>4 DEF Inv, Trades
  <2>. QED  BY <1>1, <1>4, <2>1, <2>2, Messages, OrdersAssumption
<1>8. UnderWay(t) = UnderWay(t)' + CounterpartyPart(p, t) /\ UnderWay(t)' \in Int
  <2>1. \A x \in (executed \ booked) \ {p} : MovesLeft(t)'[x] = MovesLeft(t)[x]
    BY <1>1, <1>2, <1>5, <1>7 DEF MovesLeft, PartLeft
  <2>2. MovesLeft(t)[p] = CounterpartyPart(p, t)
    <3>1. MovesLeft(t)[p] = 0 + CounterpartyPart(p, t)
      BY <1>4 DEF MovesLeft, PartLeft
    <3>. QED  BY <3>1, PartsAreNumbers
  <2>3. IsFiniteSet(executed \ booked) /\ executed' \ booked' = (executed \ booked) \ {p}
    BY <1>1, <1>2, FS_Subset DEF Inv, Trades
  <2>4. /\ MovesLeft(t) \in [executed \ booked -> Int]
        /\ MovesLeft(t)' \in [(executed \ booked) \ {p} -> Int]
    BY <2>3, PartsAreNumbers, PartsAreNumbersNext
  <2>5. /\ SumFunctionOnSet(MovesLeft(t), executed \ booked)
             = SumFunctionOnSet(MovesLeft(t)', (executed \ booked) \ {p}) + MovesLeft(t)[p]
        /\ SumFunctionOnSet(MovesLeft(t)', (executed \ booked) \ {p}) \in Int
    BY <1>4, <2>1, <2>3, <2>4, ShrinkingSum
  <2>. QED  BY <2>2, <2>3, <2>5, PartsAreNumbers, PartsAreNumbersNext
<1>9. position'[t] = position[t] + CounterpartyPart(p, t) /\ position[t] \in Int
  <2>1. position \in [Teams -> Int]
    BY DEF Inv, ElseTyped
  <2>2. PICK d \in Int : d = Delta(half.order)
    BY DEF Delta
  <2>3. Delta(half.maker) = -d
    <3>1. side[half.order] # side[half.maker]
      BY <1>4 DEF Inv, Trades
    <3>. QED  BY <1>3, <2>2, <3>1 DEF Inv, ElseTyped, Delta
  <2>4. CASE team[half.maker] = team[half.order]
    BY <1>1, <1>4, <2>1, <2>4 DEF CounterpartyPosition, CounterpartyPart
  <2>5. CASE team[half.maker] # team[half.order]
    <3>1. position' = [position EXCEPT ![team[half.maker]] = position[team[half.maker]] - d]
      BY <1>1, <2>2, <2>5 DEF CounterpartyPosition
    <3>2. position'[t] = IF team[half.maker] = t THEN position[t] - d ELSE position[t]
      BY <2>1, <3>1
    <3>3. CounterpartyPart(p, t) = IF team[half.maker] = t THEN -d ELSE 0
      BY <1>4, <2>3, <2>5 DEF CounterpartyPart
    <3>. QED  BY <2>1, <3>2, <3>3
  <2>. QED  BY <2>4, <2>5
<1>10. Traded(t) \in Int /\ CounterpartyPart(p, t) \in Int
  BY SumType, PartsAreNumbers DEF Inv, Trades
<1>. QED  BY <1>6, <1>8, <1>9, <1>10 DEF Position

\* Every trade is booked exactly once for each of its teams, through three
\* threads and two queues: a position is the sum of what the trades moved it by,
\* less what is still under way (process_aggressor_position and
\* process_counterparty_position of the position tracker).
THEOREM PositionsAreThoseTraded == SafeSpec => []PositionsFollowTrades
<1> DEFINE I == Inv /\ \A t \in Teams : Position(t)
<1>1. Init => I
  <2> SUFFICES ASSUME Init PROVE \A t \in Teams : Position(t)
    BY InitInv
  <2>1. \A t \in Teams : Traded(t) = 0 /\ UnderWay(t) = 0
    BY SumEmpty, PartsAreNumbers DEF Init
  <2>. QED  BY <2>1 DEF Init, Position
<1>2. I /\ [Next]_vars => I'
  <2> SUFFICES ASSUME Inv, \A t \in Teams : Position(t), [Next]_vars, NEW t \in Teams
               PROVE  Position(t)'
    BY NextKeepsInv
  <2>1. ASSUME NEW o \in Orders, NEW u \in Teams, NEW s \in {"buy", "sell"}, Submit(o, u, s)
        PROVE  Position(t)'
    <3>1. /\ team[o] = "none" /\ UNCHANGED <<position, half, executed, booked>>
          /\ team' = [team EXCEPT ![o] = u] /\ side' = [side EXCEPT ![o] = s]
      BY <2>1 DEF Submit
    <3>2. o \notin done
      BY <3>1 DEF Inv, Stages, Stage
    <3>3. \A x \in done : team'[x] = team[x] /\ side'[x] = side[x]
      BY <3>1, <3>2 DEF Inv, ElseTyped
    <3>. QED  BY <3>1, <3>3, NothingBooked
  <2>2. CASE \/ \E o \in Orders : AskCancel(o) \/ TimeOut(o)
             \/ ValidatorStep \/ StartMatch \/ FinishRest \/ MatchRaises
             \/ Publish \/ StopCoordinator \/ PutSentinel
             \/ \E n \in Queues : StopThread(n)
             \/ UNCHANGED vars
    <3>1. UNCHANGED <<team, side, position, half, executed, booked>>
      BY <2>2 DEF AskCancel, TimeOut, ValidatorStep, ValidateAccept, AnswerAccepted,
                  ValidateReject, ValidateCancel, StartMatch, FinishRest, MatchRaises,
                  Publish, StopCoordinator, PutSentinel, StopThread, vars
    <3>. QED  BY <3>1, NothingBooked
  <2>3. CASE FinishTrade
    BY <2>3, TradeMoves
  <2>4. CASE TrackerStep
    BY <2>4, TrackAggressorMoves, TrackCounterpartyMoves DEF TrackerStep
  <2>. QED  BY <2>1, <2>2, <2>3, <2>4 DEF Next, MatcherStep
<1>3. I => PositionsFollowTrades
  BY DEF Position, PositionsFollowTrades
<1>. QED  BY <1>1, <1>2, <1>3, PTL DEF SafeSpec

-----------------------------------------------------------------------------
(* The position limit of a team whose orders come one at a time. *)

\* Order o was forwarded and may still change its team's position.
Alive(o) ==
  \/ Has(q["match"], "match", o)
  \/ o = taker \/ o = maker
  \/ o \in Range(resting)
  \/ \E p \in executed \ booked : o = p[1] \/ o = p[2]

LEMMA LiveMeans ==
  ASSUME Inv, NEW t
  PROVE  Live(t) = {o \in Orders : team[o] = t /\ Alive(o)}
<1>1. \A o \in Orders : o # "none"
  BY OrdersAssumption
<1>2. \A m \in Range(q["match"]) : m.kind = "match" \/ m.order = "none"
  BY Messages DEF Inv, QueuesTyped, Fits, Kinds, Queues
<1>3. ASSUME NEW o \in Orders
      PROVE  o \in {q["match"][i].order : i \in DOMAIN q["match"]}
               <=> Has(q["match"], "match", o)
  BY <1>1, <1>2 DEF Has, Range
<1>4. ASSUME NEW o
      PROVE  o \in UNION {{p[1], p[2]} : p \in executed \ booked}
               <=> \E p \in executed \ booked : o = p[1] \/ o = p[2]
  OBVIOUS
<1>. QED  BY <1>3, <1>4 DEF Live, Alive

LEMMA LiveMeansNext ==
  ASSUME Inv', NEW t
  PROVE  Live(t)' = {o \in Orders : team'[o] = t /\ Alive(o)'}
<1>1. \A o \in Orders : o # "none"
  BY OrdersAssumption
<1>2. \A m \in Range(q'["match"]) : m.kind = "match" \/ m.order = "none"
  BY Messages DEF Inv, QueuesTyped, Fits, Kinds, Queues
<1>3. ASSUME NEW o \in Orders
      PROVE  o \in {q'["match"][i].order : i \in DOMAIN q'["match"]}
               <=> Has(q'["match"], "match", o)
  BY <1>1, <1>2 DEF Has, Range
<1>4. ASSUME NEW o
      PROVE  o \in UNION {{p[1], p[2]} : p \in executed' \ booked'}
               <=> \E p \in executed' \ booked' : o = p[1] \/ o = p[2]
  OBVIOUS
<1>. QED  BY <1>3, <1>4 DEF Live, Alive

\* A step that books nothing and forwards no order of the team.
LEMMA StillInTurn ==
  ASSUME Inv, Inv', NEW t \in Teams, InTurn(t), UNCHANGED <<position, half>>,
         \A o \in Orders : team'[o] = t /\ Alive(o)' =>
           team[o] = t /\ Alive(o) /\ side'[o] = side[o]
  PROVE  InTurn(t)'
<1>1. \A a \in Live(t)' : a \in Live(t) /\ Delta(a)' = Delta(a)
  BY LiveMeans, LiveMeansNext DEF Delta
<1>. QED  BY <1>1 DEF InTurn

LEMMA SubmitInTurn ==
  ASSUME Inv, Inv', NEW o \in Orders, NEW u \in Teams, NEW s \in {"buy", "sell"},
         Submit(o, u, s), NEW t \in Teams, InTurn(t)
  PROVE  InTurn(t)'
<1>1. /\ team[o] = "none" /\ Put("order", Message("new", o, "none"))
      /\ UNCHANGED <<resting, position, half, executed, booked, taker, maker>>
      /\ team' = [team EXCEPT ![o] = u] /\ side' = [side EXCEPT ![o] = s]
  BY DEF Submit, matching
<1>2. q'["match"] = q["match"]
  BY <1>1 DEF Inv, QueuesTyped, Put, Queues
<1>3. \A x \in Orders : Alive(x)' => Alive(x)
  BY <1>1, <1>2 DEF Alive
<1>4. ~Alive(o)
  BY <1>1, OrdersAssumption DEF Inv, Stages, Stage, Book, Trades, Matching, Alive
<1>5. \A x \in Orders \ {o} : team'[x] = team[x] /\ side'[x] = side[x]
  BY <1>1 DEF Inv, ElseTyped
<1>. QED  BY <1>1, <1>3, <1>4, <1>5, StillInTurn

\* The first live order of a team is forwarded only when the position that its
\* fill leads to is within the limit.
LEMMA ValidateAcceptInTurn ==
  ASSUME Inv, Inv', ValidateAccept, NEW t \in Teams \ overlapped', InTurn(t)
  PROVE  InTurn(t)'
<1>1. PICK o : o = First("order").order
  OBVIOUS
<1>2. /\ q["order"] # <<>> /\ First("order").kind = "new" /\ WithinLimit(o)
      /\ Forward("order", "match", Validated(o))
      /\ overlapped' = IF Live(team[o]) # {} THEN overlapped \cup {team[o]}
                                             ELSE overlapped
      /\ UNCHANGED <<team, side, resting, position, half, executed, booked, taker, maker>>
  BY <1>1 DEF ValidateAccept, matching, HasMessage
<1>3. Validated(o).kind = "match" /\ Validated(o).order = o
  BY Messages DEF Validated
<1>4. /\ o \in Orders /\ Fits("order", First("order"))
      /\ "order" \in Queues /\ "match" \in Queues
  <2>1. q["order"] \in Seq(Msg) /\ "order" \in Queues /\ "match" \in Queues
    BY DEF Inv, QueuesTyped, Queues
  <2>2. Fits("order", First("order"))
    BY <1>2, <2>1, Taken DEF Inv, QueuesTyped, First
  <2>. QED  BY <1>1, <1>2, <2>1, <2>2 DEF Fits
<1>5. q'["match"] = Append(q["match"], Validated(o)) /\ q["match"] \in Seq(Msg)
  BY <1>2, <1>4 DEF Inv, QueuesTyped, Forward, Queues
<1>6. Validated(o) \in Msg
  BY <1>4 DEF Validated, Message, Msg
<1>7. \A x \in Orders : Alive(x)' => Alive(x) \/ x = o
  <2>1. \A x : Has(q'["match"], "match", x) => Has(q["match"], "match", x) \/ x = o
    BY <1>3, <1>5, <1>6, Appended
  <2>. QED  BY <1>2, <2>1 DEF Alive
<1>8. CASE team[o] # t
  BY <1>2, <1>7, <1>8, StillInTurn
<1>9. CASE team[o] = t
  <2>1. Live(t) = {}
    BY <1>2, <1>9
  <2>2. \A a \in Live(t)' : a = o
    BY <1>2, <1>7, <2>1, LiveMeans, LiveMeansNext
  <2>3. Delta(o)' = Delta(o)
    BY <1>2 DEF Delta
  <2>4. -Limit <= position'[t] + Delta(o)' /\ position'[t] + Delta(o)' <= Limit
    BY <1>2, <1>9, <2>3 DEF WithinLimit
  <2>. QED  BY <1>2, <2>2, <2>4 DEF InTurn
<1>. QED  BY <1>8, <1>9

\* Matching and cancelling make no order live.
LEMMA MatchInTurn ==
  ASSUME Inv, Inv', MatcherStep, NEW t \in Teams, InTurn(t)
  PROVE  InTurn(t)'
<1>1. UNCHANGED <<team, side, position, half, booked>>
  BY DEF MatcherStep, StartMatch, FinishTrade, FinishRest, MatchRaises
<1>2. "none" \notin Orders /\ q["match"] \in Seq(Msg) /\ resting \in Seq(Orders)
  BY OrdersAssumption DEF Inv, QueuesTyped, ElseTyped, Queues
<1>3. CASE StartMatch
  <2>1. PICK o : o = First("match").order
    OBVIOUS
  <2>2. /\ q["match"] # <<>> /\ First("match").kind = "match" /\ taker' = o
        /\ q' = [q EXCEPT !["match"] = Tail(q["match"])]
        /\ maker' = "none" \/ (resting # <<>> /\ maker' = Head(resting))
        /\ UNCHANGED <<resting, executed>>
    BY <1>3, <2>1 DEF StartMatch, HasMessage, Take
  <2>3. q'["match"] = Tail(q["match"])
    BY <2>2 DEF Inv, QueuesTyped, Queues
  <2>4. Has(q["match"], "match", o)
    BY <1>2, <2>1, <2>2, Taken DEF First
  <2>5. \A x : Has(q'["match"], "match", x) => Has(q["match"], "match", x)
    BY <1>2, <2>2, <2>3, Taken
  <2>6. maker' = "none" \/ maker' \in Range(resting)
    BY <1>2, <2>2, TailOfQueue DEF Inv, Book
  <2>7. \A x \in Orders : Alive(x)' => Alive(x)
    BY <1>1, <1>2, <2>2, <2>4, <2>5, <2>6 DEF Alive
  <2>. QED  BY <1>1, <2>7, StillInTurn
<1>4. CASE FinishTrade \/ FinishRest \/ MatchRaises
  <2>1. taker' = "none" /\ maker' = "none" /\ taker # "none"
    BY <1>4 DEF FinishTrade, FinishRest, MatchRaises
  <2>2. q'["match"] = q["match"]
    BY <1>4 DEF FinishTrade, FinishRest, MatchRaises, Put, Inv, QueuesTyped, Queues
  <2>3. \A p \in executed' : p \in executed \/ (p[1] = taker /\ p[2] = maker)
    BY <1>4 DEF FinishTrade, FinishRest, MatchRaises
  <2>4. Range(resting') \subseteq Range(resting) \cup {taker}
    <3>1. taker \in Orders /\ (maker # "none" => maker \in Orders)
      BY <2>1 DEF Inv, ElseTyped
    <3>2. \/ resting' = resting \/ resting' = Append(resting, taker)
          \/ maker # "none" /\ resting' = RemoveFirst(resting, maker)
      BY <1>4 DEF FinishTrade, FinishRest, MatchRaises
    <3>3. CASE resting' = resting
      BY <3>3
    <3>4. CASE resting' = Append(resting, taker)
      BY <1>2, <2>1, <3>1, <3>4, AppendToQueue
    <3>5. CASE maker # "none" /\ resting' = RemoveFirst(resting, maker)
      BY <3>1, <3>5, RestingWithout
    <3>. QED  BY <3>2, <3>3, <3>4, <3>5
  <2>5. \A x \in Orders : Alive(x)' => Alive(x)
    BY <1>1, <1>2, <2>1, <2>2, <2>3, <2>4 DEF Alive
  <2>. QED  BY <1>1, <2>5, StillInTurn
<1>. QED  BY <1>3, <1>4 DEF MatcherStep

LEMMA ValidateCancelInTurn ==
  ASSUME Inv, Inv', ValidateCancel, NEW t \in Teams, InTurn(t)
  PROVE  InTurn(t)'
<1>1. PICK o : o = First("order").order
  OBVIOUS
<1>2. /\ q["order"] # <<>> /\ First("order").kind = "cancel" /\ Take("order")
      /\ resting' = RemoveFirst(resting, o) \/ resting' = resting
      /\ UNCHANGED <<team, side, position, half, executed, booked, taker, maker>>
  BY <1>1 DEF ValidateCancel, HasMessage
<1>3. o \in Orders /\ q'["match"] = q["match"]
  <2>1. q["order"] \in Seq(Msg) /\ "order" \in Queues /\ "match" \in Queues
    BY DEF Inv, QueuesTyped, Queues
  <2>2. Fits("order", First("order"))
    BY <1>2, <2>1, Taken DEF Inv, QueuesTyped, First
  <2>. QED  BY <1>1, <1>2, <2>1, <2>2 DEF Fits, Take, Inv, QueuesTyped
<1>4. Range(resting') \subseteq Range(resting)
  BY <1>2, <1>3, RestingWithout
<1>5. \A x \in Orders : Alive(x)' => Alive(x)
  BY <1>2, <1>3, <1>4 DEF Alive
<1>. QED  BY <1>2, <1>5, StillInTurn

\* Sentinels are no orders.
LEMMA SentinelsAside ==
  ASSUME Inv, PutSentinel \/ \E n \in Queues : StopThread(n), NEW x
  PROVE  Has(q'["match"], "match", x) => Has(q["match"], "match", x)
<1>1. q \in [Queues -> Seq(Msg)] /\ "match" \in Queues
  BY DEF Inv, QueuesTyped, Queues
<1>2. CASE PutSentinel
  <2>1. q' = [q EXCEPT ![Head(closing)] = Append(q[Head(closing)], Stop)]
    BY <1>2 DEF PutSentinel, Put
  <2>2. Stop \in Msg /\ Stop.kind # "match"
    BY Messages DEF Stop, Message, Msg
  <2>3. Has(Append(q["match"], Stop), "match", x) <=> Has(q["match"], "match", x)
    BY <1>1, <2>2, Appended
  <2>. QED  BY <1>1, <2>1, <2>3
<1>3. ASSUME NEW n \in Queues, StopThread(n)
      PROVE  Has(q'["match"], "match", x) => Has(q["match"], "match", x)
  <2>1. q' = [q EXCEPT ![n] = Tail(q[n])] /\ q[n] # <<>>
    BY <1>3 DEF StopThread, Take, HasMessage
  <2>2. n = "match" =>
          (Has(Tail(q["match"]), "match", x) => Has(q["match"], "match", x))
    BY <1>1, <2>1, Taken
  <2>. QED  BY <1>1, <2>1, <2>2
<1>. QED  BY <1>2, <1>3

\* The position moves by the fill that its order was checked for.
LEMMA TrackAggressorInTurn ==
  ASSUME Inv, Inv', TrackAggressor, NEW t \in Teams, InTurn(t)
  PROVE  InTurn(t)'
<1>1. PICK m : m = First("position")
  OBVIOUS
<1>2. /\ half = NoTrade /\ q["position"] # <<>> /\ m.kind = "result" /\ Take("position")
      /\ \/ m.maker = "none" /\ position' = position /\ half' = half
         \/ /\ m.maker # "none" /\ half' = m
            /\ position' = [position EXCEPT ![team[m.order]] =
                              position[team[m.order]] + Delta(m.order)]
      /\ UNCHANGED <<team, side, resting, executed, booked, taker, maker>>
  BY <1>1 DEF TrackAggressor, matching, HasMessage
<1>3. /\ q'["match"] = q["match"] /\ q["position"] \in Seq(Msg)
      /\ "position" \in Queues /\ "match" \in Queues
  BY <1>2 DEF Inv, QueuesTyped, Take, Queues
<1>4. m.order \in Orders /\ Unbooked(m)
  <2>1. m \in Range(q["position"])
    BY <1>1, <1>2, <1>3, Taken DEF First
  <2>. QED  BY <1>2, <1>3, <2>1 DEF Inv, Results, QueuesTyped, Fits
<1>5. \A x \in Orders : /\ Alive(x)' <=> Alive(x)
                        /\ Delta(x)' = Delta(x) /\ half.order # x
  <2>1. half.order = "none"
    BY <1>2, Messages
  <2>. QED  BY <1>2, <1>3, <2>1, OrdersAssumption DEF Alive, Delta
<1>6. CASE m.maker = "none"
  BY <1>2, <1>5, <1>6, StillInTurn
<1>7. CASE m.maker # "none"
  <2>1. Live(t)' = Live(t) /\ \A a \in Live(t) : a \in Orders /\ team[a] = t
    <3>1. Live(t) = {x \in Orders : team[x] = t /\ Alive(x)}
      BY LiveMeans
    <3>2. Live(t)' = {x \in Orders : team[x] = t /\ Alive(x)'}
      BY <1>2, LiveMeansNext
    <3>. QED  BY <1>5, <3>1, <3>2
  <2>2. position' = [position EXCEPT ![team[m.order]] =
                       position[team[m.order]] + Delta(m.order)]
        /\ half'.order = m.order /\ position \in [Teams -> Int]
    BY <1>2, <1>7 DEF Inv, ElseTyped
  <2>3. CASE team[m.order] = t
    <3>1. m.order \in Live(t)
      <4>1. <<m.order, m.maker>> \in executed \ booked
        BY <1>4, <1>7 DEF Unbooked
      <4>2. Alive(m.order)
        BY <4>1 DEF Alive
      <4>. QED  BY <1>4, <2>3, <4>2, LiveMeans
    <3>2. position'[t] = position[t] + Delta(m.order)
      BY <2>2, <2>3
    <3>. QED  BY <1>5, <2>1, <2>2, <3>1, <3>2 DEF InTurn
  <2>4. CASE team[m.order] # t
    <3>1. position'[t] = position[t]
      BY <2>2, <2>4
    <3>. QED  BY <1>5, <2>1, <3>1 DEF InTurn
  <2>. QED  BY <2>3, <2>4
<1>. QED  BY <1>6, <1>7

\* Both orders of the trade are live until now, and no longer.
LEMMA TrackCounterpartyInTurn ==
  ASSUME Inv, Inv', TrackCounterparty, NEW t \in Teams, InTurn(t)
  PROVE  InTurn(t)'
<1>1. /\ half # NoTrade /\ position' = CounterpartyPosition /\ half' = NoTrade
      /\ booked' = booked \cup {<<half.order, half.maker>>}
      /\ UNCHANGED <<team, side, q, resting, executed, taker, maker>>
  BY DEF TrackCounterparty, matching
<1>2. PICK a, b : a = half.order /\ b = half.maker
  OBVIOUS
<1>3. a \in Orders /\ b \in Orders /\ b # "none"
  BY <1>1, <1>2, OrdersAssumption DEF Inv, ElseTyped
<1>4. <<a, b>> \in executed \ booked
  BY <1>2, <1>3 DEF Inv, Results, Unbooked
<1>5. /\ a # b /\ side[a] # side[b] /\ a \in done /\ b \in done
      /\ a \notin Range(resting) /\ b \notin Range(resting)
      /\ a \notin {taker, maker} /\ b \notin {taker, maker}
      /\ \A p \in executed : p[1] \in {a, b} \/ p[2] \in {a, b} => p = <<a, b>>
  BY <1>4 DEF Inv, Trades, Matching
<1>6. ~Alive(a)' /\ ~Alive(b)'
  <2>1. ~Has(q["match"], "match", a) /\ ~Has(q["match"], "match", b)
    BY <1>3, <1>5 DEF Inv, Stages, Stage
  <2>. QED  BY <1>1, <1>2, <1>5, <2>1 DEF Alive
<1>7. Alive(a) /\ Alive(b)
  BY <1>4 DEF Alive
<1>8. \A x \in Live(t)' : x \in Live(t) /\ x # a /\ x # b /\ Delta(x)' = Delta(x)
  <2>1. \A x \in Orders : Alive(x)' => Alive(x)
    BY <1>1 DEF Alive
  <2>. QED  BY <1>1, <1>6, <2>1, LiveMeans, LiveMeansNext DEF Delta
<1>9. position \in [Teams -> Int]
  BY DEF Inv, ElseTyped
<1>10. CASE position'[t] = position[t]
  BY <1>2, <1>8, <1>10 DEF InTurn
<1>11. CASE position'[t] # position[t]
  <2>1. PICK d \in Int : d = Delta(a)
    BY DEF Delta
  <2>2. position' = position
        \/ /\ team[b] # team[a]
           /\ position' = [position EXCEPT ![team[b]] = position[team[b]] - d]
    BY <1>1, <1>2, <2>1 DEF CounterpartyPosition
  <2>3. team[b] = t /\ position'[t] = position[t] - d
    BY <1>9, <1>11, <2>2
  <2>4. Delta(b) = -d
    BY <1>3, <1>5, <2>1 DEF Inv, ElseTyped, Delta
  <2>5. b \in Live(t)
    BY <1>3, <1>7, <2>3, LiveMeans
  <2>6. \A x \in Live(t)' : FALSE
    BY <1>8, <2>5 DEF InTurn
  <2>7. -Limit <= position[t] + Delta(b) /\ position[t] + Delta(b) <= Limit
    BY <1>2, <1>5, <2>5 DEF InTurn
  <2>8. -Limit <= position'[t] /\ position'[t] <= Limit
    BY <1>9, <2>1, <2>3, <2>4, <2>7
  <2>. QED  BY <2>6, <2>8 DEF InTurn
<1>. QED  BY <1>10, <1>11

\* A team that never has two live orders at a time is within its position limit
\* (WithinLimit, in the validator thread): no order of its own can fill between
\* the check and the booking.
THEOREM OneAtATimeIsWithinLimit == SafeSpec => []SequentialTeamsWithinLimit
<1> DEFINE I == Inv /\ TurnInv
<1>1. Init => I
  <2> SUFFICES ASSUME Init, NEW t \in Teams PROVE InTurn(t)
    BY InitInv DEF TurnInv
  <2>1. Live(t) = {}
    BY OrdersAssumption DEF Init, Live, Range, Queues
  <2>2. -Limit <= 0 /\ 0 <= Limit
    BY LimitAssumption
  <2>. QED  BY <2>1, <2>2 DEF Init, InTurn
<1>2. I /\ [Next]_vars => I'
  <2> SUFFICES ASSUME Inv, Inv', TurnInv, [Next]_vars, NEW t \in Teams \ overlapped'
               PROVE  InTurn(t)'
    BY NextKeepsInv DEF TurnInv
  <2>1. InTurn(t)
    <3>1. overlapped \subseteq overlapped'
      BY DEF Next, Submit, AskCancel, TimeOut, ValidatorStep, ValidateAccept,
             AnswerAccepted, ValidateReject, ValidateCancel, MatcherStep, StartMatch,
             FinishTrade, FinishRest, MatchRaises, Publish, TrackerStep, TrackAggressor,
             TrackCounterparty, StopCoordinator, PutSentinel, StopThread, vars
    <3>. QED  BY <3>1 DEF TurnInv
  <2>2. ASSUME NEW o \in Orders, NEW u \in Teams, NEW s \in {"buy", "sell"}, Submit(o, u, s)
        PROVE  InTurn(t)'
    BY <2>1, <2>2, SubmitInTurn
  <2>3. CASE ValidateAccept
    BY <2>1, <2>3, ValidateAcceptInTurn
  <2>4. CASE ValidateCancel
    BY <2>1, <2>4, ValidateCancelInTurn
  <2>5. CASE MatcherStep
    BY <2>1, <2>5, MatchInTurn
  <2>6. CASE TrackerStep
    BY <2>1, <2>6, TrackAggressorInTurn, TrackCounterpartyInTurn DEF TrackerStep
  <2>7. CASE \/ \E o \in Orders : AskCancel(o) \/ TimeOut(o)
             \/ AnswerAccepted \/ ValidateReject \/ Publish \/ StopCoordinator
             \/ UNCHANGED vars
    <3>1. UNCHANGED <<team, side, resting, position, half, executed, booked, taker, maker>>
      BY <2>7 DEF AskCancel, TimeOut, AnswerAccepted, ValidateReject, Publish,
                  StopCoordinator, vars, matching
    <3>2. q'["match"] = q["match"]
      BY <2>7 DEF AskCancel, TimeOut, AnswerAccepted, ValidateReject, Publish,
                  StopCoordinator, vars, Put, Take, Forward, Inv, QueuesTyped, Queues
    <3>3. \A x : Alive(x)' => Alive(x)
      BY <3>1, <3>2 DEF Alive
    <3>. QED  BY <2>1, <3>1, <3>3, StillInTurn
  <2>8. CASE PutSentinel \/ \E n \in Queues : StopThread(n)
    <3>1. UNCHANGED <<team, side, resting, position, half, executed, booked, taker, maker>>
      BY <2>8 DEF PutSentinel, StopThread, matching
    <3>2. \A x : Has(q'["match"], "match", x) => Has(q["match"], "match", x)
      BY <2>8, SentinelsAside
    <3>3. \A x : Alive(x)' => Alive(x)
      BY <3>1, <3>2 DEF Alive
    <3>. QED  BY <2>1, <3>1, <3>3, StillInTurn
  <2>. QED
    BY <2>2, <2>3, <2>4, <2>5, <2>6, <2>7, <2>8 DEF Next, ValidatorStep
<1>3. I => SequentialTeamsWithinLimit
  BY DEF TurnInv, InTurn, SequentialTeamsWithinLimit
<1>. QED  BY <1>1, <1>2, <1>3, PTL DEF SafeSpec
====
