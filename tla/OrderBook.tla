---- MODULE OrderBook ----
(***************************************************************************)
(* OrderBook and ContinuousMatchingEngine for one instrument: two lists of *)
(* price levels, each with a queue of orders and a running total, and two  *)
(* look-up tables over the orders in them.  One action is one call, except *)
(* that add_order is split where its matching loop is: Submit enters the   *)
(* loop, MatchStep is one iteration, MatchDone leaves it.                  *)
(*                                                                         *)
(* A list of levels is kept sorted by price and without duplicates, so it  *)
(* is modelled by the set of its prices; its front is the best of them.    *)
(***************************************************************************)
EXTENDS Integers, Sequences, FiniteSetsExt, SequencesExt

CONSTANTS
  Orders,       \* order ids
  Prices,       \* limit prices
  Quantities    \* order quantities

ASSUME OrdersAssumption == "none" \notin Orders
ASSUME PricesAssumption == Prices \subseteq Nat \ {0}
ASSUME QuantitiesAssumption == Quantities \subseteq Nat \ {0}

Sides == {"buy", "sell"}
Opposite(s) == IF s = "buy" THEN "sell" ELSE "buy"
Market == 0          \* price None
NoOrder == "none"

VARIABLES
  arrived,      \* history: the orders submitted, in order
  side, limit, quantity, remaining,    \* fields of an Order
  status,       \* status[o]: OrderResult.status of its submission
  level,        \* level[s]: the prices that have a PriceLevel in bids / asks
  queue,        \* queue[s][p]: PriceLevel.orders
  total,        \* total[s][p]: PriceLevel.total_quantity
  priceMap,     \* order_price_map, Market where there is no entry
  ids,          \* order_ids
  incoming,     \* the order being matched, if any
  trades        \* every Trade created so far

orderVars == <<arrived, side, limit, quantity>>
bookVars == <<level, queue, total, priceMap, ids>>
vars == <<orderVars, remaining, status, bookVars, incoming, trades>>

TypeOK ==
  /\ arrived \in Seq(Orders)
  /\ side \in [Orders -> Sides]
  /\ limit \in [Orders -> Prices \cup {Market}]
  /\ quantity \in [Orders -> Nat]
  /\ remaining \in [Orders -> Nat]
  /\ status \in [Orders -> {"none", "new", "partially_filled", "filled",
                         "pending_new", "rejected"}]
  /\ level \in [Sides -> SUBSET Prices]
  /\ queue \in [Sides -> [Prices -> Seq(Orders)]]
  /\ total \in [Sides -> [Prices -> Int]]
  /\ priceMap \in [Orders -> Prices \cup {Market}]
  /\ ids \subseteq Orders
  /\ incoming \in Orders \cup {NoOrder}

Init ==
  /\ arrived = <<>>
  /\ side = [o \in Orders |-> "buy"]
  /\ limit = [o \in Orders |-> Market]
  /\ quantity = [o \in Orders |-> 0]
  /\ remaining = [o \in Orders |-> 0]
  /\ status = [o \in Orders |-> "none"]
  /\ level = [s \in Sides |-> {}]
  /\ queue = [s \in Sides |-> [p \in Prices |-> <<>>]]
  /\ total = [s \in Sides |-> [p \in Prices |-> 0]]
  /\ priceMap = [o \in Orders |-> Market]
  /\ ids = {}
  /\ incoming = NoOrder
  /\ trades = <<>>

-----------------------------------------------------------------------------

\* Mutant: the levels are sorted the wrong way round.
IsWorst(s, p) ==
  /\ p \in level[s]
  /\ \A q \in level[s] : IF s = "buy" THEN p <= q ELSE q <= p

IsBest(s, p) ==
  /\ p \in level[s]
  /\ \A q \in level[s] : IF s = "buy" THEN q <= p ELSE p <= q

\* Mutant: an equal price does not match.
StrictlyBetter(o, p) ==
  \/ limit[o] = Market
  \/ IF side[o] = "buy" THEN p < limit[o] ELSE p > limit[o]

Acceptable(o, p) ==
  \/ limit[o] = Market
  \/ IF side[o] = "buy" THEN p <= limit[o] ELSE p >= limit[o]

\* A new Order object with a fresh id.
NewOrder(o, s, p, q) ==
  /\ quantity[o] = 0
  /\ side' = [side EXCEPT ![o] = s]
  /\ limit' = [limit EXCEPT ![o] = p]
  /\ quantity' = [quantity EXCEPT ![o] = q]
  /\ remaining' = [remaining EXCEPT ![o] = q]

\* add_order up to its matching loop.
AddOrder(o) ==
  /\ incoming = NoOrder
  /\ incoming' = o
  /\ arrived' = Append(arrived, o)

Submit(o, s, p, q) ==
  /\ NewOrder(o, s, p, q)
  /\ AddOrder(o)
  /\ UNCHANGED <<status, bookVars, trades>>

\* Mutants: the trade is made at the incoming order's price; it is recorded
\* with all that the incoming order has left.
TradeAtOwnPrice(o, m, p, q) ==
  [buyer  |-> IF side[o] = "buy" THEN o ELSE m,
   seller |-> IF side[o] = "buy" THEN m ELSE o,
   price  |-> limit[o], qty |-> q, aggressor |-> side[o]]

TradeOfRemaining(o, m, p, q) ==
  [buyer  |-> IF side[o] = "buy" THEN o ELSE m,
   seller |-> IF side[o] = "buy" THEN m ELSE o,
   price  |-> p, qty |-> remaining[o], aggressor |-> side[o]]

Trade(o, m, p, q) ==
  [buyer  |-> IF side[o] = "buy" THEN o ELSE m,
   seller |-> IF side[o] = "buy" THEN m ELSE o,
   price  |-> p,
   qty    |-> q,
   aggressor |-> side[o]]

\* Mutant: the resting order's own remainder is not looked at.
AllOfIncoming(o, m) == remaining[o]

FillQuantity(o, m) ==
  IF remaining[o] < remaining[m] THEN remaining[o] ELSE remaining[m]

\* Mutant: the price map keeps its entry.
RemoveFromQueueOnly(s, p, m) ==
  /\ queue' = [queue EXCEPT ![s][p] = Tail(@)]
  /\ level' = IF Len(queue[s][p]) = 1
              THEN [level EXCEPT ![s] = @ \ {p}] ELSE level
  /\ ids' = ids \ {m}
  /\ UNCHANGED priceMap

\* The front order m of queue[s][p] is filled: remove_order, and the level
\* goes with its last order.
RemoveFilled(s, p, m) ==
  /\ queue' = [queue EXCEPT ![s][p] = Tail(@)]
  /\ level' = IF Len(queue[s][p]) = 1
              THEN [level EXCEPT ![s] = @ \ {p}] ELSE level
  /\ ids' = ids \ {m}
  /\ priceMap' = [priceMap EXCEPT ![m] = Market]

\* One iteration of _match_order, at the front of the best opposite level.
MatchStep(o, p) ==
  LET s == Opposite(side[o])
      m == Head(queue[s][p])
      q == FillQuantity(o, m)
  IN /\ incoming = o
     /\ remaining[o] > 0
     /\ IsBest(s, p)
     /\ Acceptable(o, p)
     /\ trades' = Append(trades, Trade(o, m, p, q))
     /\ remaining' = [remaining EXCEPT ![o] = @ - q, ![m] = @ - q]
     /\ total' = [total EXCEPT ![s][p] = @ - q]
     /\ IF remaining[m] = q
        THEN RemoveFilled(s, p, m)
        ELSE UNCHANGED <<queue, level, ids, priceMap>>
     /\ UNCHANGED <<orderVars, status, incoming>>

\* Mutant: the level counts the order with its full quantity.
InsertFullQuantity(o) ==
  LET s == side[o]
      p == limit[o]
  IN /\ level' = [level EXCEPT ![s] = @ \cup {p}]
     /\ queue' = [queue EXCEPT ![s][p] = Append(@, o)]
     /\ total' = [total EXCEPT ![s][p] = @ + quantity[o]]
     /\ priceMap' = [priceMap EXCEPT ![o] = p]
     /\ ids' = ids \cup {o}

Insert(o) ==
  LET s == side[o]
      p == limit[o]
  IN /\ level' = [level EXCEPT ![s] = @ \cup {p}]
     /\ queue' = [queue EXCEPT ![s][p] = Append(@, o)]
     /\ total' = [total EXCEPT ![s][p] =
                    IF p \in level[s] THEN @ + remaining[o] ELSE remaining[o]]
     /\ priceMap' = [priceMap EXCEPT ![o] = p]
     /\ ids' = ids \cup {o}

\* Mutant: a filled order is put into the book as well.
RestsAlways(o) == limit[o] # Market

Rests(o) == remaining[o] > 0 /\ limit[o] # Market

\* The final status of an order that has been through the matching.
Outcome(o) == IF remaining[o] = 0 THEN "filled"
              ELSE IF remaining[o] < quantity[o] THEN "partially_filled"
              ELSE "new"

\* The loop ends; what is left of a limit order rests, what is left of a
\* market order is dropped, and the engine derives the status.
MatchDone(o) ==
  /\ incoming = o
  /\ remaining[o] = 0 \/ \A p \in level[Opposite(side[o])] : ~Acceptable(o, p)
  /\ IF Rests(o) THEN Insert(o) ELSE UNCHANGED bookVars
  /\ status' = [status EXCEPT ![o] = Outcome(o)]
  /\ incoming' = NoOrder
  /\ UNCHANGED <<orderVars, remaining, trades>>

\* _is_bid_price: the side of an order is inferred from its price alone.
SideOfPrice(p) == IF p \in level["buy"] THEN "buy" ELSE "sell"

\* cancel_order for an order that order_price_map knows.
Cancel(o) ==
  LET p == priceMap[o]
      s == SideOfPrice(p)
  IN /\ incoming = NoOrder
     /\ p # Market
     /\ p \in level[s]
     /\ \E i \in 1..Len(queue[s][p]) :
          /\ queue[s][p][i] = o
          /\ queue' = [queue EXCEPT ![s][p] = RemoveAt(@, i)]
     /\ total' = [total EXCEPT ![s][p] = @ - remaining[o]]
     /\ level' = IF Len(queue[s][p]) = 1
                 THEN [level EXCEPT ![s] = @ \ {p}] ELSE level
     /\ priceMap' = [priceMap EXCEPT ![o] = Market]
     /\ ids' = ids \ {o}
     /\ UNCHANGED <<orderVars, remaining, status, incoming, trades>>

Next ==
  \/ \E o \in Orders, s \in Sides, p \in Prices \cup {Market}, q \in Quantities :
       Submit(o, s, p, q)
  \/ \E o \in Orders, p \in Prices : MatchStep(o, p)
  \/ \E o \in Orders : MatchDone(o) \/ Cancel(o)

Spec == Init /\ [][Next]_vars

-----------------------------------------------------------------------------
(* Safety. *)

\* The best bid is below the best ask, also while an order is being matched.
\* Cancellation relies on it to find the side of an order by its price.
Uncrossed == \A b \in level["buy"], a \in level["sell"] : b < a

\* The two tables and the two lists describe the same orders, every queue has
\* an order at most once, and a level exists exactly while it has an order.
IndexAgrees ==
  /\ ids = {o \in Orders : priceMap[o] # Market}
  /\ \A s \in Sides, p \in Prices :
       /\ IsInjective(queue[s][p])
       /\ Range(queue[s][p]) = {o \in ids : side[o] = s /\ priceMap[o] = p}
       /\ p \in level[s] <=> queue[s][p] # <<>>

\* Only limit orders rest, at their own limit, with something left to fill.
RestingIsOpen == \A o \in ids : remaining[o] > 0 /\ priceMap[o] = limit[o]

\* The running total of a level is what its orders have left.
TotalsAgree ==
  \A s \in Sides, p \in Prices :
    total[s][p] = SumFunctionOnSet(remaining, Range(queue[s][p]))

\* cancel_order finds every order that rests: the level it looks up by price is
\* on the side of the order, although it is told the price alone.
RestingCanBeFound ==
  \A o \in ids :
    /\ priceMap[o] \in level[side[o]]
    /\ SideOfPrice(priceMap[o]) = side[o]

\* Levels, queues, totals and the two tables, which add_order, the matching
\* loop and cancel_order keep up on four separate paths, describe one book.
BookConsistent == IndexAgrees /\ RestingIsOpen /\ TotalsAgree /\ RestingCanBeFound

\* What an order has lost since submission is exactly what it traded: nothing
\* is filled twice, for both parties of every trade.
FillsOf(o) == {i \in DOMAIN trades : o \in {trades[i].buyer, trades[i].seller}}

FillsAccounted ==
  \A o \in Orders :
    quantity[o] - remaining[o] =
      SumFunctionOnSet([i \in DOMAIN trades |-> trades[i].qty], FillsOf(o))

PassiveParty(t) == IF t.aggressor = "buy" THEN t.seller ELSE t.buyer
ActiveParty(t)  == IF t.aggressor = "buy" THEN t.buyer ELSE t.seller

\* Both parties of a trade have accepted its price, which is the limit of the
\* passive party; that one was in the book before its aggressor arrived, so the
\* maker's and the taker's fee go to the right teams.
IsFair(t) ==
  /\ side[t.buyer] = "buy" /\ side[t.seller] = "sell"
  /\ limit[t.buyer] # Market => t.price <= limit[t.buyer]
  /\ limit[t.seller] # Market => t.price >= limit[t.seller]
  /\ t.price = limit[PassiveParty(t)]
  /\ \E j, k \in DOMAIN arrived :
       j < k /\ arrived[j] = PassiveParty(t) /\ arrived[k] = ActiveParty(t)

TradesAreFair == \A i \in DOMAIN trades : IsFair(trades[i])

\* The trades account for every fill, and each of them is fair.
TradesAccountForFills == FillsAccounted /\ TradesAreFair

\* The sorted levels and queues implement the priority book: every fill is
\* with the best price and, at that price, the earliest arrival.
Abstract == INSTANCE PriorityBook WITH resting <- ids
ImplementsPriority == Abstract!Spec
====
