---- MODULE PriorityBook ----
(***************************************************************************)
(* What an order book promises: an unordered set of resting orders in      *)
(* which an incoming order always trades with the opposite order of the    *)
(* best price and, among those, of the earliest arrival, until it is       *)
(* filled or no resting order has an acceptable price.  OrderBook          *)
(* implements it with sorted price levels, queues and look-up tables.      *)
(***************************************************************************)
EXTENDS Naturals, Sequences

CONSTANTS Orders, Prices, Quantities

Market == 0      \* the limit of an order without a price
NoOrder == "none"

VARIABLES
  arrived,    \* the orders submitted so far, in order
  side, limit, remaining,
  resting,    \* the set of orders in the book
  incoming    \* the order being matched

vars == <<arrived, side, limit, remaining, resting, incoming>>

Earlier(a, b) ==
  \E i, j \in 1..Len(arrived) : i < j /\ arrived[i] = a /\ arrived[j] = b

BetterPrice(a, b) ==
  IF side[a] = "buy" THEN limit[a] > limit[b] ELSE limit[a] < limit[b]

HasPriority(a, b) ==
  BetterPrice(a, b) \/ (limit[a] = limit[b] /\ Earlier(a, b))

\* The price of resting order m is acceptable to the incoming order o.
Matches(o, m) ==
  /\ side[m] # side[o]
  /\ \/ limit[o] = Market
     \/ IF side[o] = "buy" THEN limit[m] <= limit[o] ELSE limit[m] >= limit[o]

Init ==
  /\ arrived = <<>>
  /\ side = [o \in Orders |-> "buy"]
  /\ limit = [o \in Orders |-> Market]
  /\ remaining = [o \in Orders |-> 0]
  /\ resting = {}
  /\ incoming = NoOrder

Arrive(o) ==
  /\ incoming = NoOrder
  /\ \A i \in 1..Len(arrived) : arrived[i] # o
  /\ arrived' = Append(arrived, o)
  /\ \E s \in {"buy", "sell"} : side' = [side EXCEPT ![o] = s]
  /\ \E p \in Prices \cup {Market} : limit' = [limit EXCEPT ![o] = p]
  /\ \E q \in Quantities : remaining' = [remaining EXCEPT ![o] = q]
  /\ incoming' = o
  /\ UNCHANGED resting

Fill(o, m) ==
  /\ incoming = o
  /\ m \in resting
  /\ Matches(o, m)
  /\ \A n \in resting \ {m} : side[n] = side[m] => HasPriority(m, n)
  /\ LET q == IF remaining[o] < remaining[m] THEN remaining[o]
                                             ELSE remaining[m]
     IN /\ q > 0
        /\ remaining' = [remaining EXCEPT ![o] = @ - q, ![m] = @ - q]
        /\ resting' = IF remaining[m] = q THEN resting \ {m} ELSE resting
  /\ UNCHANGED <<arrived, side, limit, incoming>>

Settle(o) ==
  /\ incoming = o
  /\ remaining[o] = 0 \/ \A m \in resting : ~Matches(o, m)
  /\ resting' = IF remaining[o] > 0 /\ limit[o] # Market
                THEN resting \cup {o} ELSE resting
  /\ incoming' = NoOrder
  /\ UNCHANGED <<arrived, side, limit, remaining>>

Withdraw(o) ==
  /\ incoming = NoOrder
  /\ o \in resting
  /\ resting' = resting \ {o}
  /\ UNCHANGED <<arrived, side, limit, remaining, incoming>>

Next ==
  \/ \E o \in Orders : Arrive(o) \/ Settle(o) \/ Withdraw(o)
  \/ \E o, m \in Orders : Fill(o, m)

Spec == Init /\ [][Next]_vars
====
