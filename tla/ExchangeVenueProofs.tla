---- MODULE ExchangeVenueProofs ----
(***************************************************************************)
(* The venue keeps its book consistent and loses no open order, through    *)
(* the batch engine, the auction and the close; its auction keeps price    *)
(* priority; and, when the matching thread checks at least once in every   *)
(* phase, it carries nothing over to another day, and its auction trades   *)
(* the volume that the pricing strategy computes. The book's own steps are *)
(* those of OrderBookProofs; what is added are the auction, which fills    *)
(* orders outside the book, and the close, which empties it.               *)
(***************************************************************************)
EXTENDS ExchangeVenue, OrderBookProofs

-----------------------------------------------------------------------------
(* The invariants. *)

\* The book is consistent at the venue too, and the trades are records of its
\* orders.
BookKept == TypeOK /\ Book /\ trades \in Seq(Trades)

\* Orders that the auction has still to take.
Waiting == Range(buys) \cup Range(sells)

\* Between auctions no order of the batch is in the book or on its way there.
\* An auction takes each order of the batch once, and what is left of the others
\* is in the book.
InAuction ==
  /\ IsInjective(buys) /\ IsInjective(sells)
  /\ Range(buys) \subseteq OfSide("buy") /\ Range(sells) \subseteq OfSide("sell")
  /\ Waiting \cap ids = {} /\ incoming \notin Waiting
  /\ task = "crossing" => incoming = NoOrder
  /\ \A o \in batch : remaining[o] > 0 /\ limit[o] # Market =>
       o \in Waiting \cup ids \cup {incoming}

BatchKept ==
  /\ IsFiniteSet(batch)
  /\ task = "idle" => batch \cap ids = {} /\ incoming \notin batch
  /\ task # "idle" => InAuction

\* What the venue knows and the batch engine does not hold is in the book.
KnownKept ==
  /\ \A o \in known \cup batch : quantity[o] > 0
  /\ \A o \in known \ batch : remaining[o] > 0 /\ limit[o] # Market =>
       o \in ids \cup {incoming}

VenueInv == VenueTypeOK /\ BookKept /\ BatchKept /\ KnownKept

\* With a check in every phase: what the venue acts on is the phase of the last
\* check, at most one behind the clock, and it acts on the closed phase, or on
\* one with no batch, only when nothing is left.
Checked ==
  /\ cached = last /\ phase \in {last, NextPhase[last]}
  /\ cached = "closed" => ids = {} /\ batch = {} /\ Idle
  /\ batch # {} => cached = "pre_open" \/ task # "idle"

-----------------------------------------------------------------------------
(* The book's own steps. *)

\* Every step of the book keeps it consistent, and no trade is taken back.
LEMMA BookStep ==
  ASSUME BookKept, [Next]_vars
  PROVE  BookKept' /\ DOMAIN trades \subseteq DOMAIN trades'
<1>1. TypeOK' /\ Book'
  BY NextType, NextBook DEF BookKept
<1>2. CASE trades' = trades
  BY <1>1, <1>2 DEF BookKept
<1>3. ASSUME NEW o \in Orders, NEW p \in Prices, MatchStep(o, p)
      PROVE  trades' \in Seq(Trades) /\ DOMAIN trades \subseteq DOMAIN trades'
  <2>1. PICK s, m, q, t : /\ s = Opposite(side[o]) /\ m = Head(queue[s][p])
                          /\ q = FillQuantity(o, m) /\ t = Trade(o, m, p, q)
    OBVIOUS
  <2>2. m \in Orders /\ q \in Nat
    BY <1>3, <2>1, MatchFacts DEF BookKept
  <2>3. side[o] \in Sides
    BY DEF BookKept, TypeOK
  <2>4. t \in Trades
    BY <2>1, <2>2, <2>3 DEF Trade, Trades
  <2>5. trades' = Append(trades, t) /\ trades \in Seq(Trades)
    BY <1>3, <2>1 DEF MatchStep, BookKept
  <2>. QED  BY <2>4, <2>5, AppendProperties, LenProperties
<1>4. \/ trades' = trades
      \/ \E o \in Orders, p \in Prices : MatchStep(o, p)
  BY DEF Next, Submit, MatchDone, Cancel, vars
<1>. QED  BY <1>1, <1>2, <1>3, <1>4 DEF BookKept

\* A matching step takes nothing out of the book that could still trade.
LEMMA MatchStepTakesFilled ==
  ASSUME BookKept, NEW o \in Orders, NEW p \in Prices, MatchStep(o, p)
  PROVE  /\ ids' \subseteq ids /\ \A x \in ids \ ids' : remaining'[x] = 0
         /\ \A x \in Orders : remaining'[x] > 0 => remaining[x] > 0
<1>1. PICK s, m, q : /\ s = Opposite(side[o]) /\ m = Head(queue[s][p])
                     /\ q = FillQuantity(o, m)
  OBVIOUS
<1>2. /\ m \in Orders /\ m # o /\ q \in Nat \ {0} /\ q <= remaining[o] /\ q <= remaining[m]
      /\ remaining'[o] = remaining[o] - q /\ remaining'[m] = remaining[m] - q
      /\ \A r \in Orders \ {o, m} : remaining'[r] = remaining[r]
  BY <1>1, MatchFacts DEF BookKept
<1>3. remaining \in [Orders -> Nat]
  BY DEF BookKept, TypeOK
<1>4. ids' = ids \/ (ids' = ids \ {m} /\ remaining[m] = q)
  BY <1>1 DEF MatchStep, RemoveFilled
<1>5. ids' \subseteq ids /\ \A x \in ids \ ids' : remaining'[x] = 0
  BY <1>2, <1>3, <1>4
<1>6. remaining[o] > 0 /\ remaining[m] > 0
  BY <1>2, <1>3
<1>7. \A x \in Orders : remaining'[x] > 0 => remaining[x] > 0
  BY <1>2, <1>6
<1>. QED  BY <1>5, <1>7

\* A fresh order that goes no further than the venue.
LEMMA NewOrderKeeps ==
  ASSUME BookKept, NEW o \in Orders, NEW s \in Sides, NEW p \in Prices \cup {Market},
         NEW q \in Quantities, NewOrder(o, s, p, q),
         UNCHANGED <<arrived, bookVars, trades>>,
         incoming' = incoming, status' \in [Orders -> {"none", "new", "partially_filled",
                                              "filled", "pending_new", "rejected"}]
  PROVE  BookKept'
<1>1. TypeOK /\ Book /\ trades \in Seq(Trades)
  BY DEF BookKept
<1>2. UNCHANGED bookVars
  BY DEF bookVars
<1>3. Book'
  BY <1>1, <1>2, NewOrderKeepsBook
<1>4. q \in Nat
  BY QuantitiesAssumption
<1>5. TypeOK'
  BY <1>1, <1>4 DEF TypeOK, NewOrder, bookVars
<1>. QED  BY <1>1, <1>3, <1>5 DEF BookKept

\* Orders that exist keep their fields when one is sent.
LEMMA OthersStay ==
  ASSUME TypeOK, NEW o \in Orders, NEW s \in Sides, NEW p \in Prices \cup {Market},
         NEW q \in Quantities, NewOrder(o, s, p, q)
  PROVE  /\ quantity[o] = 0 /\ quantity'[o] > 0
         /\ \A x \in Orders \ {o} : /\ side'[x] = side[x] /\ limit'[x] = limit[x]
                                    /\ quantity'[x] = quantity[x]
                                    /\ remaining'[x] = remaining[x]
<1>1. q > 0
  BY QuantitiesAssumption
<1>. QED  BY <1>1 DEF NewOrder, TypeOK

-----------------------------------------------------------------------------
(* Submission and cancellation. *)

LEMMA SubmitRejectedKeeps ==
  ASSUME VenueInv, NEW o \in Orders, NEW s \in Sides, NEW p \in Prices \cup {Market},
         NEW q \in Quantities, SubmitRejected(o, s, p, q)
  PROVE  VenueInv'
<1>1. /\ task = "idle" /\ NewOrder(o, s, p, q)
      /\ status' = [status EXCEPT ![o] = "rejected"]
      /\ UNCHANGED <<arrived, bookVars, incoming, trades>>
      /\ UNCHANGED <<phase, cached, last, known, batch, task, buys, sells, published>>
  BY DEF SubmitRejected, Idle, venueVars
<1>2. TypeOK /\ Book /\ ids' = ids /\ known \subseteq Orders /\ batch \subseteq Orders
  BY <1>1 DEF VenueInv, BookKept, VenueTypeOK, bookVars
<1>3. status' \in [Orders -> {"none", "new", "partially_filled", "filled", "pending_new",
                              "rejected"}]
  BY <1>1, <1>2 DEF TypeOK
<1>4. BookKept'
  BY <1>1, <1>3, NewOrderKeeps DEF VenueInv
<1>5. /\ quantity[o] = 0 /\ quantity'[o] > 0
      /\ \A x \in Orders \ {o} : /\ side'[x] = side[x] /\ limit'[x] = limit[x]
                                 /\ quantity'[x] = quantity[x]
                                 /\ remaining'[x] = remaining[x]
  BY <1>1, <1>2, OthersStay
<1>6. VenueTypeOK'
  BY <1>1 DEF VenueInv, VenueTypeOK
<1>7. BatchKept'
  BY <1>1, <1>2 DEF VenueInv, BatchKept
<1>8. KnownKept'
  BY <1>1, <1>2, <1>5 DEF VenueInv, KnownKept
<1>. QED  BY <1>4, <1>6, <1>7, <1>8 DEF VenueInv

LEMMA SubmitToBatchKeeps ==
  ASSUME VenueInv, NEW o \in Orders, NEW s \in Sides, NEW p \in Prices \cup {Market},
         NEW q \in Quantities, SubmitToBatch(o, s, p, q)
  PROVE  VenueInv'
<1>1. /\ task = "idle" /\ incoming = NoOrder /\ NewOrder(o, s, p, q)
      /\ status' = [status EXCEPT ![o] = "pending_new"]
      /\ known' = known \cup {o} /\ batch' = batch \cup {o}
      /\ UNCHANGED <<arrived, bookVars, incoming, trades>>
      /\ UNCHANGED <<phase, cached, last, task, buys, sells, published>>
  BY DEF SubmitToBatch, Idle
<1>2. TypeOK /\ Book /\ ids' = ids /\ known \subseteq Orders /\ batch \subseteq Orders
  BY <1>1 DEF VenueInv, BookKept, VenueTypeOK, bookVars
<1>3. status' \in [Orders -> {"none", "new", "partially_filled", "filled", "pending_new",
                              "rejected"}]
  BY <1>1, <1>2 DEF TypeOK
<1>4. BookKept'
  BY <1>1, <1>3, NewOrderKeeps DEF VenueInv
<1>5. /\ quantity[o] = 0 /\ quantity'[o] > 0
      /\ \A x \in Orders \ {o} : /\ side'[x] = side[x] /\ limit'[x] = limit[x]
                                 /\ quantity'[x] = quantity[x]
                                 /\ remaining'[x] = remaining[x]
  BY <1>1, <1>2, OthersStay
<1>6. o \notin ids /\ o # NoOrder
  BY <1>2, <1>5, OrdersAssumption DEF Book, OrdersExist, NoOrder
<1>7. VenueTypeOK'
  BY <1>1 DEF VenueInv, VenueTypeOK
<1>8. BatchKept'
  <2>1. IsFiniteSet(batch')
    BY <1>1, FS_AddElement DEF VenueInv, BatchKept
  <2>. QED  BY <1>1, <1>2, <1>6, <2>1 DEF VenueInv, BatchKept
<1>9. KnownKept'
  BY <1>1, <1>2, <1>5 DEF VenueInv, KnownKept
<1>. QED  BY <1>4, <1>7, <1>8, <1>9 DEF VenueInv

LEMMA SubmitContinuousKeeps ==
  ASSUME VenueInv, NEW o \in Orders, NEW s \in Sides, NEW p \in Prices \cup {Market},
         NEW q \in Quantities, SubmitContinuous(o, s, p, q)
  PROVE  VenueInv'
<1>1. /\ task = "idle" /\ Submit(o, s, p, q) /\ known' = known \cup {o}
      /\ UNCHANGED <<phase, cached, last, batch, task, buys, sells, published>>
  BY DEF SubmitContinuous, Idle
<1>2. /\ incoming = NoOrder /\ incoming' = o /\ NewOrder(o, s, p, q)
      /\ UNCHANGED <<bookVars, trades>>
  BY <1>1 DEF Submit, AddOrder
<1>3. TypeOK /\ Book /\ ids' = ids /\ known \subseteq Orders /\ batch \subseteq Orders
  BY <1>2 DEF VenueInv, BookKept, VenueTypeOK, bookVars
<1>4. BookKept'
  BY <1>1, BookStep DEF VenueInv, Next
<1>5. /\ quantity[o] = 0 /\ quantity'[o] > 0
      /\ \A x \in Orders \ {o} : /\ side'[x] = side[x] /\ limit'[x] = limit[x]
                                 /\ quantity'[x] = quantity[x]
                                 /\ remaining'[x] = remaining[x]
  BY <1>2, <1>3, OthersStay
<1>6. o \notin batch
  BY <1>5 DEF VenueInv, KnownKept
<1>7. VenueTypeOK'
  BY <1>1, <1>2 DEF VenueInv, VenueTypeOK
<1>8. BatchKept'
  BY <1>1, <1>2, <1>3, <1>6 DEF VenueInv, BatchKept
<1>9. KnownKept'
  <2>1. \A x \in known : x # o
    BY <1>5 DEF VenueInv, KnownKept
  <2>2. \A x \in known \ batch : remaining[x] > 0 /\ limit[x] # Market => x \in ids
    BY <1>2, <1>3, OrdersAssumption DEF VenueInv, KnownKept, NoOrder
  <2>. QED  BY <1>1, <1>2, <1>3, <1>5, <2>1, <2>2 DEF VenueInv, KnownKept
<1>. QED  BY <1>4, <1>7, <1>8, <1>9 DEF VenueInv

LEMMA CancelOrderKeeps ==
  ASSUME VenueInv, NEW o \in Orders, CancelOrder(o)
  PROVE  VenueInv'
<1>1. /\ task = "idle" /\ Cancel(o) /\ known' = known \ {o}
      /\ UNCHANGED <<phase, cached, last, batch, task, buys, sells, published>>
  BY DEF CancelOrder, Idle
<1>2. ids' = ids \ {o} /\ UNCHANGED <<side, limit, quantity, remaining, incoming, trades>>
  BY <1>1 DEF Cancel, orderVars
<1>3. BookKept'
  BY <1>1, BookStep DEF VenueInv, Next
<1>4. VenueTypeOK'
  BY <1>1, <1>2 DEF VenueInv, VenueTypeOK
<1>5. BatchKept' /\ KnownKept'
  BY <1>1, <1>2 DEF VenueInv, BatchKept, KnownKept
<1>. QED  BY <1>3, <1>4, <1>5 DEF VenueInv

-----------------------------------------------------------------------------
(* Matching. *)

LEMMA MatchStepKeeps ==
  ASSUME VenueInv, NEW o \in Orders, NEW p \in Prices, MatchStep(o, p), UNCHANGED venueVars
  PROVE  VenueInv'
<1>1. /\ UNCHANGED <<phase, cached, last, known, batch, task, buys, sells, published>>
      /\ UNCHANGED <<side, limit, quantity, incoming>>
  BY DEF venueVars, MatchStep, orderVars
<1>2. BookKept' /\ DOMAIN trades \subseteq DOMAIN trades'
  BY BookStep DEF VenueInv, Next
<1>3. /\ ids' \subseteq ids /\ \A x \in ids \ ids' : remaining'[x] = 0
      /\ \A x \in Orders : remaining'[x] > 0 => remaining[x] > 0
  BY MatchStepTakesFilled DEF VenueInv
<1>4. known \subseteq Orders /\ batch \subseteq Orders
  BY DEF VenueInv, VenueTypeOK
<1>5. VenueTypeOK'
  BY <1>1, <1>2 DEF VenueInv, VenueTypeOK
<1>6. \A x \in Orders \cap ids : remaining'[x] > 0 => x \in ids'
  BY <1>3
<1>7. BatchKept'
  <2>1. InAuction => InAuction'
    BY <1>1, <1>3, <1>4, <1>6 DEF InAuction, Waiting, OfSide
  <2>. QED  BY <1>1, <1>3, <2>1 DEF VenueInv, BatchKept
<1>8. KnownKept'
  BY <1>1, <1>3, <1>4, <1>6 DEF VenueInv, KnownKept
<1>. QED  BY <1>2, <1>5, <1>7, <1>8 DEF VenueInv

LEMMA MatchDoneKeeps ==
  ASSUME VenueInv, NEW o \in Orders, MatchDone(o),
         published' = IF task = "idle" THEN published \cup TradesOf(o) ELSE published,
         UNCHANGED <<phase, cached, last, known, batch, task, buys, sells>>
  PROVE  VenueInv'
<1>1. /\ incoming = o /\ incoming' = NoOrder
      /\ UNCHANGED <<side, limit, quantity, remaining, trades>>
      /\ \/ remaining[o] > 0 /\ limit[o] # Market /\ ids' = ids \cup {o}
         \/ ~(remaining[o] > 0 /\ limit[o] # Market) /\ ids' = ids
  BY DEF MatchDone, Insert, Rests, orderVars, bookVars
<1>2. BookKept'
  BY BookStep DEF VenueInv, Next
<1>3. VenueTypeOK'
  BY <1>1 DEF VenueInv, VenueTypeOK, TradesOf
<1>4. NoOrder \notin Orders /\ known \subseteq Orders /\ batch \subseteq Orders
  BY OrdersAssumption DEF NoOrder, VenueInv, VenueTypeOK
<1>5. BatchKept'
  <2>1. CASE task = "idle"
    BY <1>1, <1>4, <2>1 DEF VenueInv, BatchKept
  <2>2. CASE task # "idle"
    <3>1. InAuction /\ o \notin Waiting /\ Waiting \subseteq batch
      BY <1>1, <2>2 DEF VenueInv, BatchKept, InAuction, Waiting, OfSide
    <3>2. UNCHANGED <<Waiting, OfSide("buy"), OfSide("sell")>>
      BY <1>1 DEF Waiting, OfSide
    <3>. QED  BY <1>1, <1>4, <2>2, <3>1, <3>2 DEF VenueInv, BatchKept, InAuction
  <2>. QED  BY <2>1, <2>2
<1>6. KnownKept'
  BY <1>1, <1>4 DEF VenueInv, KnownKept
<1>. QED  BY <1>2, <1>3, <1>5, <1>6 DEF VenueInv

-----------------------------------------------------------------------------
(* The opening auction. *)

\* The auction takes each order of a side once.
LEMMA SortedTakesAll ==
  ASSUME NEW S, IsFiniteSet(S), NEW f \in Sorted(S)
  PROVE  f \in Seq(S) /\ IsInjective(f) /\ Range(f) = S
<1>1. f \in [1..Cardinality(S) -> S] /\ \A i, j \in 1..Cardinality(S) : i # j => f[i] # f[j]
  BY DEF Sorted, SetToSeqs
<1>2. Cardinality(S) \in Nat
  BY FS_CardinalityType
<1>3. f \in Injection(1..Cardinality(S), S)
  BY <1>1 DEF Injection, IsInjective
<1>4. IsFiniteSet(1..Cardinality(S)) /\ Cardinality(1..Cardinality(S)) = Cardinality(S)
  BY <1>2, FS_Interval
<1>5. f \in Surjection(1..Cardinality(S), S)
  BY <1>3, <1>4, FS_Injection
<1>6. Range(f) = S
  BY <1>1, <1>5 DEF Surjection, Range
<1>7. f \in Seq(S)
  BY <1>1, <1>2, SeqDef
<1>. QED  BY <1>1, <1>6, <1>7 DEF IsInjective

\* A trade between the two orders in front, which are in no book.
LEMMA CrossStepKeeps ==
  ASSUME VenueInv, CrossStep
  PROVE  VenueInv'
<1>1. PICK b, s, q, t : /\ b = Head(buys) /\ s = Head(sells) /\ q = FillQuantity(b, s)
                        /\ t = Trade(b, s, limit[s], q)
  OBVIOUS
<1>2. /\ task = "crossing" /\ buys # <<>> /\ sells # <<>> /\ limit[s] # Market
      /\ trades' = Append(trades, t)
      /\ remaining' = [remaining EXCEPT ![b] = @ - q, ![s] = @ - q]
      /\ buys' = IF remaining[b] = q THEN Tail(buys) ELSE buys
      /\ sells' = IF remaining[s] = q THEN Tail(sells) ELSE sells
      /\ UNCHANGED <<orderVars, status, bookVars, incoming, phase, cached, last, known,
                     batch, task, published>>
  BY <1>1 DEF CrossStep, Crossing
<1>3. /\ UNCHANGED <<arrived, side, limit, quantity>>
      /\ UNCHANGED <<level, queue, total, priceMap, ids>>
  BY <1>2 DEF orderVars, bookVars
<1>4. TypeOK /\ Book /\ trades \in Seq(Trades) /\ InAuction /\ incoming = NoOrder
  BY <1>2 DEF VenueInv, BookKept, BatchKept, InAuction
<1>5. buys \in Seq(Orders) /\ sells \in Seq(Orders) /\ batch \subseteq Orders
  BY DEF VenueInv, VenueTypeOK
<1>6. /\ b \in Range(buys) /\ s \in Range(sells) /\ b \in Orders /\ s \in Orders
      /\ side[b] = "buy" /\ side[s] = "sell" /\ b # s /\ b \notin ids /\ s \notin ids
  BY <1>1, <1>2, <1>4, <1>5, TailOfQueue DEF InAuction, OfSide, Waiting
<1>7. remaining[b] \in Nat /\ remaining[s] \in Nat /\ limit[s] \in Prices
  BY <1>2, <1>4, <1>6 DEF TypeOK
<1>8. q \in Nat /\ q <= remaining[b] /\ q <= remaining[s]
  BY <1>1, <1>7 DEF FillQuantity
<1>9. remaining[b] - q \in Nat /\ remaining[s] - q \in Nat
  BY <1>7, <1>8
<1>10. /\ remaining' \in [Orders -> Nat]
       /\ remaining'[b] = remaining[b] - q /\ remaining'[s] = remaining[s] - q
       /\ \A x \in Orders \ {b, s} : remaining'[x] = remaining[x]
  BY <1>2, <1>4, <1>6, <1>9 DEF TypeOK
<1>11. /\ remaining[b] = q => remaining'[b] = 0
       /\ remaining[s] = q => remaining'[s] = 0
  BY <1>7, <1>8, <1>10
<1>12. TypeOK'
  BY <1>2, <1>3, <1>4, <1>10 DEF TypeOK
<1>13. Book'
  <2>1. ids \subseteq Orders /\ \A x \in ids : remaining'[x] = remaining[x]
    BY <1>4, <1>6, <1>10 DEF TypeOK
  <2>2. IndexAgrees'
    BY <1>3, <1>4 DEF Book, IndexAgrees
  <2>4. RestingIsOpen'
    BY <1>3, <1>4, <2>1 DEF Book, RestingIsOpen
  <2>5. Uncrossed' /\ OrdersExist'
    BY <1>2, <1>3, <1>4 DEF Book, Uncrossed, OrdersExist
  <2>3. TotalsAgree'
    <3>. SUFFICES ASSUME NEW d \in Sides, NEW p \in Prices
                  PROVE  total[d][p] = SumFunctionOnSet(remaining', Range(queue[d][p]))
      BY <1>3 DEF TotalsAgree
    <3>1. IsFiniteSet(Range(queue[d][p])) /\ Range(queue[d][p]) \subseteq ids
      BY <1>4, Queues DEF Book
    <3>2. \A x \in Range(queue[d][p]) : remaining[x] = remaining'[x]
      BY <2>1, <3>1
    <3>3. SumFunctionOnSet(remaining, Range(queue[d][p]))
            = SumFunctionOnSet(remaining', Range(queue[d][p]))
      BY <3>1, <3>2, SumAgrees
    <3>. QED  BY <1>4, <3>3 DEF Book, TotalsAgree
  <2>. QED  BY <2>2, <2>3, <2>4, <2>5 DEF Book
<1>14. trades' \in Seq(Trades) /\ DOMAIN trades \subseteq DOMAIN trades'
  <2>1. t \in Trades
    BY <1>1, <1>6, <1>7, <1>8 DEF Trade, Trades, Sides
  <2>. QED  BY <1>2, <1>4, <2>1, AppendProperties, LenProperties
<1>15. /\ buys' \in Seq(Orders) /\ IsInjective(buys') /\ Range(buys') \subseteq Range(buys)
       /\ \A x \in Range(buys) \ Range(buys') : x = b /\ remaining'[b] = 0
  BY <1>1, <1>2, <1>4, <1>5, <1>11, TailOfQueue DEF InAuction
<1>16. /\ sells' \in Seq(Orders) /\ IsInjective(sells')
       /\ Range(sells') \subseteq Range(sells)
       /\ \A x \in Range(sells) \ Range(sells') : x = s /\ remaining'[s] = 0
  BY <1>1, <1>2, <1>4, <1>5, <1>11, TailOfQueue DEF InAuction
<1>17. VenueTypeOK'
  BY <1>2, <1>14, <1>15, <1>16 DEF VenueInv, VenueTypeOK
<1>18. \A x \in Orders : remaining'[x] > 0 => remaining[x] > 0
  BY <1>7, <1>8, <1>9, <1>10
<1>19. BatchKept'
  <2>1. ASSUME NEW x \in batch, remaining'[x] > 0, limit[x] # Market
        PROVE  x \in Range(buys') \cup Range(sells') \cup ids \cup {incoming}
    <3>1. x \in Waiting \cup ids \cup {incoming}
      BY <1>4, <1>5, <1>18, <2>1 DEF InAuction
    <3>2. x \in Range(buys) => x \in Range(buys')
      BY <1>15, <2>1
    <3>3. x \in Range(sells) => x \in Range(sells')
      BY <1>16, <2>1
    <3>. QED  BY <3>1, <3>2, <3>3 DEF Waiting
  <2>2. InAuction'
    BY <1>2, <1>3, <1>4, <1>15, <1>16, <2>1 DEF InAuction, Waiting, OfSide
  <2>. QED  BY <1>2, <2>2 DEF VenueInv, BatchKept
<1>20. KnownKept'
  <2>1. known \subseteq Orders
    BY DEF VenueInv, VenueTypeOK
  <2>. QED  BY <1>2, <1>3, <1>18, <2>1 DEF VenueInv, KnownKept
<1>. QED  BY <1>12, <1>13, <1>14, <1>17, <1>19, <1>20 DEF VenueInv, BookKept

LEMMA CrossDoneKeeps ==
  ASSUME VenueInv, CrossDone
  PROVE  VenueInv'
<1>1. /\ task = "crossing" /\ task' = "adding"
      /\ UNCHANGED <<vars, phase, cached, last, known, batch, buys, sells, published>>
  BY DEF CrossDone
<1>2. BookKept'
  BY <1>1, BookStep DEF VenueInv
<1>3. UNCHANGED <<side, limit, quantity, remaining, ids, incoming, trades>>
  BY <1>1 DEF vars, orderVars, bookVars
<1>4. VenueTypeOK'
  BY <1>1, <1>3 DEF VenueInv, VenueTypeOK
<1>5. BatchKept' /\ KnownKept'
  BY <1>1, <1>3 DEF VenueInv, BatchKept, KnownKept, InAuction, Waiting, OfSide
<1>. QED  BY <1>2, <1>4, <1>5 DEF VenueInv

\* The next left-over order goes into continuous matching.
LEMMA AddLeftoverKeeps ==
  ASSUME VenueInv, AddLeftover
  PROVE  VenueInv'
<1>1. PICK o : o = IF buys # <<>> THEN Head(buys) ELSE Head(sells)
  OBVIOUS
<1>2. /\ task = "adding" /\ (buys # <<>> \/ sells # <<>>)
      /\ incoming = NoOrder /\ incoming' = o /\ arrived' = Append(arrived, o)
      /\ \/ buys # <<>> /\ buys' = Tail(buys) /\ sells' = sells
         \/ buys = <<>> /\ buys' = buys /\ sells' = Tail(sells)
      /\ UNCHANGED <<side, limit, quantity, remaining, status, bookVars, trades, phase,
                     cached, last, known, batch, task, published>>
  BY <1>1 DEF AddLeftover, AddOrder
<1>3. UNCHANGED <<level, queue, total, priceMap, ids>>
  BY <1>2 DEF bookVars
<1>4. TypeOK /\ Book /\ trades \in Seq(Trades) /\ InAuction
  BY <1>2 DEF VenueInv, BookKept, BatchKept
<1>5. buys \in Seq(Orders) /\ sells \in Seq(Orders)
  BY DEF VenueInv, VenueTypeOK
<1>6. Range(buys) \cap Range(sells) = {}
  BY <1>4 DEF InAuction, OfSide
<1>7. /\ o \in Waiting /\ buys' \in Seq(Orders) /\ sells' \in Seq(Orders)
      /\ IsInjective(buys') /\ IsInjective(sells')
      /\ Range(buys') \subseteq Range(buys) /\ Range(sells') \subseteq Range(sells)
      /\ Range(buys') \cup Range(sells') = Waiting \ {o}
  <2>1. CASE buys # <<>> /\ buys' = Tail(buys) /\ sells' = sells
    <3>1. /\ o \in Range(buys) /\ Tail(buys) \in Seq(Orders) /\ IsInjective(Tail(buys))
          /\ Range(Tail(buys)) = Range(buys) \ {o}
      BY <1>1, <1>4, <1>5, <2>1, TailOfQueue DEF InAuction
    <3>. QED  BY <1>4, <1>5, <1>6, <2>1, <3>1 DEF InAuction, Waiting
  <2>2. CASE buys = <<>> /\ buys' = buys /\ sells' = Tail(sells)
    <3>1. /\ o \in Range(sells) /\ Tail(sells) \in Seq(Orders) /\ IsInjective(Tail(sells))
          /\ Range(Tail(sells)) = Range(sells) \ {o}
      BY <1>1, <1>2, <1>4, <1>5, <2>2, TailOfQueue DEF InAuction
    <3>. QED  BY <1>4, <1>5, <1>6, <2>2, <3>1 DEF InAuction, Waiting
  <2>. QED  BY <1>2, <2>1, <2>2
<1>8. o \in batch /\ o \in Orders /\ o \notin ids
  BY <1>4, <1>7 DEF InAuction, Waiting, OfSide, VenueInv, VenueTypeOK
<1>9. TypeOK'
  <2>1. Append(arrived, o) \in Seq(Orders)
    BY <1>4, <1>8, AppendProperties DEF TypeOK
  <2>. QED  BY <1>2, <1>3, <1>4, <1>8, <2>1 DEF TypeOK
<1>10. Book'
  <2>1. quantity[o] > 0
    BY <1>8 DEF VenueInv, KnownKept
  <2>2. IndexAgrees' /\ RestingIsOpen' /\ Uncrossed' /\ TotalsAgree'
    BY <1>2, <1>3, <1>4 DEF Book, IndexAgrees, RestingIsOpen, Uncrossed, TotalsAgree
  <2>3. OrdersExist'
    BY <1>2, <1>3, <1>4, <1>8, <2>1 DEF Book, OrdersExist
  <2>. QED  BY <2>2, <2>3 DEF Book
<1>11. VenueTypeOK'
  BY <1>2, <1>7 DEF VenueInv, VenueTypeOK
<1>12. BatchKept'
  <2>1. Waiting' = Waiting \ {o}
    BY <1>7 DEF Waiting
  <2>2. \A x \in batch : remaining[x] > 0 /\ limit[x] # Market =>
          x \in Waiting' \cup ids \cup {incoming'}
    BY <1>2, <1>4, <1>8, <2>1, OrdersAssumption
    DEF InAuction, NoOrder, VenueInv, VenueTypeOK
  <2>3. UNCHANGED <<OfSide("buy"), OfSide("sell")>>
    BY <1>2 DEF OfSide
  <2>4. o \notin Waiting' /\ Waiting' \cap ids = {}
    BY <1>4, <2>1 DEF InAuction
  <2>5. InAuction'
    BY <1>2, <1>3, <1>4, <1>7, <2>2, <2>3, <2>4 DEF InAuction
  <2>. QED  BY <1>2, <2>5 DEF VenueInv, BatchKept
<1>13. KnownKept'
  <2>1. \A x \in known \ batch : remaining[x] > 0 /\ limit[x] # Market => x \in ids
    BY <1>2, OrdersAssumption DEF VenueInv, KnownKept, NoOrder, VenueTypeOK
  <2>. QED  BY <1>2, <1>3, <2>1 DEF VenueInv, KnownKept
<1>. QED  BY <1>2, <1>4, <1>9, <1>10, <1>11, <1>12, <1>13 DEF VenueInv, BookKept

\* The batch is empty again; what it held is filled, in the book, or a market
\* order without a match.
LEMMA FinishAuctionKeeps ==
  ASSUME VenueInv, FinishAuction
  PROVE  VenueInv'
<1>1. /\ task = "adding" /\ incoming = NoOrder /\ buys = <<>> /\ sells = <<>>
      /\ task' = "idle" /\ batch' = {}
      /\ status' = [o \in Orders |-> IF o \in batch THEN Outcome(o) ELSE status[o]]
      /\ UNCHANGED <<arrived, side, limit, quantity>>
      /\ UNCHANGED <<level, queue, total, priceMap, ids>>
      /\ UNCHANGED <<remaining, incoming, trades, phase, cached, last, known, buys, sells,
                     published>>
  BY DEF FinishAuction, orderVars, bookVars
<1>2. TypeOK /\ Book /\ trades \in Seq(Trades) /\ InAuction
  BY <1>1 DEF VenueInv, BookKept, BatchKept
<1>3. TypeOK'
  BY <1>1, <1>2 DEF TypeOK, Outcome
<1>4. Book'
  BY <1>1, <1>2
  DEF Book, IndexAgrees, RestingIsOpen, Uncrossed, TotalsAgree, OrdersExist
<1>5. VenueTypeOK'
  BY <1>1 DEF VenueInv, VenueTypeOK
<1>6. BatchKept'
  BY <1>1, FS_EmptySet DEF BatchKept
<1>7. Waiting = {}
  BY <1>1 DEF Waiting, Range
<1>8. KnownKept'
  BY <1>1, <1>2, <1>7 DEF VenueInv, KnownKept, InAuction
<1>. QED  BY <1>1, <1>2, <1>3, <1>4, <1>5, <1>6, <1>8 DEF VenueInv, BookKept

-----------------------------------------------------------------------------
(* Phases. *)

\* A check of the matching thread: the auction starts, or the book is emptied.
LEMMA CheckKeeps ==
  ASSUME VenueInv, CheckPhaseTransitions
  PROVE  VenueInv'
<1>1. /\ task = "idle" /\ incoming = NoOrder /\ cached' = phase /\ last' = phase
      /\ UNCHANGED <<arrived, side, limit, quantity>>
      /\ UNCHANGED <<remaining, status, incoming, trades, phase, batch, published>>
  BY DEF CheckPhaseTransitions, Idle, orderVars
<1>2. TypeOK /\ Book /\ trades \in Seq(Trades) /\ batch \cap ids = {} /\ IsFiniteSet(batch)
  BY <1>1 DEF VenueInv, BookKept, BatchKept
<1>3. /\ buys \in Seq(Orders) /\ sells \in Seq(Orders)
      /\ batch \subseteq Orders /\ known \subseteq Orders
  BY DEF VenueInv, VenueTypeOK
<1>4. \/ UNCHANGED <<level, queue, total, priceMap, ids, known>>
      \/ /\ level' = [s \in Sides |-> {}]
         /\ queue' = [s \in Sides |-> [p \in Prices |-> <<>>]]
         /\ total' = [s \in Sides |-> [p \in Prices |-> 0]]
         /\ priceMap' = [o \in Orders |-> Market]
         /\ ids' = {} /\ known' = known \ ids
  BY DEF CheckPhaseTransitions, CancelAll, bookVars
<1>5. ids' \subseteq ids /\ known' \subseteq known /\ \A x \in known' \cap ids : x \in ids'
  BY <1>4
<1>6. BookKept'
  <2>1. CASE UNCHANGED <<level, queue, total, priceMap, ids>>
    <3>1. TypeOK'
      BY <1>1, <1>2, <2>1 DEF TypeOK
    <3>2. Book'
      BY <1>1, <1>2, <2>1
      DEF Book, IndexAgrees, RestingIsOpen, Uncrossed, TotalsAgree, OrdersExist
    <3>. QED  BY <1>1, <1>2, <3>1, <3>2 DEF BookKept
  <2>2. CASE /\ level' = [s \in Sides |-> {}]
             /\ queue' = [s \in Sides |-> [p \in Prices |-> <<>>]]
             /\ total' = [s \in Sides |-> [p \in Prices |-> 0]]
             /\ priceMap' = [o \in Orders |-> Market] /\ ids' = {}
    <3>1. TypeOK'
      BY <1>1, <1>2, <2>2 DEF TypeOK, Market
    <3>2. Range(<<>>) = {} /\ IsInjective(<<>>)
      BY DEF Range, IsInjective
    <3>3. IndexAgrees'
      BY <2>2, <3>2 DEF IndexAgrees
    <3>4. TotalsAgree'
      BY <2>2, <3>2, SumEmpty DEF TotalsAgree
    <3>5. RestingIsOpen' /\ Uncrossed' /\ OrdersExist'
      BY <1>1, <2>2 DEF RestingIsOpen, Uncrossed, OrdersExist, Sides
    <3>. QED  BY <1>1, <1>2, <3>1, <3>3, <3>4, <3>5 DEF BookKept, Book
  <2>. QED  BY <1>4, <2>1, <2>2
<1>7. \/ UNCHANGED <<task, buys, sells>>
      \/ /\ buys' \in Sorted(OfSide("buy")) /\ sells' \in Sorted(OfSide("sell"))
         /\ task' = "crossing"
  BY DEF CheckPhaseTransitions, StartAuction
<1>8. IsFiniteSet(OfSide("buy")) /\ IsFiniteSet(OfSide("sell"))
  <2>1. OfSide("buy") \subseteq batch /\ OfSide("sell") \subseteq batch
    BY DEF OfSide
  <2>. QED  BY <1>2, <2>1, FS_Subset
<1>9. CASE UNCHANGED <<task, buys, sells>>
  <2>1. VenueTypeOK'
    BY <1>1, <1>5, <1>9 DEF VenueInv, VenueTypeOK
  <2>2. BatchKept'
    BY <1>1, <1>2, <1>5, <1>9 DEF VenueInv, BatchKept
  <2>3. KnownKept'
    BY <1>1, <1>5 DEF VenueInv, KnownKept
  <2>. QED  BY <1>6, <2>1, <2>2, <2>3 DEF VenueInv
<1>10. CASE /\ buys' \in Sorted(OfSide("buy")) /\ sells' \in Sorted(OfSide("sell"))
            /\ task' = "crossing"
  <2>1. /\ buys' \in Seq(OfSide("buy")) /\ IsInjective(buys')
        /\ Range(buys') = OfSide("buy")
    BY <1>8, <1>10, SortedTakesAll
  <2>2. /\ sells' \in Seq(OfSide("sell")) /\ IsInjective(sells')
        /\ Range(sells') = OfSide("sell")
    BY <1>8, <1>10, SortedTakesAll
  <2>3. OfSide("buy") \cup OfSide("sell") = batch
    BY <1>2, <1>3 DEF OfSide, TypeOK, Sides
  <2>4. OfSide("buy") \subseteq Orders /\ OfSide("sell") \subseteq Orders
    BY <1>3 DEF OfSide
  <2>5. VenueTypeOK'
    BY <1>1, <1>5, <1>10, <2>1, <2>2, <2>4 DEF VenueInv, VenueTypeOK
  <2>6. Waiting' = batch
    BY <2>1, <2>2, <2>3 DEF Waiting
  <2>7. UNCHANGED <<OfSide("buy"), OfSide("sell")>>
    BY <1>1 DEF OfSide
  <2>8. InAuction'
    BY <1>1, <1>2, <1>3, <1>5, <1>10, <2>1, <2>2, <2>6, <2>7, OrdersAssumption
    DEF InAuction, NoOrder
  <2>9. BatchKept'
    BY <1>1, <1>2, <1>10, <2>8 DEF BatchKept
  <2>10. KnownKept'
    BY <1>1, <1>5 DEF VenueInv, KnownKept
  <2>. QED  BY <1>6, <2>5, <2>9, <2>10 DEF VenueInv
<1>. QED  BY <1>7, <1>9, <1>10

LEMMA TimePassesKeeps ==
  ASSUME VenueInv, TimePasses
  PROVE  VenueInv'
<1>1. /\ UNCHANGED <<vars, cached, last, known, batch, task, buys, sells, published>>
      /\ phase' = NextPhase[phase]
  BY DEF TimePasses
<1>2. BookKept'
  BY <1>1, BookStep DEF VenueInv
<1>3. UNCHANGED <<side, limit, quantity, remaining, ids, incoming, trades>>
  BY <1>1 DEF vars, orderVars, bookVars
<1>4. phase' \in Phases
  BY <1>1 DEF VenueInv, VenueTypeOK, Phases, NextPhase
<1>5. VenueTypeOK'
  BY <1>1, <1>3, <1>4 DEF VenueInv, VenueTypeOK
<1>6. BatchKept' /\ KnownKept'
  BY <1>1, <1>3 DEF VenueInv, BatchKept, KnownKept, InAuction, Waiting, OfSide
<1>. QED  BY <1>2, <1>5, <1>6 DEF VenueInv

-----------------------------------------------------------------------------
(* The invariant is inductive. *)

LEMMA VenueInitInv == VenueInit => VenueInv
<1>. SUFFICES ASSUME VenueInit PROVE VenueInv
  OBVIOUS
<1>1. /\ Init /\ cached = phase /\ phase \in Phases /\ last = phase
      /\ known = {} /\ batch = {} /\ task = "idle" /\ buys = <<>> /\ sells = <<>>
      /\ published = {}
  BY DEF VenueInit
<1>2. TypeOK /\ Book
  BY <1>1, InitBook
<1>3. trades = <<>>
  BY <1>1 DEF Init
<1>4. BookKept
  BY <1>2, <1>3 DEF BookKept
<1>5. VenueTypeOK
  BY <1>1 DEF VenueTypeOK
<1>6. BatchKept /\ KnownKept
  BY <1>1, FS_EmptySet DEF BatchKept, KnownKept
<1>. QED  BY <1>4, <1>5, <1>6 DEF VenueInv

LEMMA VenueNextInv == VenueInv /\ [VenueNext]_allVars => VenueInv'
<1>. SUFFICES ASSUME VenueInv, [VenueNext]_allVars PROVE VenueInv'
  OBVIOUS
<1>1. ASSUME NEW o \in Orders, NEW s \in Sides, NEW p \in Prices \cup {Market},
             NEW q \in Quantities,
             SubmitRejected(o, s, p, q) \/ SubmitToBatch(o, s, p, q)
               \/ SubmitContinuous(o, s, p, q)
      PROVE  VenueInv'
  BY <1>1, SubmitRejectedKeeps, SubmitToBatchKeeps, SubmitContinuousKeeps
<1>2. ASSUME NEW o \in Orders, CancelOrder(o)
      PROVE  VenueInv'
  BY <1>2, CancelOrderKeeps
<1>3. CASE Matching
  BY <1>3, MatchStepKeeps, MatchDoneKeeps DEF Matching
<1>4. CASE AuctionStep
  BY <1>4, CrossStepKeeps, CrossDoneKeeps, AddLeftoverKeeps, FinishAuctionKeeps
  DEF AuctionStep
<1>5. CASE CheckPhaseTransitions
  BY <1>5, CheckKeeps
<1>6. CASE TimePasses
  BY <1>6, TimePassesKeeps
<1>7. CASE UNCHANGED allVars
  <2>1. UNCHANGED vars /\ UNCHANGED venueVars
    BY <1>7 DEF allVars
  <2>2. BookKept'
    BY <2>1, BookStep DEF VenueInv
  <2>3. /\ UNCHANGED <<side, limit, quantity, remaining, ids, incoming, trades>>
        /\ UNCHANGED <<phase, cached, last, known, batch, task, buys, sells, published>>
    BY <2>1 DEF vars, orderVars, bookVars, venueVars
  <2>4. VenueTypeOK'
    BY <2>3 DEF VenueInv, VenueTypeOK
  <2>5. BatchKept' /\ KnownKept'
    BY <2>3 DEF VenueInv, BatchKept, KnownKept, InAuction, Waiting, OfSide
  <2>. QED  BY <2>2, <2>4, <2>5 DEF VenueInv
<1>. QED  BY <1>1, <1>2, <1>3, <1>4, <1>5, <1>6, <1>7 DEF VenueNext

\* The invariant holds in every reachable state.
LEMMA VenueInvariance == VenueSafeSpec => []VenueInv
BY VenueInitInv, VenueNextInv, PTL DEF VenueSafeSpec

-----------------------------------------------------------------------------
(* The phase that the venue acts on. *)

LEMMA CheckedStep ==
  ASSUME Prompt, VenueTypeOK, Checked, [VenueNext]_allVars
  PROVE  Checked'
<1>1. NoOrder \notin Orders
  BY OrdersAssumption DEF NoOrder
<1>2. /\ phase \in Phases /\ cached \in Phases
      /\ cached = last /\ phase \in {last, NextPhase[last]}
      /\ cached = "closed" => ids = {} /\ batch = {} /\ Idle
      /\ batch # {} => cached = "pre_open" \/ task # "idle"
  BY DEF VenueTypeOK, Checked
<1>3. ASSUME NEW o \in Orders, NEW s \in Sides, NEW p \in Prices \cup {Market},
             NEW q \in Quantities, SubmitRejected(o, s, p, q)
      PROVE  Checked'
  <2>1. UNCHANGED <<phase, cached, last, batch, task, ids, incoming>>
    BY <1>3 DEF SubmitRejected, venueVars, bookVars
  <2>. QED  BY <1>2, <2>1 DEF Checked, Idle
<1>4. ASSUME NEW o \in Orders, NEW s \in Sides, NEW p \in Prices \cup {Market},
             NEW q \in Quantities, SubmitToBatch(o, s, p, q)
      PROVE  Checked'
  <2>1. cached = "pre_open" /\ UNCHANGED <<phase, cached, last, task>>
    BY <1>4
    DEF SubmitToBatch, SubmissionAllowed, ShouldUseBatchEngine, BatchStyle, MatchingEnabled
  <2>. QED  BY <1>2, <2>1 DEF Checked
<1>5. ASSUME NEW o \in Orders, NEW s \in Sides, NEW p \in Prices \cup {Market},
             NEW q \in Quantities, SubmitContinuous(o, s, p, q)
      PROVE  Checked'
  <2>1. cached # "closed" /\ UNCHANGED <<phase, cached, last, batch, task>>
    BY <1>5 DEF SubmitContinuous, SubmissionAllowed
  <2>. QED  BY <1>2, <2>1 DEF Checked
<1>6. ASSUME NEW o \in Orders, CancelOrder(o)
      PROVE  Checked'
  <2>1. cached # "closed" /\ UNCHANGED <<phase, cached, last, batch, task>>
    BY <1>6 DEF CancelOrder, CancellationAllowed
  <2>. QED  BY <1>2, <2>1 DEF Checked
<1>7. CASE Matching
  <2>1. incoming # NoOrder /\ UNCHANGED <<phase, cached, last, batch, task>>
    BY <1>1, <1>7 DEF Matching, MatchStep, MatchDone, venueVars
  <2>. QED  BY <1>2, <2>1 DEF Checked, Idle
<1>8. CASE AuctionStep
  <2>1. /\ task # "idle" /\ UNCHANGED <<phase, cached, last>>
        /\ task' # "idle" \/ batch' = {}
    BY <1>8 DEF AuctionStep, CrossStep, CrossDone, AddLeftover, FinishAuction
  <2>. QED  BY <1>2, <2>1 DEF Checked, Idle
<1>9. CASE CheckPhaseTransitions
  <2>1. /\ Idle /\ last # phase /\ cached' = phase /\ last' = phase
        /\ UNCHANGED <<phase, batch, incoming>>
        /\ IF EnterAuction THEN task' = "crossing" ELSE task' = task
        /\ IF MarketClose THEN ids' = {} ELSE ids' = ids
    BY <1>9 DEF CheckPhaseTransitions, StartAuction, CancelAll, bookVars
  <2>2. phase = NextPhase[last] /\ cached = last /\ last \in Phases
    BY <1>2, <2>1
  <2>3. phase = "closed" => last = "continuous"
    BY <2>2 DEF Phases, NextPhase
  <2>4. last = "pre_open" => phase = "opening_auction"
    BY <2>2 DEF NextPhase
  <2>5. phase = "closed" => ids' = {} /\ batch' = {} /\ Idle'
    BY <1>2, <2>1, <2>2, <2>3 DEF Idle, EnterAuction, MarketClose
  <2>6. batch' # {} => task' # "idle"
    BY <1>2, <2>1, <2>2, <2>4 DEF Idle, EnterAuction
  <2>. QED  BY <1>2, <2>1, <2>5, <2>6 DEF Checked, Phases
<1>10. CASE TimePasses
  <2>1. /\ last = phase /\ phase' = NextPhase[phase]
        /\ UNCHANGED <<cached, last, batch, task, ids, incoming>>
    BY <1>10 DEF TimePasses, vars, bookVars
  <2>. QED  BY <1>2, <2>1 DEF Checked, Idle
<1>11. CASE UNCHANGED allVars
  <2>1. UNCHANGED <<phase, cached, last, batch, task, ids, incoming>>
    BY <1>11 DEF allVars, vars, venueVars, bookVars
  <2>. QED  BY <1>2, <2>1 DEF Checked, Idle
<1>. QED  BY <1>3, <1>4, <1>5, <1>6, <1>7, <1>8, <1>9, <1>10, <1>11 DEF VenueNext

-----------------------------------------------------------------------------
(* Price priority of the auction. *)

\* Orders a and b have limits on one side, and a has the better price.
Better(a, b) ==
  /\ side[a] = side[b] /\ limit[a] # Market /\ limit[b] # Market
  /\ IF side[a] = "buy" THEN limit[a] > limit[b] ELSE limit[a] < limit[b]

\* What the auction has still to take of a side is sorted, and nothing that it
\* has taken comes after it.
InOrder(f, s) ==
  /\ \A i, j \in DOMAIN f : i < j => SortKey(f[i]) <= SortKey(f[j])
  /\ \A a \in Range(f), b \in OfSide(s) \ Range(f) : SortKey(b) <= SortKey(a)

\* Until the auction nothing of the batch trades; the auction takes each side in
\* order of price, and while it crosses, what it has taken is filled.
PriorityKept ==
  /\ task = "idle" => \A o \in batch : remaining[o] = quantity[o]
  /\ task # "idle" => /\ InOrder(buys, "buy") /\ InOrder(sells, "sell")
                      /\ AuctionPricePriority
  /\ task = "crossing" => \A o \in batch \ Waiting : remaining[o] = 0

\* The sort keys of orders with limits are in the order of their prices.
LEMMA BetterComesFirst ==
  ASSUME VenueInv, NEW a \in batch, NEW b \in batch, Better(a, b)
  PROVE  /\ a \in Orders /\ b \in Orders /\ side[a] = side[b] /\ a # b
         /\ ~(SortKey(b) <= SortKey(a))
<1>1. a \in Orders /\ b \in Orders /\ limit[a] \in Nat /\ limit[b] \in Nat
  <2>1. Prices \cup {Market} \subseteq Nat
    BY PricesAssumption DEF Market
  <2>. QED  BY <2>1 DEF VenueInv, VenueTypeOK, BookKept, TypeOK
<1>. QED  BY <1>1 DEF Better, SortKey

\* The keys last as long as the orders keep their fields.
LEMMA OrderLasts ==
  ASSUME NEW f, NEW s, InOrder(f, s), UNCHANGED <<side, limit, batch>>
  PROVE  InOrder(f, s)'
BY DEF InOrder, SortKey, OfSide

\* Taking the front of a side leaves the rest in order.
LEMMA TakenInOrder ==
  ASSUME NEW f \in Seq(Orders), f # <<>>, IsInjective(f), NEW s, InOrder(f, s),
         \A x \in Orders : SortKey(x) \in Int
  PROVE  InOrder(Tail(f), s)
<1>1. /\ Head(f) = f[1] /\ Len(f) \in Nat \ {0} /\ DOMAIN f = 1..Len(f)
      /\ DOMAIN Tail(f) = 1..(Len(f) - 1)
      /\ \A i \in 1..(Len(f) - 1) : Tail(f)[i] = f[i + 1]
      /\ Head(f) \in Orders /\ Tail(f) \in Seq(Orders)
  BY HeadTailProperties, LenProperties, EmptySeq
<1>2. Range(Tail(f)) = Range(f) \ {Head(f)} /\ Range(f) \subseteq Orders
  BY TailOfQueue, RangeOfSeq
<1>3. ASSUME NEW i \in DOMAIN Tail(f), NEW j \in DOMAIN Tail(f), i < j
      PROVE  SortKey(Tail(f)[i]) <= SortKey(Tail(f)[j])
  <2>1. i + 1 \in DOMAIN f /\ j + 1 \in DOMAIN f /\ i + 1 < j + 1
    BY <1>1, <1>3
  <2>2. Tail(f)[i] = f[i + 1] /\ Tail(f)[j] = f[j + 1]
    BY <1>1
  <2>. QED  BY <2>1, <2>2 DEF InOrder
<1>4. ASSUME NEW a \in Range(Tail(f))
      PROVE  SortKey(Head(f)) <= SortKey(a)
  <2>1. PICK i \in DOMAIN Tail(f) : a = Tail(f)[i]
    BY DEF Range
  <2>2. a = f[i + 1] /\ 1 \in DOMAIN f /\ i + 1 \in DOMAIN f /\ 1 < i + 1
    BY <1>1, <2>1
  <2>. QED  BY <1>1, <2>2 DEF InOrder
<1>5. ASSUME NEW a \in Range(Tail(f)), NEW b \in OfSide(s) \ Range(Tail(f))
      PROVE  SortKey(b) <= SortKey(a)
  <2>1. CASE b = Head(f)
    BY <1>4, <2>1
  <2>2. CASE b # Head(f)
    BY <1>2, <2>2 DEF InOrder
  <2>. QED  BY <2>1, <2>2
<1>. QED  BY <1>3, <1>5 DEF InOrder

\* A better order that is still waiting has no worse one before it: neither
\* taken nor in front of it.
LEMMA NoWorseBefore ==
  ASSUME VenueInv, NEW f \in Seq(Orders), NEW s, InOrder(f, s),
         NEW a \in batch, NEW b \in batch, Better(a, b), side[a] = s, a \in Range(f)
  PROVE  b \in Range(f) /\ (f # <<>> => b # Head(f))
<1>1. ~(SortKey(b) <= SortKey(a)) /\ side[b] = s
  BY BetterComesFirst
<1>2. b \in Range(f)
  BY <1>1 DEF InOrder, OfSide
<1>3. ASSUME b = Head(f), f # <<>> PROVE FALSE
  <2>1. /\ Head(f) = f[1] /\ 1 \in DOMAIN f /\ DOMAIN f = 1..Len(f) /\ Len(f) \in Nat
    BY <1>3, LenProperties, EmptySeq, HeadTailProperties
  <2>2. PICK i \in DOMAIN f : a = f[i]
    BY DEF Range
  <2>3. a # b
    BY BetterComesFirst
  <2>4. 1 < i
    BY <1>3, <2>1, <2>2, <2>3
  <2>. QED  BY <1>1, <1>3, <2>1, <2>2, <2>4 DEF InOrder
<1>. QED  BY <1>2, <1>3

\* Priority lasts while no order fills ahead of a better one that stays open.
LEMMA FillsKeepPriority ==
  ASSUME AuctionPricePriority, UNCHANGED <<batch, side, limit, quantity>>,
         batch \subseteq Orders,
         remaining \in [Orders -> Nat], remaining' \in [Orders -> Nat],
         \A x \in Orders : remaining'[x] <= remaining[x],
         \A a, b \in batch : Better(a, b) /\ remaining'[b] # remaining[b] => remaining'[a] = 0
  PROVE  AuctionPricePriority'
<1>. SUFFICES ASSUME NEW a \in batch, NEW b \in batch, Better(a, b),
                     remaining'[b] < quantity[b]
              PROVE  remaining'[a] = 0
  BY DEF AuctionPricePriority, Better
<1>1. CASE remaining'[b] # remaining[b]
  BY <1>1
<1>2. CASE remaining'[b] = remaining[b]
  <2>1. remaining[a] = 0
    BY <1>2 DEF AuctionPricePriority, Better
  <2>2. remaining'[a] \in Nat /\ remaining'[a] <= remaining[a]
    OBVIOUS
  <2>. QED  BY <2>1, <2>2
<1>. QED  BY <1>1, <1>2

\* Sort keys are numbers.
LEMMA KeysAreNumbers ==
  ASSUME VenueInv
  PROVE  \A x \in Orders : SortKey(x) \in Int
<1>1. \A x \in Orders : limit[x] \in Int
  <2>1. Prices \cup {Market} \subseteq Int
    BY PricesAssumption DEF Market
  <2>. QED  BY <2>1 DEF VenueInv, BookKept, TypeOK
<1>. QED  BY <1>1 DEF SortKey

\* A trade between the two fronts: every better order has left the auction filled.
LEMMA CrossStepInPriority ==
  ASSUME VenueInv, PriorityKept, CrossStep
  PROVE  PriorityKept'
<1>1. PICK b, s, q : b = Head(buys) /\ s = Head(sells) /\ q = FillQuantity(b, s)
  OBVIOUS
<1>2. /\ task = "crossing" /\ buys # <<>> /\ sells # <<>>
      /\ remaining' = [remaining EXCEPT ![b] = @ - q, ![s] = @ - q]
      /\ buys' = IF remaining[b] = q THEN Tail(buys) ELSE buys
      /\ sells' = IF remaining[s] = q THEN Tail(sells) ELSE sells
      /\ UNCHANGED <<side, limit, quantity, batch, task>>
  BY <1>1 DEF CrossStep, Crossing, orderVars
<1>3. InAuction /\ buys \in Seq(Orders) /\ sells \in Seq(Orders) /\ batch \subseteq Orders
  BY <1>2 DEF VenueInv, BatchKept, VenueTypeOK
<1>4. remaining \in [Orders -> Nat]
  BY DEF VenueInv, BookKept, TypeOK
<1>5. /\ InOrder(buys, "buy") /\ InOrder(sells, "sell") /\ AuctionPricePriority
      /\ \A o \in batch \ Waiting : remaining[o] = 0
  BY <1>2 DEF PriorityKept
<1>6. /\ b \in Range(buys) /\ s \in Range(sells)
      /\ Range(Tail(buys)) = Range(buys) \ {b} /\ Range(Tail(sells)) = Range(sells) \ {s}
  BY <1>1, <1>2, <1>3, TailOfQueue DEF InAuction
<1>7. /\ b \in batch /\ s \in batch /\ side[b] = "buy" /\ side[s] = "sell" /\ b # s
      /\ \A x \in Range(buys) : side[x] = "buy"
      /\ \A x \in Range(sells) : side[x] = "sell"
  BY <1>3, <1>6 DEF InAuction, OfSide
<1>8. remaining[b] \in Nat /\ remaining[s] \in Nat /\ b \in Orders /\ s \in Orders
  BY <1>3, <1>4, <1>7
<1>9. /\ q \in Nat /\ q <= remaining[b] /\ q <= remaining[s]
      /\ remaining[b] - q \in Nat /\ remaining[s] - q \in Nat
  BY <1>1, <1>8 DEF FillQuantity
<1>10. /\ remaining' \in [Orders -> Nat]
       /\ remaining'[b] = remaining[b] - q /\ remaining'[s] = remaining[s] - q
       /\ \A x \in Orders \ {b, s} : remaining'[x] = remaining[x]
  BY <1>2, <1>4, <1>7, <1>8, <1>9
<1>11. \A x \in Orders : remaining'[x] <= remaining[x]
  BY <1>4, <1>8, <1>9, <1>10
<1>12. ASSUME NEW x \in batch, NEW y \in batch, Better(x, y), remaining'[y] # remaining[y]
       PROVE  remaining'[x] = 0
  <2>1. y \in {b, s} /\ side[x] = side[y] /\ side[x] \in {"buy", "sell"}
    BY <1>3, <1>7, <1>10, <1>12, BetterComesFirst
  <2>2. x \notin Range(buys)
    BY <1>1, <1>2, <1>3, <1>5, <1>7, <1>12, <2>1, NoWorseBefore
  <2>3. x \notin Range(sells)
    BY <1>1, <1>2, <1>3, <1>5, <1>7, <1>12, <2>1, NoWorseBefore
  <2>4. remaining[x] = 0 /\ x \in Orders
    BY <1>3, <1>5, <2>2, <2>3 DEF Waiting
  <2>5. remaining'[x] \in Nat /\ remaining'[x] <= remaining[x]
    BY <1>10, <1>11, <2>4
  <2>. QED  BY <2>4, <2>5
<1>13. AuctionPricePriority'
  BY <1>2, <1>3, <1>4, <1>5, <1>10, <1>11, <1>12, FillsKeepPriority
<1>14. InOrder(buys, "buy")' /\ InOrder(sells, "sell")'
  <2>1. PICK f, g : f = buys' /\ g = sells'
    OBVIOUS
  <2>2. InOrder(f, "buy") /\ InOrder(g, "sell")
    BY <1>2, <1>3, <1>5, <2>1, KeysAreNumbers, TakenInOrder DEF InAuction
  <2>3. InOrder(f, "buy")' /\ InOrder(g, "sell")'
    BY <1>2, <2>2, OrderLasts
  <2>. QED  BY <2>1, <2>3
<1>15. \A o \in batch \ Waiting' : remaining'[o] = 0
  <2>. SUFFICES ASSUME NEW o \in batch, o \notin Waiting' PROVE remaining'[o] = 0
    OBVIOUS
  <2>1. CASE o = b
    <3>1. remaining[b] = q
      BY <1>2, <1>6, <2>1 DEF Waiting
    <3>. QED  BY <1>8, <1>9, <1>10, <2>1, <3>1
  <2>2. CASE o = s
    <3>1. remaining[s] = q
      BY <1>2, <1>6, <2>2 DEF Waiting
    <3>. QED  BY <1>8, <1>9, <1>10, <2>2, <3>1
  <2>3. CASE o \notin {b, s}
    <3>1. o \notin Waiting
      BY <1>2, <1>6, <2>3 DEF Waiting
    <3>. QED  BY <1>3, <1>5, <1>10, <2>3, <3>1
  <2>. QED  BY <2>1, <2>2, <2>3
<1>. QED  BY <1>2, <1>13, <1>14, <1>15 DEF PriorityKept

\* A step of the continuous matching: during the auction it works on what the
\* auction has left, in a book that is sorted and not crossed.
LEMMA MatchStepInPriority ==
  ASSUME VenueInv, PriorityKept, NEW o \in Orders, NEW p \in Prices, MatchStep(o, p),
         UNCHANGED venueVars
  PROVE  PriorityKept'
<1>1. PICK s, m, q : s = Opposite(side[o]) /\ m = Head(queue[s][p]) /\ q = FillQuantity(o, m)
  OBVIOUS
<1>2. /\ UNCHANGED <<batch, task, buys, sells, side, limit, quantity>>
      /\ incoming = o /\ IsBest(s, p) /\ Acceptable(o, p)
  BY <1>1 DEF MatchStep, venueVars, orderVars
<1>3. /\ TypeOK /\ Book /\ batch \subseteq Orders /\ BatchKept
      /\ remaining \in [Orders -> Nat] /\ ids \subseteq Orders
      /\ \A x \in Orders : side[x] \in {"buy", "sell"}
  BY DEF VenueInv, BookKept, VenueTypeOK, TypeOK, Sides
<1>4. /\ s \in Sides /\ s # side[o] /\ m \in ids /\ m \in Orders
      /\ side[m] = s /\ limit[m] = p /\ m # o /\ p \in level[s]
      /\ q \in Nat \ {0} /\ q <= remaining[o] /\ q <= remaining[m]
      /\ remaining' \in [Orders -> Nat]
      /\ remaining'[o] = remaining[o] - q /\ remaining'[m] = remaining[m] - q
      /\ \A r \in Orders \ {o, m} : remaining'[r] = remaining[r]
  BY <1>1, <1>3, MatchFacts
<1>5. CASE task = "idle"
  <2>1. o \notin batch /\ m \notin batch
    BY <1>2, <1>3, <1>4, <1>5 DEF BatchKept
  <2>. QED  BY <1>2, <1>3, <1>4, <1>5, <2>1 DEF PriorityKept
<1>6. CASE task # "idle"
  <2>1. /\ InAuction /\ task # "crossing" /\ InOrder(buys, "buy") /\ InOrder(sells, "sell")
        /\ AuctionPricePriority
    BY <1>2, <1>3, <1>6, OrdersAssumption DEF BatchKept, InAuction, PriorityKept, NoOrder
  <2>2. \A x \in Orders : remaining'[x] <= remaining[x]
    BY <1>3, <1>4
  <2>3. ASSUME NEW x \in batch, NEW y \in batch, Better(x, y), remaining'[y] # remaining[y]
        PROVE  remaining'[x] = 0
    <3>1. /\ y \in {o, m} /\ x # y /\ side[x] = side[y] /\ x \in Orders /\ y \in Orders
          /\ limit[x] # Market /\ limit[y] # Market
          /\ IF side[y] = "buy" THEN limit[x] > limit[y] ELSE limit[x] < limit[y]
      BY <1>3, <1>4, <2>3, BetterComesFirst DEF Better
    <3>2. x \notin Waiting
      <4>1. y \notin Waiting
        BY <1>2, <1>4, <2>1, <3>1 DEF InAuction
      <4>. QED  BY <1>3, <2>1, <2>3, <3>1, <4>1, NoWorseBefore
                DEF Waiting, InAuction, OfSide, VenueInv, VenueTypeOK
    <3>3. x # o
      BY <1>4, <3>1
    <3>4. ASSUME remaining[x] > 0 PROVE FALSE
      <4>1. x \in ids
        BY <1>2, <2>1, <3>1, <3>2, <3>3, <3>4 DEF InAuction
      <4>2. limit[x] \in level[side[x]]
        BY <1>3, <4>1, BookCanBeSearched DEF RestingCanBeFound, Book, RestingIsOpen
      <4>3. limit[x] \in Nat /\ limit[y] \in Nat /\ p \in Nat
        <5>1. Prices \cup {Market} \subseteq Nat
          BY PricesAssumption DEF Market
        <5>. QED  BY <1>3, <3>1, <5>1 DEF TypeOK
      <4>4. CASE y = m
        BY <1>2, <1>4, <3>1, <4>2, <4>3, <4>4 DEF IsBest
      <4>5. CASE y = o
        <5>1. side[o] = "buy" => p <= limit[o] /\ p \in level["sell"]
          BY <1>1, <1>2, <1>4, <3>1, <4>5 DEF Acceptable, Opposite
        <5>2. side[o] = "sell" => p >= limit[o] /\ p \in level["buy"]
          BY <1>1, <1>2, <1>4, <3>1, <4>5 DEF Acceptable, Opposite
        <5>3. \A b \in level["buy"], a \in level["sell"] : b < a
          BY <1>3 DEF Book, Uncrossed
        <5>. QED  BY <1>3, <3>1, <4>2, <4>3, <4>5, <5>1, <5>2, <5>3
      <4>. QED  BY <3>1, <4>4, <4>5
    <3>5. remaining[x] \in Nat /\ remaining'[x] \in Nat /\ remaining'[x] <= remaining[x]
      BY <1>3, <1>4, <2>2, <3>1
    <3>. QED  BY <3>4, <3>5
  <2>4. AuctionPricePriority'
    BY <1>2, <1>3, <1>4, <2>1, <2>2, <2>3, FillsKeepPriority
  <2>5. InOrder(buys, "buy")' /\ InOrder(sells, "sell")'
    BY <1>2, <2>1, OrderLasts
  <2>. QED  BY <1>2, <1>6, <2>1, <2>4, <2>5 DEF PriorityKept
<1>. QED  BY <1>5, <1>6

\* Steps that leave the batch, its orders and the auction alone.
LEMMA PriorityUntouched ==
  ASSUME PriorityKept, UNCHANGED <<batch, task, buys, sells>>,
         \A x \in batch : /\ side'[x] = side[x] /\ limit'[x] = limit[x]
                          /\ quantity'[x] = quantity[x] /\ remaining'[x] = remaining[x],
         Range(buys) \cup Range(sells) \subseteq batch \/ task = "idle"
  PROVE  PriorityKept'
<1>1. CASE task = "idle"
  BY <1>1 DEF PriorityKept
<1>2. CASE task # "idle"
  <2>1. /\ InOrder(buys, "buy") /\ InOrder(sells, "sell") /\ AuctionPricePriority
        /\ Range(buys) \subseteq batch /\ Range(sells) \subseteq batch
    BY <1>2 DEF PriorityKept
  <2>2. AuctionPricePriority'
    BY <2>1 DEF AuctionPricePriority
  <2>3. \A x \in batch : SortKey(x)' = SortKey(x)
    BY DEF SortKey
  <2>4. OfSide("buy")' = OfSide("buy") /\ OfSide("sell")' = OfSide("sell")
    BY DEF OfSide
  <2>5. /\ \A i \in DOMAIN buys : buys[i] \in batch
        /\ \A i \in DOMAIN sells : sells[i] \in batch
    BY <2>1 DEF Range
  <2>6. InOrder(buys, "buy")' /\ InOrder(sells, "sell")'
    BY <2>1, <2>3, <2>4, <2>5 DEF InOrder, OfSide
  <2>7. task' = "crossing" => \A o \in batch' \ Waiting' : remaining'[o] = 0
    BY DEF PriorityKept, Waiting
  <2>. QED  BY <1>2, <2>2, <2>6, <2>7 DEF PriorityKept
<1>. QED  BY <1>1, <1>2

\* The next left-over order of a side goes into continuous matching.
LEMMA AddLeftoverInPriority ==
  ASSUME VenueInv, PriorityKept, AddLeftover
  PROVE  PriorityKept'
<1>1. /\ task = "adding" /\ (buys # <<>> \/ sells # <<>>)
      /\ buys' = IF buys # <<>> THEN Tail(buys) ELSE buys
      /\ sells' = IF buys # <<>> THEN sells ELSE Tail(sells)
      /\ UNCHANGED <<side, limit, quantity, remaining, batch, task>>
  BY DEF AddLeftover
<1>2. InAuction /\ buys \in Seq(Orders) /\ sells \in Seq(Orders)
  BY <1>1 DEF VenueInv, BatchKept, VenueTypeOK
<1>3. InOrder(buys, "buy") /\ InOrder(sells, "sell") /\ AuctionPricePriority
  BY <1>1 DEF PriorityKept
<1>4. PICK f, g : f = buys' /\ g = sells'
  OBVIOUS
<1>5. InOrder(f, "buy") /\ InOrder(g, "sell")
  BY <1>1, <1>2, <1>3, <1>4, KeysAreNumbers, TakenInOrder DEF InAuction
<1>6. InOrder(f, "buy")' /\ InOrder(g, "sell")'
  BY <1>1, <1>5, OrderLasts
<1>7. AuctionPricePriority'
  BY <1>1, <1>3 DEF AuctionPricePriority
<1>. QED  BY <1>1, <1>4, <1>6, <1>7 DEF PriorityKept

\* The auction begins: both sides are sorted, and nothing has traded.
LEMMA CheckInPriority ==
  ASSUME VenueInv, PriorityKept, CheckPhaseTransitions
  PROVE  PriorityKept'
<1>1. /\ task = "idle" /\ UNCHANGED <<side, limit, quantity, remaining, batch>>
      /\ \/ UNCHANGED <<task, buys, sells>>
         \/ /\ buys' \in Sorted(OfSide("buy")) /\ sells' \in Sorted(OfSide("sell"))
            /\ task' = "crossing"
  BY DEF CheckPhaseTransitions, Idle, orderVars, StartAuction
<1>2. CASE UNCHANGED <<task, buys, sells>>
  BY <1>1, <1>2 DEF PriorityKept
<1>3. CASE /\ buys' \in Sorted(OfSide("buy")) /\ sells' \in Sorted(OfSide("sell"))
           /\ task' = "crossing"
  <2>1. PICK f, g : f = buys' /\ g = sells'
    OBVIOUS
  <2>2. /\ IsFiniteSet(OfSide("buy")) /\ IsFiniteSet(OfSide("sell"))
        /\ batch = OfSide("buy") \cup OfSide("sell")
    <3>1. OfSide("buy") \subseteq batch /\ OfSide("sell") \subseteq batch
      BY DEF OfSide
    <3>2. batch = OfSide("buy") \cup OfSide("sell")
      BY DEF OfSide, VenueInv, VenueTypeOK, BookKept, TypeOK, Sides
    <3>. QED  BY <3>1, <3>2, FS_Subset DEF VenueInv, BatchKept
  <2>3. Range(f) = OfSide("buy") /\ Range(g) = OfSide("sell")
    BY <1>3, <2>1, <2>2, SortedTakesAll
  <2>4. InOrder(f, "buy") /\ InOrder(g, "sell")
    BY <1>3, <2>1, <2>3 DEF InOrder, Sorted
  <2>5. InOrder(f, "buy")' /\ InOrder(g, "sell")'
    BY <1>1, <2>4, OrderLasts
  <2>6. AuctionPricePriority'
    <3>1. \A x \in batch : remaining[x] = quantity[x] /\ quantity[x] \in Nat
      BY <1>1 DEF PriorityKept, VenueInv, VenueTypeOK, BookKept, TypeOK
    <3>. QED  BY <1>1, <3>1 DEF AuctionPricePriority
  <2>7. Waiting' = batch
    BY <2>1, <2>2, <2>3 DEF Waiting
  <2>. QED  BY <1>1, <1>3, <2>1, <2>5, <2>6, <2>7 DEF PriorityKept
<1>. QED  BY <1>1, <1>2, <1>3

\* Every step keeps the priority.
LEMMA NextKeepsPriority == VenueInv /\ PriorityKept /\ [VenueNext]_allVars => PriorityKept'
<1>. SUFFICES ASSUME VenueInv, PriorityKept, [VenueNext]_allVars PROVE PriorityKept'
  OBVIOUS
<1>1. /\ Range(buys) \cup Range(sells) \subseteq batch \/ task = "idle"
      /\ TypeOK /\ batch \subseteq Orders
  BY DEF VenueInv, BatchKept, InAuction, OfSide, VenueTypeOK, BookKept
<1>2. ASSUME UNCHANGED <<side, limit, quantity, remaining, batch, task, buys, sells>>
      PROVE  PriorityKept'
  BY <1>1, <1>2, PriorityUntouched
<1>3. ASSUME NEW o \in Orders, NEW s \in Sides, NEW p \in Prices \cup {Market},
             NEW q \in Quantities, NewOrder(o, s, p, q)
      PROVE  /\ o \notin batch /\ remaining'[o] = quantity'[o]
             /\ \A x \in batch : /\ side'[x] = side[x] /\ limit'[x] = limit[x]
                                 /\ quantity'[x] = quantity[x]
                                 /\ remaining'[x] = remaining[x]
  <2>1. o \notin batch
    BY <1>1, <1>3, OthersStay DEF VenueInv, KnownKept
  <2>2. remaining'[o] = quantity'[o]
    BY <1>1, <1>3 DEF NewOrder, TypeOK
  <2>. QED  BY <1>1, <1>3, <2>1, <2>2, OthersStay
<1>4. ASSUME NEW o \in Orders, NEW s \in Sides, NEW p \in Prices \cup {Market},
             NEW q \in Quantities, SubmitRejected(o, s, p, q) \/ SubmitContinuous(o, s, p, q)
      PROVE  PriorityKept'
  <2>1. NewOrder(o, s, p, q) /\ UNCHANGED <<batch, task, buys, sells>>
    BY <1>4 DEF SubmitRejected, SubmitContinuous, Submit, venueVars
  <2>. QED  BY <1>1, <1>3, <2>1, PriorityUntouched
<1>5. ASSUME NEW o \in Orders, NEW s \in Sides, NEW p \in Prices \cup {Market},
             NEW q \in Quantities, SubmitToBatch(o, s, p, q)
      PROVE  PriorityKept'
  <2>1. task = "idle" /\ task' = task /\ batch' = batch \cup {o} /\ NewOrder(o, s, p, q)
    BY <1>5 DEF SubmitToBatch, Idle
  <2>. QED  BY <1>3, <2>1 DEF PriorityKept
<1>6. ASSUME NEW o \in Orders, CancelOrder(o)
      PROVE  PriorityKept'
  BY <1>2, <1>6 DEF CancelOrder, Cancel, orderVars
<1>7. CASE Matching
  <2>1. ASSUME NEW o \in Orders, NEW p \in Prices, MatchStep(o, p), UNCHANGED venueVars
        PROVE  PriorityKept'
    BY <2>1, MatchStepInPriority
  <2>2. ASSUME NEW o \in Orders, MatchDone(o),
               UNCHANGED <<phase, cached, last, known, batch, task, buys, sells>>
        PROVE  PriorityKept'
    BY <1>2, <2>2 DEF MatchDone, orderVars
  <2>. QED  BY <1>7, <2>1, <2>2 DEF Matching
<1>8. CASE CrossDone
  <2>1. task = "crossing" /\ task' = "adding"
        /\ UNCHANGED <<side, limit, quantity, remaining, batch, buys, sells>>
    BY <1>8 DEF CrossDone, vars, orderVars
  <2>2. InOrder(buys, "buy")' /\ InOrder(sells, "sell")'
    <3>1. PICK f, g : f = buys /\ g = sells
      OBVIOUS
    <3>2. InOrder(f, "buy")' /\ InOrder(g, "sell")'
      BY <2>1, <3>1, OrderLasts DEF PriorityKept
    <3>. QED  BY <2>1, <3>1, <3>2
  <2>. QED  BY <2>1, <2>2 DEF PriorityKept, AuctionPricePriority
<1>9. CASE FinishAuction
  BY <1>9 DEF FinishAuction, PriorityKept
<1>10. CASE TimePasses
  BY <1>2, <1>10 DEF TimePasses, vars, orderVars
<1>11. CASE UNCHANGED allVars
  BY <1>2, <1>11 DEF allVars, vars, venueVars, orderVars
<1>. QED  BY <1>4, <1>5, <1>6, <1>7, <1>8, <1>9, <1>10, <1>11, CrossStepInPriority,
             AddLeftoverInPriority, CheckInPriority DEF VenueNext, AuctionStep

-----------------------------------------------------------------------------
(* The clearing price of a batch. *)

\* The names of the instance mean what they mean here.
LEMMA PricingNames ==
  /\ Pricing!Market = Market
  /\ \A S : Pricing!Max(S) = Max(S) /\ Pricing!Min(S) = Min(S)
  /\ \A f, S : Pricing!SumFunctionOnSet(f, S) = SumFunctionOnSet(f, S)
<1>1. Pricing!Market = Market
  BY DEF Market, Pricing!Market
<1>2. ASSUME NEW S PROVE Pricing!Max(S) = Max(S) /\ Pricing!Min(S) = Min(S)
  BY DEF Max, Min, Pricing!Max, Pricing!Min
<1>3. ASSUME NEW f, NEW S PROVE Pricing!SumFunctionOnSet(f, S) = SumFunctionOnSet(f, S)
  BY DEF SumFunctionOnSet, FoldFunctionOnSet, MapThenFoldSet, Pricing!SumFunctionOnSet,
         Pricing!FoldFunctionOnSet, Pricing!MapThenFoldSet
<1>. QED  BY <1>1, <1>2, <1>3

\* Orders of one side of a batch, as the pricing strategy gets them.
Offers(B) == IsFiniteSet(B) /\ \A x \in B : x.price \in Nat /\ x.quantity \in Nat

\* More orders have more quantity.
LEMMA QuantityGrows ==
  ASSUME NEW B, Offers(B), NEW S, NEW T, S \subseteq T, T \subseteq B
  PROVE  /\ Pricing!Quantity(S) \in Nat /\ Pricing!Quantity(T) \in Nat
         /\ Pricing!Quantity(S) <= Pricing!Quantity(T)
         /\ S = {} => Pricing!Quantity(S) = 0
<1>. DEFINE q(A) == [o \in A |-> o.quantity]
<1>1. \A A : Pricing!Quantity(A) = SumFunctionOnSet(q(A), A)
  BY PricingNames DEF Pricing!Quantity
<1>2. IsFiniteSet(S) /\ IsFiniteSet(T)
  BY FS_Subset DEF Offers
<1>3. \A x \in T : q(T)[x] \in Nat
  BY DEF Offers
<1>4. /\ \A x \in T : q(T)[x] \in Int /\ q(T)[x] >= 0
      /\ \A x \in S : q(S)[x] \in Int /\ q(S)[x] >= 0 /\ q(S)[x] <= q(T)[x]
  <2>1. \A x \in S : q(S)[x] = q(T)[x]
    OBVIOUS
  <2>. QED  BY <1>3, <2>1
<1>. HIDE DEF q
<1>5. SumFunctionOnSet(q(S), S) <= SumFunctionOnSet(q(T), T)
  BY <1>2, <1>4, SumOfMore
<1>6. SumFunctionOnSet(q(S), S) \in Nat /\ SumFunctionOnSet(q(T), T) \in Nat
  BY <1>2, <1>4, SumIsNatural
<1>7. S = {} => SumFunctionOnSet(q(S), S) = 0
  BY SumEmpty
<1>. QED  BY <1>1, <1>5, <1>6, <1>7

\* The volume at a price is bounded by the two sides, and by nothing else.
LEMMA VolumeBounds ==
  ASSUME NEW bids, NEW asks, Offers(bids), Offers(asks), NEW p
  PROVE  LET v == Pricing!VolumeAtPrice(bids, asks, p)
             b == Pricing!Quantity(Pricing!EligibleBids(bids, p))
             a == Pricing!Quantity(Pricing!EligibleAsks(asks, p))
         IN v \in Nat /\ a \in Nat /\ b \in Nat /\ v <= a /\ v <= b /\ v \in {a, b}
<1>1. PICK a, b, v : /\ b = Pricing!Quantity(Pricing!EligibleBids(bids, p))
                     /\ a = Pricing!Quantity(Pricing!EligibleAsks(asks, p))
                     /\ v = Pricing!VolumeAtPrice(bids, asks, p)
  OBVIOUS
<1>2. a \in Nat /\ b \in Nat
  <2>1. /\ Pricing!EligibleBids(bids, p) \subseteq bids
        /\ Pricing!EligibleAsks(asks, p) \subseteq asks
    BY DEF Pricing!EligibleBids, Pricing!EligibleAsks
  <2>. QED  BY <1>1, <2>1, QuantityGrows
<1>3. v = Min({b, a})
  BY <1>1, PricingNames DEF Pricing!VolumeAtPrice
<1>4. IsFiniteSet({b, a}) /\ {b, a} # {} /\ \A x \in {b, a} : x \in Int
  <2>1. IsFiniteSet({b}) /\ {b, a} = {b} \cup {a}
    BY FS_Singleton
  <2>. QED  BY <1>2, <2>1, FS_AddElement
<1>5. Min({b, a}) \in {b, a} /\ \A y \in {b, a} : Min({b, a}) <= y
  BY <1>4, ExtremeMembers
<1>. QED  BY <1>1, <1>2, <1>3, <1>5

\* At a price at which more orders are eligible the volume is larger.
LEMMA MoreIsEligible ==
  ASSUME NEW bids, NEW asks, Offers(bids), Offers(asks), NEW p, NEW r,
         Pricing!EligibleBids(bids, p) \subseteq Pricing!EligibleBids(bids, r),
         Pricing!EligibleAsks(asks, p) \subseteq Pricing!EligibleAsks(asks, r)
  PROVE  Pricing!VolumeAtPrice(bids, asks, p) <= Pricing!VolumeAtPrice(bids, asks, r)
<1>1. PICK a, b, c, d : /\ b = Pricing!Quantity(Pricing!EligibleBids(bids, p))
                        /\ a = Pricing!Quantity(Pricing!EligibleAsks(asks, p))
                        /\ d = Pricing!Quantity(Pricing!EligibleBids(bids, r))
                        /\ c = Pricing!Quantity(Pricing!EligibleAsks(asks, r))
  OBVIOUS
<1>2. PICK v, w : /\ v = Pricing!VolumeAtPrice(bids, asks, p)
                  /\ w = Pricing!VolumeAtPrice(bids, asks, r)
  OBVIOUS
<1>3. a \in Nat /\ b \in Nat /\ c \in Nat /\ d \in Nat /\ a <= c /\ b <= d
  <2>1. /\ Pricing!EligibleBids(bids, r) \subseteq bids
        /\ Pricing!EligibleAsks(asks, r) \subseteq asks
    BY DEF Pricing!EligibleBids, Pricing!EligibleAsks
  <2>. QED  BY <1>1, <2>1, QuantityGrows
<1>4. v \in Nat /\ v <= a /\ v <= b
  BY <1>1, <1>2, VolumeBounds
<1>5. w \in {c, d}
  BY <1>1, <1>2, VolumeBounds
<1>. QED  BY <1>2, <1>3, <1>4, <1>5

\* The prices of the limit orders.
LEMMA PricesOfOffers ==
  ASSUME NEW B, Offers(B)
  PROVE  /\ IsFiniteSet(Pricing!LimitPrices(B))
         /\ \A x \in Pricing!LimitPrices(B) : x \in Nat /\ x # Market
         /\ \A o \in B : o.price # Market => o.price \in Pricing!LimitPrices(B)
<1>. DEFINE P == {o.price : o \in B}
<1>1. Pricing!LimitPrices(B) = P \ {Market}
  BY PricingNames DEF Pricing!LimitPrices
<1>2. IsFiniteSet(P)
  <2>1. [o \in B |-> o.price] \in Surjection(B, P)
    BY DEF Surjection
  <2>. QED  BY <2>1, FS_Surjection DEF Offers
<1>3. IsFiniteSet(P \ {Market})
  BY <1>2, FS_Subset
<1>. QED  BY <1>1, <1>3 DEF Offers

\* An ask and a bid that can trade: the ask's price, and any other limit price
\* between the two, is a candidate for the clearing price.
LEMMA BetweenIsACandidate ==
  ASSUME NEW bids, NEW asks, Offers(bids), Offers(asks),
         NEW b \in bids, NEW a \in asks, b.price # Market, a.price # Market,
         NEW o \in bids \cup asks, o.price # Market, a.price <= o.price, o.price <= b.price
  PROVE  o.price \in Pricing!CrossingPrices(bids, asks)
<1>1. /\ o.price \in Nat /\ a.price \in Nat /\ b.price \in Nat
  BY DEF Offers
<1>2. Offers(bids \cup asks)
  BY FS_Union DEF Offers
<1>3. o.price \in Pricing!LimitPrices(bids \cup asks)
  BY <1>2, PricesOfOffers
<1>4. /\ Min(Pricing!LimitPrices(asks)) \in Int /\ Min(Pricing!LimitPrices(asks)) <= a.price
  BY PricesOfOffers, ExtremeMembers
<1>5. /\ Max(Pricing!LimitPrices(bids)) \in Int /\ Max(Pricing!LimitPrices(bids)) >= b.price
  BY PricesOfOffers, ExtremeMembers
<1>6. /\ Min(Pricing!LimitPrices(asks)) <= o.price
      /\ o.price <= Max(Pricing!LimitPrices(bids))
  BY <1>1, <1>4, <1>5
<1>. QED  BY <1>3, <1>6, PricingNames DEF Pricing!CrossingPrices

\* The strategy's volume is the largest of the volumes at its candidates, and is
\* reached at each optimal one.
LEMMA LargestVolume ==
  ASSUME NEW bids, NEW asks, Offers(bids), Offers(asks),
         Pricing!CrossingPrices(bids, asks) # {}
  PROVE  /\ Pricing!MaxVolume(bids, asks) \in Nat
         /\ \A p \in Pricing!CrossingPrices(bids, asks) :
              Pricing!VolumeAtPrice(bids, asks, 2 * p) <= Pricing!MaxVolume(bids, asks)
         /\ IsFiniteSet(Pricing!OptimalPrices(bids, asks))
         /\ Pricing!OptimalPrices(bids, asks) # {}
         /\ \A p \in Pricing!OptimalPrices(bids, asks) :
              /\ p \in Nat
              /\ Pricing!VolumeAtPrice(bids, asks, 2 * p) = Pricing!MaxVolume(bids, asks)
<1>. DEFINE C == Pricing!CrossingPrices(bids, asks)
            v(p) == Pricing!VolumeAtPrice(bids, asks, 2 * p)
            V == {v(p) : p \in C}
<1>1. IsFiniteSet(C) /\ \A p \in C : p \in Nat
  <2>1. Offers(bids \cup asks)
    BY FS_Union DEF Offers
  <2>2. C \subseteq Pricing!LimitPrices(bids \cup asks)
    BY DEF Pricing!CrossingPrices
  <2>. QED  BY <2>1, <2>2, PricesOfOffers, FS_Subset
<1>2. \A p \in C : v(p) \in Nat
  BY VolumeBounds
<1>. HIDE DEF C, v
<1>3. IsFiniteSet(V) /\ V # {} /\ \A x \in V : x \in Nat
  <2>1. [p \in C |-> v(p)] \in Surjection(C, V)
    BY DEF Surjection
  <2>2. C # {}
    BY DEF C
  <2>. QED  BY <1>1, <1>2, <2>1, <2>2, FS_Surjection
<1>4. Pricing!MaxVolume(bids, asks) = Max(V)
  BY PricingNames DEF Pricing!MaxVolume, C, v
<1>5. Max(V) \in V /\ \A x \in V : Max(V) >= x
  <2>1. \A x \in V : x \in Int
    BY <1>3
  <2>. HIDE DEF V
  <2>. QED  BY <1>3, <2>1, ExtremeMembers
<1>6. PICK m \in C : Max(V) = v(m)
  BY <1>5
<1>7. /\ Max(V) \in Nat
      /\ \A p \in C : v(p) <= Max(V)
  <2>1. Max(V) \in Nat
    BY <1>3, <1>5
  <2>2. ASSUME NEW p \in C PROVE v(p) <= Max(V)
    <3>1. v(p) \in V /\ v(p) \in Nat
      BY <1>2
    <3>. HIDE DEF V
    <3>. QED  BY <1>5, <2>1, <3>1
  <2>. QED  BY <2>1, <2>2
<1>8. Pricing!OptimalPrices(bids, asks) = {p \in C : v(p) = Max(V)}
  BY <1>4 DEF Pricing!OptimalPrices, C, v
<1>. HIDE DEF V
<1>9. /\ IsFiniteSet({p \in C : v(p) = Max(V)})
      /\ {p \in C : v(p) = Max(V)} # {}
  BY <1>1, <1>6, FS_Subset
<1>. QED  BY <1>1, <1>4, <1>7, <1>8, <1>9 DEF C, v

\* What an auction of the batch should trade, by the pricing strategy.
LEMMA ClearingVolume ==
  ASSUME NEW bids, NEW asks, Offers(bids), Offers(asks)
  PROVE  LET C == Pricing!CrossingPrices(bids, asks)
             v == Pricing!ClearingPrice(bids, asks).volume
         IN IF bids = {} \/ asks = {} \/ C = {}
            THEN v = 0
            ELSE /\ v = Pricing!MaxVolume(bids, asks) /\ v \in Nat
                 /\ \A p \in C : Pricing!VolumeAtPrice(bids, asks, 2 * p) <= v
BY LargestVolume DEF Pricing!ClearingPrice

\* No price would trade more than the strategy's, one between the orders' prices
\* neither.
LEMMA NoPriceTradesMore ==
  ASSUME NEW bids, NEW asks, Offers(bids), Offers(asks), NEW p \in Int
  PROVE  Pricing!VolumeAtPrice(bids, asks, p) <= Pricing!ClearingPrice(bids, asks).volume
<1>1. PICK B, A : B = Pricing!EligibleBids(bids, p) /\ A = Pricing!EligibleAsks(asks, p)
  OBVIOUS
<1>2. /\ B = {o \in bids : o.price # Market /\ 2 * o.price >= p}
      /\ A = {o \in asks : o.price # Market /\ 2 * o.price <= p}
  BY <1>1, PricingNames DEF Pricing!EligibleBids, Pricing!EligibleAsks
<1>3. PICK v, w : /\ v = Pricing!ClearingPrice(bids, asks).volume
                  /\ w = Pricing!VolumeAtPrice(bids, asks, p)
  OBVIOUS
<1>4. v \in Nat /\ w \in Nat
  BY <1>3, ClearingVolume, VolumeBounds
<1>5. CASE A = {} \/ B = {}
  <2>1. w <= 0
    <3>1. Pricing!Quantity({}) = 0
      BY QuantityGrows
    <3>2. w <= Pricing!Quantity(A) /\ w <= Pricing!Quantity(B)
      BY <1>1, <1>3, VolumeBounds
    <3>. QED  BY <1>5, <3>1, <3>2
  <2>. QED  BY <1>3, <1>4, <2>1
<1>6. CASE A # {} /\ B # {}
  <2>1. PICK b \in B : TRUE
    BY <1>6
  <2>2. PICK a \in A : \A x \in A : x.price <= a.price
    <3>1. Offers(A)
      BY <1>2, FS_Subset DEF Offers
    <3>2. PICK P : P = Pricing!LimitPrices(A)
      OBVIOUS
    <3>3. P = {o.price : o \in A}
      BY <1>2, <3>2, PricingNames DEF Pricing!LimitPrices
    <3>4. IsFiniteSet(P) /\ P # {} /\ \A x \in P : x \in Int
      <4>1. IsFiniteSet(P) /\ \A x \in P : x \in Nat
        BY <3>1, <3>2, PricesOfOffers
      <4>. QED  BY <1>6, <3>3, <4>1
    <3>5. Max(P) \in P /\ \A x \in P : Max(P) >= x
      BY <3>4, ExtremeMembers
    <3>6. PICK a \in A : a.price = Max(P)
      BY <3>3, <3>5
    <3>7. \A x \in A : x.price \in P /\ x.price \in Nat
      BY <3>1, <3>3 DEF Offers
    <3>. QED  BY <3>5, <3>6, <3>7
  <2>3. /\ b \in bids /\ a \in asks /\ b.price # Market /\ a.price # Market
        /\ a.price \in Nat /\ b.price \in Nat /\ 2 * b.price >= p /\ 2 * a.price <= p
    BY <1>2, <2>1, <2>2 DEF Offers
  <2>4. a.price <= b.price
    BY <2>3
  <2>5. a.price \in Pricing!CrossingPrices(bids, asks)
    BY <2>3, <2>4, BetweenIsACandidate
  <2>6. Pricing!VolumeAtPrice(bids, asks, 2 * a.price) <= v
    BY <1>3, <2>3, <2>5, ClearingVolume
  <2>7. B \subseteq Pricing!EligibleBids(bids, 2 * a.price)
    <3>1. Pricing!EligibleBids(bids, 2 * a.price)
            = {o \in bids : o.price # Market /\ 2 * o.price >= 2 * a.price}
      BY PricingNames DEF Pricing!EligibleBids
    <3>. QED  BY <1>2, <2>3, <3>1 DEF Offers
  <2>8. A \subseteq Pricing!EligibleAsks(asks, 2 * a.price)
    <3>1. Pricing!EligibleAsks(asks, 2 * a.price)
            = {o \in asks : o.price # Market /\ 2 * o.price <= 2 * a.price}
      BY PricingNames DEF Pricing!EligibleAsks
    <3>2. \A x \in A : x.price \in Nat
      BY <1>2 DEF Offers
    <3>. QED  BY <1>2, <2>2, <2>3, <3>1, <3>2
  <2>9. w <= Pricing!VolumeAtPrice(bids, asks, 2 * a.price)
    BY <1>1, <1>3, <2>7, <2>8, MoreIsEligible
  <2>10. Pricing!VolumeAtPrice(bids, asks, 2 * a.price) \in Nat
    BY VolumeBounds
  <2>. QED  BY <1>3, <1>4, <2>6, <2>9, <2>10
<1>. QED  BY <1>5, <1>6

\* The clearing price, which may lie between two orders' prices, trades the volume
\* that the strategy names.
LEMMA ClearingPriceTradesAll ==
  ASSUME NEW bids, NEW asks, Offers(bids), Offers(asks),
         NEW r, r = Pricing!ClearingPrice(bids, asks), r.volume > 0
  PROVE  Pricing!VolumeAtPrice(bids, asks, r.price) = r.volume
<1>. DEFINE C == Pricing!CrossingPrices(bids, asks)
            O == Pricing!OptimalPrices(bids, asks)
<1>1. ~(bids = {} \/ asks = {} \/ C = {})
  BY ClearingVolume
<1>2. /\ r.price = Min(O) + Max(O)
      /\ r.volume = Pricing!MaxVolume(bids, asks)
  <2>1. r = [price |-> Pricing!SelectClearingPrice(O), volume |-> Pricing!MaxVolume(bids, asks)]
    BY <1>1 DEF Pricing!ClearingPrice
  <2>. QED  BY <2>1, PricingNames DEF Pricing!SelectClearingPrice
<1>3. /\ IsFiniteSet(O) /\ O # {}
      /\ \A p \in O : /\ p \in Nat
                      /\ Pricing!VolumeAtPrice(bids, asks, 2 * p) = r.volume
  BY <1>1, <1>2, LargestVolume
<1>. HIDE DEF O, C
<1>4. PICK l, h \in O : l = Min(O) /\ h = Max(O) /\ l <= h
  <2>1. \A p \in O : p \in Int
    BY <1>3
  <2>. QED  BY <1>3, <2>1, ExtremeMembers
<1>5. l \in Nat /\ h \in Nat /\ r.price = l + h /\ 2 * l <= l + h /\ l + h <= 2 * h
  BY <1>2, <1>3, <1>4
<1>6. Pricing!EligibleBids(bids, 2 * h) \subseteq Pricing!EligibleBids(bids, r.price)
  BY <1>5 DEF Pricing!EligibleBids, Offers
<1>7. Pricing!EligibleAsks(asks, 2 * l) \subseteq Pricing!EligibleAsks(asks, r.price)
  BY <1>5 DEF Pricing!EligibleAsks, Offers
<1>8. PICK x, y, v :
        /\ x = Pricing!Quantity(Pricing!EligibleBids(bids, r.price))
        /\ y = Pricing!Quantity(Pricing!EligibleAsks(asks, r.price))
        /\ v = Pricing!VolumeAtPrice(bids, asks, r.price)
  OBVIOUS
<1>9. v \in {x, y} /\ v \in Nat /\ x \in Nat /\ y \in Nat
  BY <1>8, VolumeBounds
<1>10. r.volume \in Nat /\ r.volume <= x
  <2>1. PICK z : z = Pricing!Quantity(Pricing!EligibleBids(bids, 2 * h))
    OBVIOUS
  <2>2. z <= x /\ z \in Nat
    <3>1. Pricing!EligibleBids(bids, r.price) \subseteq bids
      BY DEF Pricing!EligibleBids
    <3>. QED  BY <1>6, <1>8, <2>1, <3>1, QuantityGrows
  <2>3. r.volume <= z /\ r.volume \in Nat
    BY <1>3, <1>4, <2>1, VolumeBounds
  <2>. QED  BY <1>9, <2>2, <2>3
<1>11. r.volume <= y
  <2>1. PICK z : z = Pricing!Quantity(Pricing!EligibleAsks(asks, 2 * l))
    OBVIOUS
  <2>2. z <= y /\ z \in Nat
    <3>1. Pricing!EligibleAsks(asks, r.price) \subseteq asks
      BY DEF Pricing!EligibleAsks
    <3>. QED  BY <1>7, <1>8, <2>1, <3>1, QuantityGrows
  <2>3. r.volume <= z
    BY <1>3, <1>4, <2>1, VolumeBounds
  <2>. QED  BY <1>9, <1>10, <2>2, <2>3
<1>12. v <= r.volume
  BY <1>5, <1>8, NoPriceTradesMore
<1>. QED  BY <1>8, <1>9, <1>10, <1>11, <1>12

-----------------------------------------------------------------------------
(* The volume of the auction. *)

\* No two orders of the batch that are open can trade with one another.
OpenDoNotCross ==
  \A a \in OfSide("buy"), b \in OfSide("sell") :
    /\ limit[a] # Market /\ limit[b] # Market
    /\ remaining[a] > 0 /\ remaining[b] > 0
    => limit[a] < limit[b]

\* Any two orders of the batch that have traded could have traded with one another.
TradedCross ==
  \A a \in OfSide("buy"), b \in OfSide("sell") :
    remaining[a] < quantity[a] /\ remaining[b] < quantity[b] => limit[a] >= limit[b]

\* No market order takes part in the auction.
OnlyLimits == \A o \in batch : limit[o] # Market

\* How much of each order has traded.
Filled == [o \in Orders |-> quantity[o] - remaining[o]]

\* An order as the pricing strategy gets it.
Offer(o) == [id |-> o, price |-> limit[o], quantity |-> quantity[o]]

\* The batch as the pricing strategy gets it.
LEMMA OffersOfBatch ==
  ASSUME VenueInv, NEW s
  PROVE  /\ Offers(BatchOf(s))
         /\ \A T \in SUBSET OfSide(s) :
              Pricing!Quantity({Offer(o) : o \in T}) = SumFunctionOnSet(quantity, T)
<1>1. /\ OfSide(s) \subseteq Orders /\ IsFiniteSet(OfSide(s))
      /\ quantity \in [Orders -> Nat] /\ limit \in [Orders -> Nat]
  <2>1. OfSide(s) \subseteq batch /\ batch \subseteq Orders /\ IsFiniteSet(batch)
    BY DEF VenueInv, VenueTypeOK, BatchKept, OfSide
  <2>2. quantity \in [Orders -> Nat]
    BY DEF VenueInv, BookKept, TypeOK
  <2>3. limit \in [Orders -> Nat]
    <3>1. Prices \cup {Market} \subseteq Nat
      BY PricesAssumption DEF Market
    <3>. QED  BY <3>1 DEF VenueInv, BookKept, TypeOK
  <2>. QED  BY <2>1, <2>2, <2>3, FS_Subset
<1>2. Offers(BatchOf(s))
  <2>1. [o \in OfSide(s) |-> Offer(o)] \in Surjection(OfSide(s), BatchOf(s))
    BY DEF Surjection, BatchOf, Offer
  <2>2. IsFiniteSet(BatchOf(s))
    BY <1>1, <2>1, FS_Surjection
  <2>3. \A x \in BatchOf(s) : x.price \in Nat /\ x.quantity \in Nat
    BY <1>1 DEF BatchOf
  <2>. QED  BY <2>2, <2>3 DEF Offers
<1>3. ASSUME NEW T \in SUBSET OfSide(s)
      PROVE  Pricing!Quantity({Offer(o) : o \in T}) = SumFunctionOnSet(quantity, T)
  <2>. DEFINE h == [o \in T |-> Offer(o)]
              R == {h[o] : o \in T}
              g == [x \in R |-> x.quantity]
  <2>1. {Offer(o) : o \in T} = R
    OBVIOUS
  <2>2. IsFiniteSet(T)
    BY <1>1, FS_Subset
  <2>3. \A x, y \in T : h[x] = h[y] => x = y
    <3>1. \A x, y \in T : Offer(x) = Offer(y) => Offer(x).id = Offer(y).id
      OBVIOUS
    <3>. QED  BY <3>1 DEF Offer
  <2>4. \A x \in T : quantity[x] \in Int /\ g[h[x]] = quantity[x]
    BY <1>1 DEF Offer
  <2>5. SumFunctionOnSet(g, R) = SumFunctionOnSet(quantity, T)
    <3>. HIDE DEF g, h
    <3>. QED  BY <2>2, <2>3, <2>4, SumOfImages
  <2>6. Pricing!Quantity(R) = SumFunctionOnSet(g, R)
    BY PricingNames DEF Pricing!Quantity
  <2>. QED  BY <2>1, <2>5, <2>6
<1>. QED  BY <1>2, <1>3

\* Who is eligible at a price.
LEMMA EligibleOfBatch ==
  ASSUME VenueInv, NEW p \in Int
  PROVE  /\ Pricing!EligibleBids(BatchOf("buy"), p)
              = {Offer(o) : o \in {x \in OfSide("buy") : limit[x] # Market /\ 2 * limit[x] >= p}}
         /\ Pricing!EligibleAsks(BatchOf("sell"), p)
              = {Offer(o) : o \in {x \in OfSide("sell") : limit[x] # Market /\ 2 * limit[x] <= p}}
BY PricingNames DEF Pricing!EligibleBids, Pricing!EligibleAsks, BatchOf, Offer

\* What is filled of the orders of a side.
LEMMA FilledOfSide ==
  ASSUME VenueInv, \A o \in batch : remaining[o] <= quantity[o], NEW s
  PROVE  /\ OfSide(s) \subseteq Orders /\ IsFiniteSet(OfSide(s))
         /\ \A o \in OfSide(s) : /\ Filled[o] \in Nat /\ quantity[o] \in Nat
                                 /\ Filled[o] = quantity[o] - remaining[o]
                                 /\ Filled[o] <= quantity[o]
                                 /\ remaining[o] \in Nat /\ limit[o] \in Nat
         /\ Traded(s) = SumFunctionOnSet(Filled, OfSide(s))
         /\ Traded(s) \in Nat
<1>1. /\ OfSide(s) \subseteq batch /\ batch \subseteq Orders /\ IsFiniteSet(batch)
      /\ quantity \in [Orders -> Nat] /\ remaining \in [Orders -> Nat]
  BY DEF VenueInv, VenueTypeOK, BatchKept, OfSide, BookKept, TypeOK
<1>2. \A o \in OfSide(s) : limit[o] \in Nat
  <2>1. Prices \cup {Market} \subseteq Nat
    BY PricesAssumption DEF Market
  <2>. QED  BY <1>1, <2>1 DEF VenueInv, BookKept, TypeOK
<1>3. \A o \in OfSide(s) : /\ Filled[o] \in Nat /\ quantity[o] \in Nat
                           /\ Filled[o] = quantity[o] - remaining[o]
                           /\ Filled[o] <= quantity[o] /\ remaining[o] \in Nat
  BY <1>1 DEF Filled
<1>4. IsFiniteSet(OfSide(s))
  BY <1>1, FS_Subset
<1>5. Traded(s) = SumFunctionOnSet(Filled, OfSide(s))
  BY DEF Traded, Filled
<1>6. SumFunctionOnSet(Filled, OfSide(s)) \in Nat
  BY <1>3, <1>4, SumIsNatural
<1>. QED  BY <1>1, <1>2, <1>3, <1>4, <1>5, <1>6

\* Where no open orders cross, the auction has traded what any price would: at
\* each price one side or the other is filled.
LEMMA TradedAtLeast ==
  ASSUME VenueInv, \A o \in batch : remaining[o] <= quantity[o],
         Traded("buy") = Traded("sell"), OpenDoNotCross, NEW p \in Int
  PROVE  Pricing!VolumeAtPrice(BatchOf("buy"), BatchOf("sell"), p) <= Traded("buy")
<1>1. PICK A, B :
        /\ B = {x \in OfSide("buy") : limit[x] # Market /\ 2 * limit[x] >= p}
        /\ A = {x \in OfSide("sell") : limit[x] # Market /\ 2 * limit[x] <= p}
  OBVIOUS
<1>2. PICK v, a, b : /\ v = Pricing!VolumeAtPrice(BatchOf("buy"), BatchOf("sell"), p)
                     /\ b = SumFunctionOnSet(quantity, B) /\ a = SumFunctionOnSet(quantity, A)
  OBVIOUS
<1>3. v \in Nat /\ v <= a /\ v <= b /\ a \in Nat /\ b \in Nat
  <2>1. A \in SUBSET OfSide("sell") /\ B \in SUBSET OfSide("buy")
    BY <1>1
  <2>2. /\ b = Pricing!Quantity(Pricing!EligibleBids(BatchOf("buy"), p))
        /\ a = Pricing!Quantity(Pricing!EligibleAsks(BatchOf("sell"), p))
    BY <1>1, <1>2, <2>1, OffersOfBatch, EligibleOfBatch
  <2>. QED  BY <1>2, <2>2, OffersOfBatch, VolumeBounds
<1>4. Traded("buy") \in Nat /\ Traded("sell") \in Nat
  BY FilledOfSide
<1>5. CASE \A x \in B : remaining[x] = 0
  <2>1. \A x \in B : quantity[x] \in Int /\ quantity[x] <= Filled[x]
    BY <1>1, <1>5, FilledOfSide
  <2>2. \A x \in OfSide("buy") : Filled[x] \in Int /\ Filled[x] >= 0
    BY FilledOfSide
  <2>3. IsFiniteSet(OfSide("buy")) /\ B \subseteq OfSide("buy")
    BY <1>1, FilledOfSide
  <2>4. b <= Traded("buy")
    BY <1>2, <2>1, <2>2, <2>3, FilledOfSide, SumOfMore
  <2>. QED  BY <1>2, <1>3, <1>4, <2>4
<1>6. CASE \E x \in B : remaining[x] # 0
  <2>1. \A x \in A : remaining[x] = 0
    <3>1. PICK y \in B : remaining[y] # 0
      BY <1>6
    <3>2. y \in OfSide("buy") /\ limit[y] # Market /\ 2 * limit[y] >= p /\ limit[y] \in Nat
          /\ remaining[y] > 0
      BY <1>1, <3>1, FilledOfSide
    <3>. SUFFICES ASSUME NEW x \in A, remaining[x] # 0 PROVE FALSE
      OBVIOUS
    <3>3. /\ x \in OfSide("sell") /\ limit[x] # Market /\ 2 * limit[x] <= p
          /\ limit[x] \in Nat /\ remaining[x] > 0
      BY <1>1, FilledOfSide
    <3>4. limit[y] < limit[x]
      BY <3>2, <3>3 DEF OpenDoNotCross
    <3>. QED  BY <3>2, <3>3, <3>4
  <2>2. \A x \in A : quantity[x] \in Int /\ quantity[x] <= Filled[x]
    BY <1>1, <2>1, FilledOfSide
  <2>3. \A x \in OfSide("sell") : Filled[x] \in Int /\ Filled[x] >= 0
    BY FilledOfSide
  <2>4. IsFiniteSet(OfSide("sell")) /\ A \subseteq OfSide("sell")
    BY <1>1, FilledOfSide
  <2>5. a <= Traded("sell")
    BY <1>2, <2>2, <2>3, <2>4, FilledOfSide, SumOfMore
  <2>. QED  BY <1>2, <1>3, <1>4, <2>5
<1>. QED  BY <1>5, <1>6

\* Where all that traded could have traded with one another, the worst price of a
\* sell order that did is one at which all of it could.
LEMMA TradedAtMost ==
  ASSUME VenueInv, \A o \in batch : remaining[o] <= quantity[o],
         Traded("buy") = Traded("sell"), TradedCross, OnlyLimits, Traded("buy") # 0
  PROVE  \E p \in Pricing!CrossingPrices(BatchOf("buy"), BatchOf("sell")) :
           Traded("buy") <= Pricing!VolumeAtPrice(BatchOf("buy"), BatchOf("sell"), 2 * p)
<1>1. PICK A, B : /\ B = {x \in OfSide("buy") : remaining[x] < quantity[x]}
                  /\ A = {x \in OfSide("sell") : remaining[x] < quantity[x]}
  OBVIOUS
<1>2. /\ \A x \in OfSide("buy") \ B : Filled[x] = 0
      /\ \A x \in OfSide("sell") \ A : Filled[x] = 0
  BY <1>1, FilledOfSide
<1>3. A # {} /\ B # {}
  <2>1. ASSUME B = {} PROVE FALSE
    <3>1. \A x \in OfSide("buy") : Filled[x] = 0
      BY <1>2, <2>1
    <3>. QED  BY <3>1, FilledOfSide, SumOfZeros
  <2>2. ASSUME A = {} PROVE FALSE
    <3>1. \A x \in OfSide("sell") : Filled[x] = 0
      BY <1>2, <2>2
    <3>. QED  BY <3>1, FilledOfSide, SumOfZeros
  <2>. QED  BY <2>1, <2>2
<1>4. PICK m \in A : \A x \in A : limit[x] <= limit[m]
  <2>1. PICK P : P = {limit[x] : x \in A}
    OBVIOUS
  <2>2. IsFiniteSet(A)
    BY <1>1, FilledOfSide, FS_Subset
  <2>3. IsFiniteSet(P)
    <3>1. [x \in A |-> limit[x]] \in Surjection(A, P)
      BY <2>1 DEF Surjection
    <3>. QED  BY <2>2, <3>1, FS_Surjection
  <2>4. \A x \in A : limit[x] \in Nat
    BY <1>1, FilledOfSide
  <2>5. P # {} /\ \A x \in P : x \in Int
    BY <1>3, <2>1, <2>4
  <2>6. Max(P) \in P /\ \A x \in P : Max(P) >= x
    BY <2>3, <2>5, ExtremeMembers
  <2>7. PICK m \in A : limit[m] = Max(P)
    BY <2>1, <2>6
  <2>8. \A x \in A : limit[x] \in P
    BY <2>1
  <2>. QED  BY <2>4, <2>6, <2>7, <2>8
<1>5. PICK p : p = limit[m]
  OBVIOUS
<1>6. p \in Nat /\ p # Market /\ m \in OfSide("sell")
  BY <1>1, <1>4, <1>5, FilledOfSide DEF OnlyLimits, OfSide
<1>7. p \in Pricing!CrossingPrices(BatchOf("buy"), BatchOf("sell"))
  <2>1. PICK x \in B : TRUE
    BY <1>3
  <2>2. x \in OfSide("buy") /\ limit[x] # Market /\ limit[x] \in Nat /\ p <= limit[x]
    BY <1>1, <1>4, <1>5, <1>6, FilledOfSide DEF TradedCross, OnlyLimits, OfSide
  <2>3. /\ Offer(x) \in BatchOf("buy") /\ Offer(x).price = limit[x]
        /\ Offer(m) \in BatchOf("sell") /\ Offer(m).price = p
    BY <1>5, <1>6, <2>2 DEF BatchOf, Offer
  <2>4. p <= p
    BY <1>6
  <2>. QED  BY <1>6, <2>2, <2>3, <2>4, OffersOfBatch, BetweenIsACandidate
<1>8. PICK C, D :
        /\ D = {x \in OfSide("buy") : limit[x] # Market /\ 2 * limit[x] >= 2 * p}
        /\ C = {x \in OfSide("sell") : limit[x] # Market /\ 2 * limit[x] <= 2 * p}
  OBVIOUS
<1>9. B \subseteq D /\ A \subseteq C
  <2>1. ASSUME NEW x \in B PROVE x \in D
    <3>1. x \in OfSide("buy") /\ limit[x] # Market /\ limit[x] \in Nat
      BY <1>1, FilledOfSide DEF OnlyLimits, OfSide
    <3>2. p <= limit[x]
      BY <1>1, <1>4, <1>5, <1>6, <3>1 DEF TradedCross
    <3>. QED  BY <1>6, <1>8, <3>1, <3>2
  <2>2. ASSUME NEW x \in A PROVE x \in C
    <3>1. x \in OfSide("sell") /\ limit[x] # Market /\ limit[x] \in Nat
      BY <1>1, FilledOfSide DEF OnlyLimits, OfSide
    <3>2. limit[x] <= p
      BY <1>4, <1>5
    <3>. QED  BY <1>6, <1>8, <3>1, <3>2
  <2>. QED  BY <2>1, <2>2
<1>10. Traded("buy") <= SumFunctionOnSet(quantity, D)
  <2>1. \A x \in OfSide("buy") : Filled[x] \in Int /\ quantity[x] \in Nat /\ Filled[x] <= quantity[x]
    BY FilledOfSide
  <2>2. \A x \in OfSide("buy") \ D : Filled[x] <= 0
    BY <1>2, <1>9
  <2>3. D \subseteq OfSide("buy") /\ IsFiniteSet(OfSide("buy")) /\ IsFiniteSet(D)
    BY <1>8, FilledOfSide, FS_Subset
  <2>4. /\ \A x \in D : quantity[x] \in Int
        /\ \A x \in OfSide("buy") \cap D : Filled[x] <= quantity[x]
        /\ \A x \in D \ OfSide("buy") : quantity[x] >= 0
    BY <2>1, <2>3
  <2>5. SumFunctionOnSet(Filled, OfSide("buy")) <= SumFunctionOnSet(quantity, D)
    BY <2>1, <2>2, <2>3, <2>4, SumAtMost
  <2>. QED  BY <2>5, FilledOfSide
<1>11. Traded("sell") <= SumFunctionOnSet(quantity, C)
  <2>1. \A x \in OfSide("sell") : Filled[x] \in Int /\ quantity[x] \in Nat /\ Filled[x] <= quantity[x]
    BY FilledOfSide
  <2>2. \A x \in OfSide("sell") \ C : Filled[x] <= 0
    BY <1>2, <1>9
  <2>3. C \subseteq OfSide("sell") /\ IsFiniteSet(OfSide("sell")) /\ IsFiniteSet(C)
    BY <1>8, FilledOfSide, FS_Subset
  <2>4. /\ \A x \in C : quantity[x] \in Int
        /\ \A x \in OfSide("sell") \cap C : Filled[x] <= quantity[x]
        /\ \A x \in C \ OfSide("sell") : quantity[x] >= 0
    BY <2>1, <2>3
  <2>5. SumFunctionOnSet(Filled, OfSide("sell")) <= SumFunctionOnSet(quantity, C)
    BY <2>1, <2>2, <2>3, <2>4, SumAtMost
  <2>. QED  BY <2>5, FilledOfSide
<1>12. Traded("buy") <= Pricing!VolumeAtPrice(BatchOf("buy"), BatchOf("sell"), 2 * p)
  <2>1. C \in SUBSET OfSide("sell") /\ D \in SUBSET OfSide("buy") /\ 2 * p \in Int
    BY <1>6, <1>8
  <2>2. /\ SumFunctionOnSet(quantity, D)
             = Pricing!Quantity(Pricing!EligibleBids(BatchOf("buy"), 2 * p))
        /\ SumFunctionOnSet(quantity, C)
             = Pricing!Quantity(Pricing!EligibleAsks(BatchOf("sell"), 2 * p))
    BY <1>8, <2>1, OffersOfBatch, EligibleOfBatch
  <2>. QED  BY <1>10, <1>11, <2>2, OffersOfBatch, VolumeBounds
<1>. QED  BY <1>7, <1>12

\* Then what it traded is what the strategy computes for the batch.
LEMMA VolumeIsTheStrategys ==
  ASSUME VenueInv, \A o \in batch : remaining[o] <= quantity[o],
         Traded("buy") = Traded("sell"), OpenDoNotCross, OnlyLimits => TradedCross
  PROVE  AuctionTradesMaximum
<1>1. PICK bids, asks, r : /\ bids = BatchOf("buy") /\ asks = BatchOf("sell")
                           /\ r = Pricing!ClearingPrice(bids, asks)
  OBVIOUS
<1>2. Offers(bids) /\ Offers(asks)
  BY <1>1, OffersOfBatch
<1>3. Traded("buy") \in Nat
  BY FilledOfSide
<1>4. r.volume \in Nat
  BY <1>1, <1>2, ClearingVolume
<1>5. Traded("buy") >= r.volume
  <2>1. CASE bids = {} \/ asks = {} \/ Pricing!CrossingPrices(bids, asks) = {}
    BY <1>1, <1>2, <1>3, <2>1, ClearingVolume
  <2>2. CASE ~(bids = {} \/ asks = {} \/ Pricing!CrossingPrices(bids, asks) = {})
    <3>1. PICK p \in Pricing!OptimalPrices(bids, asks) :
            p \in Nat /\ Pricing!VolumeAtPrice(bids, asks, 2 * p) = r.volume
      BY <1>1, <1>2, <2>2, LargestVolume, ClearingVolume
    <3>2. 2 * p \in Int
      BY <3>1
    <3>3. r.volume <= Traded("buy")
      BY <1>1, <3>1, <3>2, TradedAtLeast
    <3>. QED  BY <1>3, <1>4, <3>3
  <2>. QED  BY <2>1, <2>2
<1>6. OnlyLimits => Traded("buy") <= r.volume
  <2>. SUFFICES ASSUME OnlyLimits, Traded("buy") # 0 PROVE Traded("buy") <= r.volume
    BY <1>3, <1>4
  <2>1. PICK p \in Pricing!CrossingPrices(bids, asks) :
          Traded("buy") <= Pricing!VolumeAtPrice(bids, asks, 2 * p)
    BY <1>1, TradedAtMost
  <2>2. PICK v : v = Pricing!VolumeAtPrice(bids, asks, 2 * p)
    OBVIOUS
  <2>3. v \in Nat
    BY <1>2, <2>2, VolumeBounds
  <2>4. v <= r.volume
    <3>1. bids # {} /\ asks # {}
      <4>1. bids # {}
        <5>1. \E o \in OfSide("buy") : TRUE
          BY FilledOfSide, SumEmpty
        <5>. QED  BY <1>1, <5>1 DEF BatchOf
      <4>2. asks # {}
        <5>1. \E o \in OfSide("sell") : TRUE
          BY FilledOfSide, SumEmpty
        <5>. QED  BY <1>1, <5>1 DEF BatchOf
      <4>. QED  BY <4>1, <4>2
    <3>. QED  BY <1>1, <1>2, <2>1, <2>2, <3>1, ClearingVolume
  <2>. QED  BY <1>3, <1>4, <2>1, <2>2, <2>3, <2>4
<1>7. OnlyLimits => Traded("buy") = r.volume
  BY <1>3, <1>4, <1>5, <1>6
<1>8. \A p \in Int : Pricing!VolumeAtPrice(bids, asks, p) <= r.volume
  BY <1>1, <1>2, NoPriceTradesMore
<1>9. r.volume > 0 => Pricing!VolumeAtPrice(bids, asks, r.price) = r.volume
  BY <1>1, <1>2, ClearingPriceTradesAll
<1>. QED  BY <1>1, <1>5, <1>7, <1>8, <1>9 DEF AuctionTradesMaximum, OnlyLimits

\* With a check in every phase, the book of an auction holds orders of its batch only.
OwnBook ==
  /\ task # "idle" => cached = "opening_auction"
  /\ task # "idle" \/ cached = "pre_open" =>
       ids \subseteq batch /\ incoming \in batch \cup {NoOrder}

\* Both sides of the auction trade the same amount.  Without market orders, what has
\* traded could have traded with one another, and once the crossing has stopped no
\* open orders of the batch cross.
VolumeKept ==
  /\ \A o \in batch : remaining[o] <= quantity[o]
  /\ task # "idle" => Traded("buy") = Traded("sell")
  /\ OnlyLimits /\ task # "idle" => TradedCross
  /\ OnlyLimits /\ task = "adding" => OpenDoNotCross

\* The close empties the book of a day before the next one's batch is taken.
LEMMA OwnBookStep ==
  ASSUME VenueInv, Checked, OwnBook, [VenueNext]_allVars
  PROVE  OwnBook'
<1>1. ASSUME UNCHANGED <<task, cached, incoming>>, batch \subseteq batch', ids' \subseteq ids
      PROVE  OwnBook'
  BY <1>1 DEF OwnBook
<1>2. ASSUME task' = "idle", cached' # "pre_open"
      PROVE  OwnBook'
  BY <1>2 DEF OwnBook
<1>3. ASSUME NEW o \in Orders, NEW s \in Sides, NEW p \in Prices \cup {Market},
             NEW q \in Quantities,
             SubmitRejected(o, s, p, q) \/ SubmitToBatch(o, s, p, q)
               \/ SubmitContinuous(o, s, p, q)
      PROVE  OwnBook'
  <2>1. CASE SubmitRejected(o, s, p, q)
    BY <1>1, <2>1 DEF SubmitRejected, bookVars, venueVars
  <2>2. CASE SubmitToBatch(o, s, p, q)
    BY <1>1, <2>2 DEF SubmitToBatch, bookVars
  <2>3. CASE SubmitContinuous(o, s, p, q)
    BY <1>2, <2>3 DEF SubmitContinuous, Idle, ShouldUseBatchEngine, MatchingEnabled
  <2>. QED  BY <1>3, <2>1, <2>2, <2>3
<1>4. ASSUME NEW o \in Orders, CancelOrder(o)
      PROVE  OwnBook'
  BY <1>1, <1>4 DEF CancelOrder, Cancel
<1>5. CASE Matching
  <2>1. ASSUME NEW o \in Orders, NEW p \in Prices, MatchStep(o, p), UNCHANGED venueVars
        PROVE  OwnBook'
    BY <1>1, <2>1, MatchStepTakesFilled DEF VenueInv, venueVars, MatchStep
  <2>2. ASSUME NEW o \in Orders, MatchDone(o),
               UNCHANGED <<phase, cached, last, known, batch, task, buys, sells>>
        PROVE  OwnBook'
    <3>1. incoming = o /\ incoming' = NoOrder /\ ids' \subseteq ids \cup {o}
      BY <2>2 DEF MatchDone, Insert, bookVars
    <3>2. o # NoOrder
      BY OrdersAssumption DEF NoOrder
    <3>. QED  BY <2>2, <3>1, <3>2 DEF OwnBook
  <2>. QED  BY <1>5, <2>1, <2>2 DEF Matching
<1>6. CASE CrossStep \/ CrossDone
  <2>1. /\ task # "idle" /\ task' # "idle"
        /\ UNCHANGED <<cached, batch, ids, incoming>>
    BY <1>6 DEF CrossStep, CrossDone, vars, bookVars
  <2>. QED  BY <2>1 DEF OwnBook
<1>7. CASE AddLeftover
  <2>1. /\ task = "adding" /\ UNCHANGED <<task, cached, batch, ids>>
        /\ incoming' = IF buys # <<>> THEN Head(buys) ELSE Head(sells)
        /\ buys # <<>> \/ sells # <<>>
    BY <1>7 DEF AddLeftover, AddOrder, bookVars
  <2>2. InAuction /\ buys \in Seq(Orders) /\ sells \in Seq(Orders)
    BY <2>1 DEF VenueInv, BatchKept, VenueTypeOK
  <2>3. incoming' \in batch
    BY <2>1, <2>2, TailOfQueue DEF InAuction, OfSide
  <2>. QED  BY <2>1, <2>3 DEF OwnBook
<1>8. CASE FinishAuction
  BY <1>2, <1>8 DEF FinishAuction, OwnBook
<1>9. CASE CheckPhaseTransitions
  <2>1. /\ Idle /\ last # phase /\ cached' = phase /\ ids' \subseteq ids
        /\ UNCHANGED <<batch, incoming>>
        /\ IF EnterAuction THEN task' = "crossing" ELSE task' = task
    BY <1>9 DEF CheckPhaseTransitions, StartAuction, CancelAll, bookVars
  <2>2. phase = NextPhase[last] /\ cached = last /\ last \in Phases
    BY <2>1 DEF Checked, VenueInv, VenueTypeOK
  <2>3. phase = "pre_open" => last = "closed"
    BY <2>2 DEF Phases, NextPhase
  <2>4. phase = "pre_open" => ids = {} /\ incoming = NoOrder /\ task' = "idle"
    BY <2>1, <2>2, <2>3 DEF Checked, Idle, EnterAuction
  <2>. QED  BY <2>1, <2>2, <2>4 DEF OwnBook, Idle, EnterAuction
<1>10. CASE TimePasses
  BY <1>1, <1>10 DEF TimePasses, vars, bookVars
<1>11. CASE UNCHANGED allVars
  BY <1>1, <1>11 DEF allVars, vars, bookVars, venueVars
<1>. QED  BY <1>3, <1>4, <1>5, <1>6, <1>7, <1>8, <1>9, <1>10, <1>11 DEF VenueNext, AuctionStep

\* Steps that leave the batch, its orders and the auction's stage alone.
LEMMA VolumeUntouched ==
  ASSUME VenueInv, VolumeKept, UNCHANGED <<batch, task>>,
         \A x \in batch : /\ side'[x] = side[x] /\ limit'[x] = limit[x]
                          /\ quantity'[x] = quantity[x] /\ remaining'[x] = remaining[x]
  PROVE  VolumeKept'
<1>1. \A s : OfSide(s)' = OfSide(s) /\ OfSide(s) \subseteq batch
  BY DEF OfSide
<1>2. ASSUME NEW s PROVE Traded(s)' = Traded(s)
  <2>. DEFINE f == [o \in Orders |-> quantity[o] - remaining[o]]
              g == [o \in Orders |-> quantity'[o] - remaining'[o]]
  <2>1. \A o \in OfSide(s) : f[o] = g[o]
    BY <1>1 DEF VenueInv, VenueTypeOK
  <2>2. IsFiniteSet(OfSide(s))
    BY <1>1, FS_Subset DEF VenueInv, BatchKept
  <2>. HIDE DEF f, g
  <2>3. SumFunctionOnSet(f, OfSide(s)) = SumFunctionOnSet(g, OfSide(s))
    BY <2>1, <2>2, SumAgrees
  <2>. QED  BY <1>1, <2>3 DEF Traded, f, g
<1>3. OnlyLimits' = OnlyLimits
  BY DEF OnlyLimits
<1>4. TradedCross => TradedCross'
  BY <1>1 DEF TradedCross
<1>5. OpenDoNotCross => OpenDoNotCross'
  BY <1>1 DEF OpenDoNotCross
<1>6. \A o \in batch' : remaining'[o] <= quantity'[o]
  BY DEF VolumeKept
<1>. QED  BY <1>2, <1>3, <1>4, <1>5, <1>6 DEF VolumeKept

\* A trade between two orders of the batch adds as much to one side as to the other.
LEMMA TradeInBatch ==
  ASSUME VenueInv, \A o \in batch : remaining[o] <= quantity[o],
         NEW b \in OfSide("buy"), NEW c \in OfSide("sell"), NEW q \in Nat,
         q <= remaining[b], q <= remaining[c],
         UNCHANGED <<side, limit, quantity, batch>>, remaining' \in [Orders -> Nat],
         remaining'[b] = remaining[b] - q, remaining'[c] = remaining[c] - q,
         \A x \in Orders \ {b, c} : remaining'[x] = remaining[x]
  PROVE  /\ Traded("buy")' = Traded("buy") + q /\ Traded("sell")' = Traded("sell") + q
         /\ \A o \in batch : remaining'[o] <= quantity[o]
         /\ b # c
<1>1. \A s : OfSide(s)' = OfSide(s)
  BY DEF OfSide
<1>2. /\ b \notin OfSide("sell") /\ c \notin OfSide("buy") /\ b # c
      /\ OfSide("buy") \subseteq Orders /\ OfSide("sell") \subseteq Orders
      /\ b \in Orders /\ c \in Orders /\ batch \subseteq Orders
      /\ quantity \in [Orders -> Nat] /\ remaining \in [Orders -> Nat]
  BY DEF OfSide, VenueInv, VenueTypeOK, BookKept, TypeOK
<1>3. ASSUME NEW s, IsFiniteSet(OfSide(s)), NEW x \in OfSide(s), OfSide(s) \subseteq Orders,
             x \in {b, c}, \A y \in OfSide(s) \ {x} : y \notin {b, c}
      PROVE  Traded(s)' = Traded(s) + q
  <2>. DEFINE f == [o \in Orders |-> quantity[o] - remaining[o]]
              g == [o \in Orders |-> quantity[o] - remaining'[o]]
  <2>1. \A y \in OfSide(s) : f[y] \in Int /\ g[y] \in Int
    BY <1>2, <1>3
  <2>2. \A y \in OfSide(s) \ {x} : g[y] = f[y]
    BY <1>2, <1>3
  <2>3. g[x] - f[x] = q
    BY <1>2, <1>3
  <2>. HIDE DEF f, g
  <2>4. SumFunctionOnSet(g, OfSide(s)) = SumFunctionOnSet(f, OfSide(s)) + (g[x] - f[x])
    BY <1>3, <2>1, <2>2, SumUpdate
  <2>. QED  BY <1>1, <2>3, <2>4 DEF Traded, f, g
<1>4. IsFiniteSet(OfSide("buy")) /\ IsFiniteSet(OfSide("sell"))
  BY FilledOfSide
<1>5. Traded("buy")' = Traded("buy") + q
  BY <1>2, <1>3, <1>4
<1>6. Traded("sell")' = Traded("sell") + q
  BY <1>2, <1>3, <1>4
<1>7. \A o \in batch : remaining'[o] <= quantity[o]
  BY <1>2
<1>. QED  BY <1>2, <1>5, <1>6, <1>7

\* The fronts trade: each side trades in order of price, so all that traded before
\* has prices at least as good, and the fronts' prices cross.
LEMMA CrossStepKeepsVolume ==
  ASSUME VenueInv, PriorityKept, VolumeKept, CrossStep
  PROVE  VolumeKept'
<1>1. PICK b, s, q : b = Head(buys) /\ s = Head(sells) /\ q = FillQuantity(b, s)
  OBVIOUS
<1>2. /\ task = "crossing" /\ buys # <<>> /\ sells # <<>>
      /\ limit[b] >= limit[s] /\ limit[b] # Market /\ limit[s] # Market
      /\ remaining' = [remaining EXCEPT ![b] = @ - q, ![s] = @ - q]
      /\ UNCHANGED <<side, limit, quantity, batch, task>>
  BY <1>1 DEF CrossStep, Crossing, orderVars
<1>3. InAuction /\ buys \in Seq(Orders) /\ sells \in Seq(Orders) /\ batch \subseteq Orders
  BY <1>2 DEF VenueInv, BatchKept, VenueTypeOK
<1>4. b \in OfSide("buy") /\ s \in OfSide("sell")
  BY <1>1, <1>2, <1>3, TailOfQueue DEF InAuction
<1>5. b \in batch /\ s \in batch /\ b \in Orders /\ s \in Orders /\ b # s
  BY <1>3, <1>4 DEF OfSide
<1>6. remaining \in [Orders -> Nat]
  BY DEF VenueInv, BookKept, TypeOK
<1>7. /\ q \in Nat /\ q <= remaining[b] /\ q <= remaining[s]
      /\ q > 0 => remaining[b] > 0 /\ remaining[s] > 0
      /\ remaining[b] - q \in Nat /\ remaining[s] - q \in Nat
  BY <1>1, <1>5, <1>6 DEF FillQuantity
<1>8. /\ remaining' \in [Orders -> Nat]
      /\ remaining'[b] = remaining[b] - q /\ remaining'[s] = remaining[s] - q
      /\ \A x \in Orders \ {b, s} : remaining'[x] = remaining[x]
  BY <1>2, <1>5, <1>6, <1>7
<1>9. /\ Traded("buy")' = Traded("buy") + q /\ Traded("sell")' = Traded("sell") + q
      /\ \A o \in batch : remaining'[o] <= quantity[o]
  BY <1>2, <1>4, <1>7, <1>8, TradeInBatch DEF VolumeKept
<1>10. OnlyLimits' => TradedCross'
  <2>. SUFFICES ASSUME OnlyLimits,
                       NEW x \in OfSide("buy"), NEW y \in OfSide("sell"),
                       remaining'[x] < quantity[x], remaining'[y] < quantity[y]
                PROVE  limit[x] >= limit[y]
    BY <1>2 DEF OnlyLimits, TradedCross, OfSide
  <2>1. TradedCross /\ AuctionPricePriority
    BY <1>2 DEF VolumeKept, PriorityKept
  <2>2. x \in Orders /\ y \in Orders /\ x \in batch /\ y \in batch
        /\ side[x] = "buy" /\ side[y] = "sell"
    BY <1>3 DEF OfSide
  <2>3. /\ limit[x] \in Nat /\ limit[y] \in Nat /\ limit[b] \in Nat /\ limit[s] \in Nat
        /\ \A o \in batch : limit[o] # Market
    BY <1>4, FilledOfSide DEF VolumeKept, OnlyLimits
  <2>4. CASE q = 0
    <3>1. remaining'[x] = remaining[x] /\ remaining'[y] = remaining[y]
      BY <1>5, <1>6, <1>8, <2>2, <2>4
    <3>. QED  BY <2>1, <3>1 DEF TradedCross
  <2>5. CASE q > 0
    <3>1. remaining[b] # 0 /\ remaining[s] # 0
      BY <1>7, <2>5
    <3>2. limit[x] >= limit[b]
      <4>1. CASE x = b
        BY <2>3, <4>1
      <4>2. CASE x # b
        <5>1. remaining[x] < quantity[x]
          BY <1>8, <2>2, <4>2, <1>4 DEF OfSide
        <5>2. ~(limit[b] > limit[x])
          BY <1>4, <1>5, <2>1, <2>2, <2>3, <3>1, <5>1 DEF AuctionPricePriority, OfSide
        <5>. QED  BY <2>3, <5>2
      <4>. QED  BY <4>1, <4>2
    <3>3. limit[y] <= limit[s]
      <4>1. CASE y = s
        BY <2>3, <4>1
      <4>2. CASE y # s
        <5>1. remaining[y] < quantity[y]
          BY <1>8, <2>2, <4>2, <1>4 DEF OfSide
        <5>2. ~(limit[s] < limit[y])
          BY <1>4, <1>5, <2>1, <2>2, <2>3, <3>1, <5>1 DEF AuctionPricePriority, OfSide
        <5>. QED  BY <2>3, <5>2
      <4>. QED  BY <4>1, <4>2
    <3>. QED  BY <1>2, <2>3, <3>2, <3>3
  <2>. QED  BY <1>7, <2>4, <2>5
<1>11. Traded("buy") = Traded("sell") /\ task' # "idle" /\ task' # "adding"
  BY <1>2 DEF VolumeKept
<1>. QED  BY <1>2, <1>9, <1>10, <1>11 DEF VolumeKept

\* The front of a side has the best of the prices that the auction has still to take.
LEMMA FrontIsBest ==
  ASSUME VenueInv, NEW f \in Seq(Orders), f # <<>>, NEW s, InOrder(f, s),
         NEW x \in Range(f)
  PROVE  SortKey(Head(f)) <= SortKey(x)
<1>1. /\ Head(f) = f[1] /\ 1 \in DOMAIN f /\ DOMAIN f = 1..Len(f) /\ Len(f) \in Nat
  BY LenProperties, EmptySeq, HeadTailProperties
<1>2. PICK i \in DOMAIN f : x = f[i]
  BY DEF Range
<1>3. CASE i = 1
  <2>1. x \in Orders
    BY RangeOfSeq
  <2>2. SortKey(x) \in Int
    BY <2>1, KeysAreNumbers
  <2>. QED  BY <1>1, <1>2, <1>3, <2>2
<1>4. CASE i # 1
  <2>1. 1 < i
    BY <1>1, <1>4
  <2>. QED  BY <1>1, <1>2, <2>1 DEF InOrder
<1>. QED  BY <1>3, <1>4

\* Crossing ends when the fronts do not cross, and then no two open orders do.
LEMMA CrossDoneKeepsVolume ==
  ASSUME VenueInv, PriorityKept, VolumeKept, CrossDone
  PROVE  VolumeKept'
<1>1. /\ task = "crossing" /\ task' = "adding" /\ ~Crossing
      /\ UNCHANGED <<side, limit, quantity, remaining, batch>>
  BY DEF CrossDone, vars, orderVars
<1>2. InAuction /\ buys \in Seq(Orders) /\ sells \in Seq(Orders) /\ batch \subseteq Orders
  BY <1>1 DEF VenueInv, BatchKept, VenueTypeOK
<1>3. ASSUME OnlyLimits PROVE OpenDoNotCross
  <2>. SUFFICES ASSUME NEW x \in OfSide("buy"), NEW y \in OfSide("sell"),
                       remaining[x] > 0, remaining[y] > 0
                PROVE  limit[x] < limit[y]
    BY DEF OpenDoNotCross
  <2>1. x \in batch /\ y \in batch /\ side[x] = "buy" /\ side[y] = "sell"
    BY DEF OfSide
  <2>2. x \in Range(buys) /\ y \in Range(sells)
    <3>1. x \in Waiting /\ y \in Waiting
      BY <1>1, <2>1 DEF PriorityKept
    <3>. QED  BY <1>2, <2>1, <3>1 DEF Waiting, InAuction, OfSide
  <2>3. buys # <<>> /\ sells # <<>>
    BY <2>2 DEF Range
  <2>4. PICK b, s : b = Head(buys) /\ s = Head(sells)
    OBVIOUS
  <2>5. b \in OfSide("buy") /\ s \in OfSide("sell")
    BY <1>2, <2>3, <2>4, TailOfQueue DEF InAuction
  <2>6. /\ limit[x] \in Nat /\ limit[y] \in Nat /\ limit[b] \in Nat /\ limit[s] \in Nat
        /\ limit[b] # Market /\ limit[s] # Market
    BY <1>3, <2>5, FilledOfSide DEF VolumeKept, OnlyLimits, OfSide
  <2>7. ~(limit[b] >= limit[s])
    BY <1>1, <2>3, <2>4, <2>6 DEF Crossing
  <2>8. SortKey(b) <= SortKey(x) /\ SortKey(s) <= SortKey(y)
    BY <1>1, <1>2, <2>2, <2>3, <2>4, FrontIsBest DEF PriorityKept
  <2>9. limit[b] >= limit[x] /\ limit[s] <= limit[y]
    BY <2>1, <2>5, <2>6, <2>8 DEF SortKey, OfSide
  <2>. QED  BY <2>6, <2>7, <2>9
<1>4. /\ Traded("buy")' = Traded("buy") /\ Traded("sell")' = Traded("sell")
      /\ TradedCross => TradedCross'
      /\ OpenDoNotCross => OpenDoNotCross'
  BY <1>1 DEF Traded, OfSide, TradedCross, OpenDoNotCross
<1>5. /\ \A o \in batch' : remaining'[o] <= quantity'[o]
      /\ Traded("buy") = Traded("sell")
      /\ OnlyLimits => TradedCross
  BY <1>1 DEF VolumeKept
<1>6. Traded("buy")' = Traded("sell")'
  BY <1>4, <1>5
<1>7. ASSUME OnlyLimits' PROVE TradedCross' /\ OpenDoNotCross'
  <2>1. OnlyLimits
    BY <1>1, <1>7 DEF OnlyLimits
  <2>. QED  BY <1>3, <1>4, <1>5, <2>1
<1>. QED  BY <1>5, <1>6, <1>7 DEF VolumeKept

\* What the auction has left can only trade with a market order of the batch.
LEMMA MatchStepKeepsVolume ==
  ASSUME VenueInv, OwnBook, VolumeKept, NEW o \in Orders, NEW p \in Prices,
         MatchStep(o, p), UNCHANGED venueVars
  PROVE  VolumeKept'
<1>1. PICK s, m, q : s = Opposite(side[o]) /\ m = Head(queue[s][p]) /\ q = FillQuantity(o, m)
  OBVIOUS
<1>2. /\ UNCHANGED <<batch, task, side, limit, quantity>>
      /\ incoming = o /\ remaining[o] > 0 /\ Acceptable(o, p)
  BY <1>1 DEF MatchStep, venueVars, orderVars
<1>3. /\ TypeOK /\ Book /\ batch \subseteq Orders /\ BatchKept
      /\ remaining \in [Orders -> Nat] /\ o # NoOrder
      /\ \A x \in Orders : side[x] \in {"buy", "sell"}
  BY OrdersAssumption DEF VenueInv, BookKept, VenueTypeOK, TypeOK, Sides, NoOrder
<1>4. /\ s \in Sides /\ s # side[o] /\ m \in ids /\ m \in Orders
      /\ side[m] = s /\ limit[m] = p /\ m # o
      /\ q \in Nat \ {0} /\ q <= remaining[o] /\ q <= remaining[m]
      /\ remaining' \in [Orders -> Nat]
      /\ remaining'[o] = remaining[o] - q /\ remaining'[m] = remaining[m] - q
      /\ \A r \in Orders \ {o, m} : remaining'[r] = remaining[r]
  BY <1>1, <1>3, MatchFacts
<1>5. CASE task = "idle"
  <2>1. o \notin batch /\ m \notin batch
    BY <1>2, <1>3, <1>4, <1>5 DEF BatchKept
  <2>2. \A x \in batch : remaining'[x] = remaining[x]
    BY <1>3, <1>4, <2>1
  <2>. QED  BY <1>2, <2>2, VolumeUntouched
<1>6. CASE task # "idle"
  <2>1. o \in batch /\ m \in batch /\ task # "crossing" /\ task \in {"idle", "crossing", "adding"}
    BY <1>2, <1>3, <1>4, <1>6 DEF OwnBook, BatchKept, InAuction, VenueInv, VenueTypeOK
  <2>2. /\ Traded("buy")' = Traded("buy") + q /\ Traded("sell")' = Traded("sell") + q
        /\ \A x \in batch : remaining'[x] <= quantity[x]
    <3>1. CASE side[o] = "buy"
      <4>1. o \in OfSide("buy") /\ m \in OfSide("sell")
        BY <1>3, <1>4, <2>1, <3>1 DEF OfSide
      <4>. QED  BY <1>2, <1>4, <4>1, TradeInBatch DEF VolumeKept
    <3>2. CASE side[o] = "sell"
      <4>1. m \in OfSide("buy") /\ o \in OfSide("sell")
        BY <1>3, <1>4, <2>1, <3>2 DEF OfSide
      <4>. QED  BY <1>2, <1>4, <4>1, TradeInBatch DEF VolumeKept
    <3>. QED  BY <1>3, <3>1, <3>2
  <2>3. ~OnlyLimits
    <3>. SUFFICES ASSUME OnlyLimits PROVE FALSE
      OBVIOUS
    <3>1. limit[o] # Market /\ limit[m] # Market
      BY <2>1 DEF OnlyLimits
    <3>2. limit[o] \in Nat /\ limit[m] \in Nat
      <4>1. Prices \cup {Market} \subseteq Nat
        BY PricesAssumption DEF Market
      <4>. QED  BY <1>3, <1>4, <4>1 DEF TypeOK
    <3>3. OpenDoNotCross /\ remaining[m] > 0
      BY <1>3, <1>4, <1>6, <2>1 DEF VolumeKept
    <3>4. IF side[o] = "buy" THEN limit[m] <= limit[o] ELSE limit[m] >= limit[o]
      BY <1>2, <1>4, <3>1 DEF Acceptable
    <3>5. CASE side[o] = "buy"
      <4>1. limit[o] < limit[m]
        BY <1>2, <1>3, <1>4, <2>1, <3>1, <3>3, <3>5 DEF OpenDoNotCross, OfSide
      <4>. QED  BY <3>2, <3>4, <3>5, <4>1
    <3>6. CASE side[o] = "sell"
      <4>1. limit[m] < limit[o]
        BY <1>2, <1>3, <1>4, <2>1, <3>1, <3>3, <3>6 DEF OpenDoNotCross, OfSide
      <4>. QED  BY <3>2, <3>4, <3>6, <4>1
    <3>. QED  BY <1>3, <3>5, <3>6
  <2>4. ~OnlyLimits'
    BY <1>2, <2>3 DEF OnlyLimits
  <2>5. Traded("buy") = Traded("sell")
    BY <1>6 DEF VolumeKept
  <2>. QED  BY <1>2, <2>2, <2>4, <2>5 DEF VolumeKept
<1>. QED  BY <1>5, <1>6

\* When the auction begins nothing has traded.
LEMMA CheckKeepsVolume ==
  ASSUME VenueInv, PriorityKept, VolumeKept, CheckPhaseTransitions
  PROVE  VolumeKept'
<1>1. /\ task = "idle" /\ UNCHANGED <<side, limit, quantity, remaining, batch>>
      /\ task' = task \/ task' = "crossing"
  BY DEF CheckPhaseTransitions, Idle, orderVars, StartAuction
<1>2. \A o \in batch : remaining[o] = quantity[o]
  BY <1>1 DEF PriorityKept
<1>3. ASSUME NEW s PROVE Traded(s) = 0
  <2>1. \A o \in batch : remaining[o] <= quantity[o]
    BY DEF VolumeKept
  <2>2. /\ IsFiniteSet(OfSide(s)) /\ Traded(s) = SumFunctionOnSet(Filled, OfSide(s))
        /\ \A o \in OfSide(s) : quantity[o] \in Nat /\ Filled[o] = quantity[o] - remaining[o]
    BY <2>1, FilledOfSide
  <2>3. \A o \in OfSide(s) : Filled[o] = 0
    BY <1>2, <2>2 DEF OfSide
  <2>. QED  BY <2>2, <2>3, SumOfZeros
<1>4. Traded("buy")' = Traded("buy") /\ Traded("sell")' = Traded("sell")
  BY <1>1 DEF Traded, OfSide
<1>5. TradedCross'
  <2>1. \A o \in batch : remaining[o] = quantity[o] /\ quantity[o] \in Nat
    BY <1>2 DEF VenueInv, VenueTypeOK, BookKept, TypeOK
  <2>. QED  BY <1>1, <2>1 DEF TradedCross, OfSide
<1>. QED  BY <1>1, <1>3, <1>4, <1>5 DEF VolumeKept

\* One case for each action that trades or moves the auction on; the others leave
\* what the batch has traded alone.
LEMMA NextKeepsVolume ==
  VenueInv /\ PriorityKept /\ OwnBook /\ VolumeKept /\ [VenueNext]_allVars => VolumeKept'
<1>. SUFFICES ASSUME VenueInv, PriorityKept, OwnBook, VolumeKept, [VenueNext]_allVars
              PROVE  VolumeKept'
  OBVIOUS
<1>1. TypeOK /\ batch \subseteq Orders
  BY DEF VenueInv, VenueTypeOK, BookKept
<1>2. ASSUME UNCHANGED <<side, limit, quantity, remaining, batch, task>>
      PROVE  VolumeKept'
  BY <1>2, VolumeUntouched
<1>3. ASSUME NEW o \in Orders, NEW s \in Sides, NEW p \in Prices \cup {Market},
             NEW q \in Quantities, NewOrder(o, s, p, q)
      PROVE  /\ o \notin batch /\ remaining'[o] = quantity'[o] /\ quantity'[o] \in Nat
             /\ \A x \in batch : /\ side'[x] = side[x] /\ limit'[x] = limit[x]
                                 /\ quantity'[x] = quantity[x]
                                 /\ remaining'[x] = remaining[x]
  <2>1. o \notin batch
    BY <1>1, <1>3, OthersStay DEF VenueInv, KnownKept
  <2>2. remaining'[o] = quantity'[o] /\ quantity'[o] = q /\ q \in Nat
    BY <1>1, <1>3, QuantitiesAssumption DEF NewOrder, TypeOK
  <2>. QED  BY <1>1, <1>3, <2>1, <2>2, OthersStay
<1>4. ASSUME NEW o \in Orders, NEW s \in Sides, NEW p \in Prices \cup {Market},
             NEW q \in Quantities, SubmitRejected(o, s, p, q) \/ SubmitContinuous(o, s, p, q)
      PROVE  VolumeKept'
  <2>1. NewOrder(o, s, p, q) /\ UNCHANGED <<batch, task>>
    BY <1>4 DEF SubmitRejected, SubmitContinuous, Submit, venueVars
  <2>. QED  BY <1>3, <2>1, VolumeUntouched
<1>5. ASSUME NEW o \in Orders, NEW s \in Sides, NEW p \in Prices \cup {Market},
             NEW q \in Quantities, SubmitToBatch(o, s, p, q)
      PROVE  VolumeKept'
  <2>1. task = "idle" /\ task' = task /\ batch' = batch \cup {o} /\ NewOrder(o, s, p, q)
    BY <1>5 DEF SubmitToBatch, Idle
  <2>2. \A x \in batch' : remaining'[x] <= quantity'[x]
    BY <1>3, <2>1 DEF VolumeKept
  <2>. QED  BY <2>1, <2>2 DEF VolumeKept
<1>6. ASSUME NEW o \in Orders, CancelOrder(o)
      PROVE  VolumeKept'
  BY <1>2, <1>6 DEF CancelOrder, Cancel, orderVars
<1>7. CASE Matching
  <2>1. ASSUME NEW o \in Orders, NEW p \in Prices, MatchStep(o, p), UNCHANGED venueVars
        PROVE  VolumeKept'
    BY <2>1, MatchStepKeepsVolume
  <2>2. ASSUME NEW o \in Orders, MatchDone(o),
               UNCHANGED <<phase, cached, last, known, batch, task, buys, sells>>
        PROVE  VolumeKept'
    BY <1>2, <2>2 DEF MatchDone, orderVars
  <2>. QED  BY <1>7, <2>1, <2>2 DEF Matching
<1>8. CASE AddLeftover
  BY <1>2, <1>8 DEF AddLeftover
<1>9. CASE FinishAuction
  BY <1>9 DEF FinishAuction, VolumeKept
<1>10. CASE TimePasses
  BY <1>2, <1>10 DEF TimePasses, vars, orderVars
<1>11. CASE UNCHANGED allVars
  BY <1>2, <1>11 DEF allVars, vars, venueVars, orderVars
<1>. QED  BY <1>4, <1>5, <1>6, <1>7, <1>8, <1>9, <1>10, <1>11, CrossStepKeepsVolume,
             CrossDoneKeepsVolume, CheckKeepsVolume DEF VenueNext, AuctionStep

\* What an auction leaves open is in the book, which is not crossed.
LEMMA NothingCrossesAtTheEnd ==
  ASSUME VenueInv, FinishAuction
  PROVE  OpenDoNotCross
<1>1. /\ incoming = NoOrder /\ Waiting = {} /\ InAuction /\ TypeOK /\ Book
      /\ batch \subseteq Orders
  BY DEF FinishAuction, Waiting, Range, VenueInv, BatchKept, BookKept, VenueTypeOK
<1>2. ASSUME NEW x \in batch, remaining[x] > 0, limit[x] # Market
      PROVE  limit[x] \in level[side[x]]
  <2>1. x \in ids
    BY <1>1, <1>2, OrdersAssumption DEF InAuction, NoOrder
  <2>. QED  BY <1>1, <2>1, BookCanBeSearched DEF RestingCanBeFound, Book, RestingIsOpen
<1>. QED  BY <1>1, <1>2 DEF OpenDoNotCross, OfSide, Book, Uncrossed

-----------------------------------------------------------------------------
(* The theorems. *)

\* The phases, the lists of the batch engine and the auction, and the trades that
\* were put on the trade queue stay within their types.
THEOREM VenueTypeCorrect == VenueSafeSpec => []VenueTypeOK
<1>1. VenueInv => VenueTypeOK
  BY DEF VenueInv
<1>. QED  BY <1>1, VenueInvariance, PTL

\* The book is the same consistent book that it is on its own, although the
\* auction fills orders and the close empties it without the book's own calls.
THEOREM VenueBookStaysConsistent == VenueSafeSpec => []BookConsistent
<1>1. VenueInv => BookConsistent
  BY BookCanBeSearched DEF VenueInv, BookKept, Book, BookConsistent
<1>. QED  BY <1>1, VenueInvariance, PTL

\* Whatever the auction, matching and the close do, an order that is open between
\* two calls waits for the auction or rests where cancel_order finds it, in a
\* book that is not crossed.
THEOREM OpenOrdersStay == VenueSafeSpec => []OpenOrdersAreKept
<1>1. VenueInv => OpenOrdersAreKept
  <2>. SUFFICES ASSUME VenueInv PROVE OpenOrdersAreKept
    OBVIOUS
  <2>1. Uncrossed /\ RestingCanBeFound
    BY BookCanBeSearched DEF VenueInv, BookKept, Book
  <2>2. ASSUME Idle, NEW o \in known, remaining[o] > 0, o \in batch
        PROVE  o \notin ids
    BY <2>2 DEF VenueInv, BatchKept, Idle
  <2>3. ASSUME Idle, NEW o \in known, remaining[o] > 0, o \notin batch, limit[o] # Market
        PROVE  o \in ids /\ SideOfPrice(priceMap[o]) = side[o]
    <3>1. o # NoOrder
      BY OrdersAssumption DEF VenueInv, VenueTypeOK, NoOrder
    <3>2. o \in ids
      BY <2>3, <3>1 DEF VenueInv, KnownKept, Idle
    <3>. QED  BY <2>1, <3>2 DEF RestingCanBeFound
  <2>. QED  BY <2>1, <2>2, <2>3 DEF OpenOrdersAreKept, OpenOrdersHaveAPlace
<1>. QED  BY <1>1, VenueInvariance, PTL

\* The auction takes the orders in the order of their prices: when it ends, an
\* order that traded, with another of the batch or with the book, leaves no
\* order of its side with a better price anything unfilled.
THEOREM AuctionHasPriority == VenueSafeSpec => AuctionKeepsPriority
<1>1. VenueInit => PriorityKept
  BY DEF VenueInit, PriorityKept
<1>2. PriorityKept => (FinishAuction => AuctionPricePriority)
  BY DEF PriorityKept, FinishAuction
<1>3. PriorityKept /\ [VenueNext]_allVars => [FinishAuction => AuctionPricePriority]_allVars
  BY <1>2
<1>. QED  BY <1>1, <1>3, VenueInvariance, NextKeepsPriority, PTL
          DEF VenueSafeSpec, AuctionKeepsPriority

\* When the matching thread checks at least once in every phase, the auction
\* takes all that waited for it and the close leaves nothing for another day.
THEOREM NothingIsCarriedOver ==
  ASSUME Prompt
  PROVE  VenueSafeSpec => []NothingCarriedOver
<1>1. VenueInit => Checked
  BY DEF VenueInit, Init, Checked, Idle
<1>2. VenueInv => VenueTypeOK
  BY DEF VenueInv
<1>3. VenueTypeOK /\ Checked /\ [VenueNext]_allVars => Checked'
  BY CheckedStep
<1>4. Checked => NothingCarriedOver
  BY DEF Checked, NothingCarriedOver, BatchOnlyBeforeAuction, ClosedIsClean
<1>. QED  BY <1>1, <1>2, <1>3, <1>4, VenueInvariance, PTL DEF VenueSafeSpec

\* With a check in every phase, the auction, crossing pair by pair and leaving the
\* rest to continuous matching, trades the volume that MaximumVolumePricingStrategy
\* computes for the batch, or more where market orders take part; the strategy's
\* volume is that of its price, and of no price less.
THEOREM AuctionTradesTheMaximum ==
  ASSUME Prompt
  PROVE  VenueSafeSpec => AuctionTradesAll
<1>1. VenueInit => Checked /\ PriorityKept /\ OwnBook /\ VolumeKept
  BY DEF VenueInit, Init, Checked, Idle, PriorityKept, OwnBook, VolumeKept
<1>2. VenueInv => VenueTypeOK
  BY DEF VenueInv
<1>3. VenueTypeOK /\ Checked /\ [VenueNext]_allVars => Checked'
  BY CheckedStep
<1>4. VenueInv /\ Checked /\ OwnBook /\ [VenueNext]_allVars => OwnBook'
  BY OwnBookStep
<1>5. VenueInv /\ VolumeKept /\ FinishAuction => AuctionTradesMaximum
  <2>. SUFFICES ASSUME VenueInv, VolumeKept, FinishAuction PROVE AuctionTradesMaximum
    OBVIOUS
  <2>1. task = "adding"
    BY DEF FinishAuction
  <2>. QED  BY <2>1, NothingCrossesAtTheEnd, VolumeIsTheStrategys DEF VolumeKept
<1>6. VenueInv /\ VolumeKept /\ [VenueNext]_allVars => [FinishAuction => AuctionTradesMaximum]_allVars
  BY <1>5
<1>. QED
  BY <1>1, <1>2, <1>3, <1>4, <1>6, VenueInvariance, NextKeepsPriority, NextKeepsVolume,
     PTL
          DEF VenueSafeSpec, AuctionTradesAll
====
