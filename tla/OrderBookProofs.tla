---- MODULE OrderBookProofs ----
(***************************************************************************)
(* Machine-checked proofs about OrderBook, for every set of orders, every  *)
(* set of prices and all quantities: its safety invariants, and that it    *)
(* implements PriorityBook.  The lemmas about the book's own actions do    *)
(* not mention Next: ExchangeVenueProofs uses them for the venue.          *)
(***************************************************************************)
EXTENDS OrderBook, DataLemmas

USE OrdersAssumption, PricesAssumption, QuantitiesAssumption

-----------------------------------------------------------------------------
(* The inductive invariant.                                                 *)

\* Resting orders have been submitted, and the order that is being matched
\* does not rest: otherwise it could meet itself.
OrdersExist ==
  /\ \A o \in ids : quantity[o] > 0
  /\ incoming # NoOrder => quantity[incoming] > 0 /\ incoming \notin ids

\* What the book's own operations keep, whoever calls them.
Book == IndexAgrees /\ RestingIsOpen /\ TotalsAgree /\ Uncrossed /\ OrdersExist

Before(a, b) == \E j, k \in DOMAIN arrived : j < k /\ arrived[j] = a /\ arrived[k] = b

Ordered(q) == \A i, j \in 1..Len(q) : i < j => Before(q[i], q[j])

\* Orders arrive once, the one being matched arrived last, and every queue is
\* in the order of arrival.
ArrivalOrder ==
  /\ IsInjective(arrived)
  /\ \A o \in Orders : o \in Range(arrived) <=> quantity[o] > 0
  /\ incoming # NoOrder => arrived # <<>> /\ arrived[Len(arrived)] = incoming
  /\ \A s \in Sides, p \in Prices : Ordered(queue[s][p])

Trades == [buyer : Orders, seller : Orders, price : Prices, qty : Nat, aggressor : Sides]

TradesFair == trades \in Seq(Trades) /\ TradesAreFair

Inv == TypeOK /\ Book /\ ArrivalOrder /\ TradesFair /\ FillsAccounted

-----------------------------------------------------------------------------
(* The book. *)

\* An empty book is consistent.
LEMMA InitBook == Init => TypeOK /\ Book
<1> SUFFICES ASSUME Init PROVE TypeOK /\ Book
  OBVIOUS
<1>1. TypeOK
  <2>1. <<>> \in Seq(Orders)
    OBVIOUS
  <2>. QED  BY <2>1 DEF Init, TypeOK, Sides, NoOrder, Market
<1>2. Range(<<>>) = {}
  BY DEF Range
<1>3. IndexAgrees
  BY <1>2 DEF Init, IndexAgrees, IsInjective
<1>4. TotalsAgree
  BY <1>2, SumEmpty DEF Init, TotalsAgree
<1>5. RestingIsOpen /\ Uncrossed /\ OrdersExist
  BY DEF Init, RestingIsOpen, Uncrossed, OrdersExist, Sides
<1>. QED  BY <1>1, <1>3, <1>4, <1>5 DEF Book

\* Queues hold orders that are in the book.
LEMMA Queues ==
  ASSUME TypeOK, IndexAgrees, NEW s \in Sides, NEW p \in Prices
  PROVE  /\ queue[s][p] \in Seq(Orders)
         /\ IsFiniteSet(Range(queue[s][p]))
         /\ Range(queue[s][p]) \subseteq ids
         /\ Range(queue[s][p]) \subseteq Orders
<1>1. queue[s][p] \in Seq(Orders)
  BY DEF TypeOK
<1>. QED  BY <1>1, RangeIsFinite, RangeOfSeq DEF IndexAgrees

\* A fresh order changes nothing in the book.
LEMMA NewOrderKeepsBook ==
  ASSUME TypeOK, Book, UNCHANGED bookVars,
         NEW o \in Orders, NEW s \in Sides, NEW p \in Prices \cup {Market},
         NEW q \in Quantities, NewOrder(o, s, p, q), incoming' \in {incoming, o}
  PROVE  Book'
<1>1. o \notin ids
  BY DEF NewOrder, Book, OrdersExist
<1>2. \A r \in Orders \ {o} : /\ side'[r] = side[r] /\ limit'[r] = limit[r]
                              /\ quantity'[r] = quantity[r] /\ remaining'[r] = remaining[r]
  BY DEF NewOrder, TypeOK
<1>3. quantity'[o] > 0
  BY DEF NewOrder, TypeOK
<1>4. ids \subseteq Orders
  BY DEF TypeOK
<1>5. IndexAgrees'
  BY <1>1, <1>2, <1>4 DEF Book, IndexAgrees, bookVars
<1>6. RestingIsOpen' /\ Uncrossed'
  BY <1>1, <1>2, <1>4 DEF Book, RestingIsOpen, Uncrossed, bookVars
<1>7. OrdersExist'
  BY <1>1, <1>2, <1>3, <1>4 DEF Book, OrdersExist, bookVars, TypeOK
<1>8. TotalsAgree'
  <2>. SUFFICES ASSUME NEW t \in Sides, NEW r \in Prices
                PROVE  total[t][r] = SumFunctionOnSet(remaining', Range(queue[t][r]))
    BY DEF TotalsAgree, bookVars
  <2>1. \A m \in Range(queue[t][r]) : remaining[m] = remaining'[m]
    BY <1>1, <1>2, Queues DEF Book
  <2>2. IsFiniteSet(Range(queue[t][r]))
    BY Queues DEF Book
  <2>3. SumFunctionOnSet(remaining, Range(queue[t][r]))
          = SumFunctionOnSet(remaining', Range(queue[t][r]))
    BY <2>1, <2>2, SumAgrees
  <2>. QED  BY <2>3 DEF Book, TotalsAgree
<1>. QED  BY <1>5, <1>6, <1>7, <1>8 DEF Book

\* The facts about a matching step that its proofs share.
LEMMA MatchFacts ==
  ASSUME TypeOK, Book, NEW o \in Orders, NEW p \in Prices, MatchStep(o, p),
         NEW s, s = Opposite(side[o]), NEW m, m = Head(queue[s][p]),
         NEW q, q = FillQuantity(o, m)
  PROVE  /\ s \in Sides /\ s # side[o]
         /\ p \in level[s] /\ queue[s][p] # <<>>
         /\ m \in Range(queue[s][p]) /\ m \in ids /\ m \in Orders
         /\ side[m] = s /\ priceMap[m] = p /\ limit[m] = p
         /\ o \notin ids /\ m # o
         /\ q \in Nat \ {0} /\ q <= remaining[o] /\ q <= remaining[m]
         /\ remaining' \in [Orders -> Nat]
         /\ remaining'[o] = remaining[o] - q /\ remaining'[m] = remaining[m] - q
         /\ \A r \in Orders \ {o, m} : remaining'[r] = remaining[r]
<1>1. s \in Sides /\ s # side[o]
  BY DEF TypeOK, Sides, Opposite
<1>2. p \in level[s] /\ queue[s][p] # <<>>
  BY <1>1 DEF MatchStep, IsBest, Book, IndexAgrees
<1>3. m \in Range(queue[s][p]) /\ m \in ids /\ m \in Orders
  BY <1>1, <1>2, Queues, TailOfQueue DEF Book
<1>4. side[m] = s /\ priceMap[m] = p /\ limit[m] = p /\ remaining[m] > 0
  BY <1>1, <1>3 DEF Book, IndexAgrees, RestingIsOpen
<1>5. o \notin ids /\ m # o /\ remaining[o] > 0
  BY <1>3 DEF MatchStep, Book, OrdersExist, NoOrder
<1>6. remaining[o] \in Nat /\ remaining[m] \in Nat
  BY <1>3 DEF TypeOK
<1>7. q \in Nat \ {0} /\ q <= remaining[o] /\ q <= remaining[m]
  BY <1>4, <1>5, <1>6 DEF FillQuantity
<1>8. remaining' = [remaining EXCEPT ![o] = @ - q, ![m] = @ - q]
  BY DEF MatchStep
<1>9. remaining[o] - q \in Nat /\ remaining[m] - q \in Nat
  BY <1>6, <1>7
<1>10. /\ remaining' \in [Orders -> Nat]
       /\ remaining'[o] = remaining[o] - q /\ remaining'[m] = remaining[m] - q
       /\ \A r \in Orders \ {o, m} : remaining'[r] = remaining[r]
  BY <1>3, <1>5, <1>8, <1>9 DEF TypeOK
<1>. QED  BY <1>1, <1>2, <1>3, <1>4, <1>5, <1>7, <1>10

\* One iteration of the matching loop.
LEMMA MatchStepKeepsBook ==
  ASSUME TypeOK, Book, NEW o \in Orders, NEW p \in Prices, MatchStep(o, p)
  PROVE  Book'
<1> DEFINE s == Opposite(side[o])
           m == Head(queue[s][p])
           q == FillQuantity(o, m)
<1>1. /\ s \in Sides /\ s # side[o]
      /\ p \in level[s] /\ queue[s][p] # <<>>
      /\ m \in Range(queue[s][p]) /\ m \in ids /\ m \in Orders
      /\ side[m] = s /\ priceMap[m] = p /\ limit[m] = p
      /\ o \notin ids /\ m # o
      /\ q \in Nat \ {0} /\ q <= remaining[o] /\ q <= remaining[m]
      /\ remaining' \in [Orders -> Nat]
      /\ remaining'[o] = remaining[o] - q /\ remaining'[m] = remaining[m] - q
      /\ \A r \in Orders \ {o, m} : remaining'[r] = remaining[r]
  BY MatchFacts
<1>2. /\ UNCHANGED orderVars /\ UNCHANGED incoming
      /\ total' = [total EXCEPT ![s][p] = @ - q]
      /\ \/ remaining[m] = q /\ RemoveFilled(s, p, m)
         \/ remaining[m] # q /\ UNCHANGED <<queue, level, ids, priceMap>>
  BY DEF MatchStep
<1>. HIDE DEF s, m, q
<1>3. \A t \in Sides, r \in Prices :
        total'[t][r] = IF t = s /\ r = p THEN total[t][r] - q ELSE total[t][r]
  BY <1>1, <1>2 DEF TypeOK
<1>4. ids \subseteq Orders /\ queue \in [Sides -> [Prices -> Seq(Orders)]]
  BY DEF TypeOK
<1>11. \A x \in Range(queue[s][p]) \ {m} : x \in Orders \ {o, m}
  BY <1>1, <1>4, Queues DEF Book
<1>12. ASSUME NEW t \in Sides, NEW r \in Prices, ~(t = s /\ r = p)
       PROVE  \A x \in Range(queue[t][r]) : x \in Orders \ {o, m}
  <2>1. Range(queue[t][r]) = {x \in ids : side[x] = t /\ priceMap[x] = r}
    BY DEF Book, IndexAgrees
  <2>. QED  BY <1>1, <1>4, <1>12, <2>1
<1>5. CASE remaining[m] = q
  <2>1. RemoveFilled(s, p, m)
    BY <1>2, <1>5
  <2>2. \A t \in Sides, r \in Prices :
          queue'[t][r] = IF t = s /\ r = p THEN Tail(queue[t][r]) ELSE queue[t][r]
    BY <1>1, <1>4, <2>1 DEF RemoveFilled
  <2>3. /\ ids' = ids \ {m}
        /\ \A r \in Orders : priceMap'[r] = IF r = m THEN Market ELSE priceMap[r]
    BY <1>1, <2>1 DEF RemoveFilled, TypeOK
  <2>4. \A t \in Sides : level'[t] \subseteq level[t]
    BY <1>1, <2>1 DEF RemoveFilled, TypeOK
  <2>5. /\ IsInjective(queue'[s][p])
        /\ Range(queue'[s][p]) = Range(queue[s][p]) \ {m}
        /\ Len(queue[s][p]) = 1 <=> queue'[s][p] = <<>>
    <3>1. /\ queue[s][p] \in Seq(Orders) /\ IsInjective(queue[s][p])
          /\ queue'[s][p] = Tail(queue[s][p])
      BY <1>1, <1>4, <2>2 DEF Book, IndexAgrees
    <3> DEFINE x == queue[s][p]
    <3>2. x \in Seq(Orders) /\ x # <<>> /\ IsInjective(x) /\ m = Head(x)
      BY <1>1, <3>1 DEF m
    <3>. HIDE DEF x
    <3>3. /\ IsInjective(Tail(x)) /\ Range(Tail(x)) = Range(x) \ {m}
          /\ Len(x) = 1 <=> Tail(x) = <<>>
      BY <3>2, TailOfQueue
    <3>. QED  BY <3>1, <3>3 DEF x
  <2>6. \A t \in Sides, r \in Prices :
          r \in level'[t] <=> r \in level[t] /\ (t = s /\ r = p => queue'[s][p] # <<>>)
    BY <1>1, <2>1, <2>5 DEF RemoveFilled, TypeOK
  <2>7. IndexAgrees'
    <3>1. ids' = {r \in Orders : priceMap'[r] # Market}
      BY <2>3 DEF Book, IndexAgrees
    <3>2. ASSUME NEW t \in Sides, NEW r \in Prices
          PROVE  /\ IsInjective(queue'[t][r])
                 /\ Range(queue'[t][r]) = {x \in ids' : side'[x] = t /\ priceMap'[x] = r}
                 /\ r \in level'[t] <=> queue'[t][r] # <<>>
      <4>1. /\ IsInjective(queue[t][r])
            /\ Range(queue[t][r]) = {x \in ids : side[x] = t /\ priceMap[x] = r}
            /\ r \in level[t] <=> queue[t][r] # <<>>
        BY DEF Book, IndexAgrees
      <4>2. CASE t = s /\ r = p
        <5>1. {x \in ids' : side'[x] = t /\ priceMap'[x] = r}
                = {x \in ids : side[x] = t /\ priceMap[x] = r} \ {m}
          BY <1>1, <1>2, <1>4, <2>3, <4>2 DEF orderVars
        <5>2. r \in level'[t] <=> queue'[t][r] # <<>>
          BY <1>1, <2>6, <4>2
        <5>. QED  BY <2>5, <4>1, <4>2, <5>1, <5>2
      <4>3. CASE ~(t = s /\ r = p)
        <5>1. queue'[t][r] = queue[t][r] /\ (r \in level'[t] <=> r \in level[t])
          BY <2>2, <2>6, <4>3
        <5>2. {x \in ids' : side'[x] = t /\ priceMap'[x] = r}
                = {x \in ids : side[x] = t /\ priceMap[x] = r}
          BY <1>1, <1>2, <1>4, <2>3, <4>3 DEF orderVars
        <5>. QED  BY <4>1, <5>1, <5>2
      <4>. QED  BY <4>2, <4>3
    <3>. QED  BY <3>1, <3>2 DEF IndexAgrees
  <2>8. TotalsAgree'
    <3>. SUFFICES ASSUME NEW t \in Sides, NEW r \in Prices
                  PROVE  total'[t][r] = SumFunctionOnSet(remaining', Range(queue'[t][r]))
      BY DEF TotalsAgree
    <3>1. /\ total[t][r] = SumFunctionOnSet(remaining, Range(queue[t][r]))
          /\ IsFiniteSet(Range(queue[t][r])) /\ Range(queue[t][r]) \subseteq ids
      BY Queues DEF Book, TotalsAgree
    <3>2. \A x \in Range(queue[t][r]) : remaining[x] \in Int
      BY <1>4, <3>1 DEF TypeOK
    <3>3. CASE t = s /\ r = p
      <4>1. SumFunctionOnSet(remaining, Range(queue[s][p]))
              = remaining[m] + SumFunctionOnSet(remaining, Range(queue[s][p]) \ {m})
        BY <1>1, <3>1, <3>2, <3>3, SumRemove
      <4>2. SumFunctionOnSet(remaining, Range(queue[s][p]) \ {m}) \in Int
        BY <3>1, <3>2, <3>3, SumType, FS_Subset
      <4>3. SumFunctionOnSet(remaining, Range(queue'[s][p]))
              = SumFunctionOnSet(remaining', Range(queue'[s][p]))
        <5>1. \A x \in Range(queue'[s][p]) : remaining[x] = remaining'[x]
          BY <1>1, <1>11, <2>5
        <5>2. IsFiniteSet(Range(queue'[s][p]))
          BY <2>5, <3>1, <3>3, FS_Subset
        <5>. QED  BY <5>1, <5>2, SumAgrees
      <4>4. total'[s][p] = SumFunctionOnSet(remaining, Range(queue[s][p])) - q
        BY <1>1, <1>3, <3>1, <3>3
      <4>5. total'[s][p] = SumFunctionOnSet(remaining, Range(queue[s][p]) \ {m})
        BY <1>1, <1>5, <4>1, <4>2, <4>4
      <4>. QED  BY <2>5, <3>3, <4>3, <4>5
    <3>4. CASE ~(t = s /\ r = p)
      <4>1. \A x \in Range(queue[t][r]) : remaining[x] = remaining'[x]
        BY <1>1, <1>12, <3>4
      <4>2. SumFunctionOnSet(remaining, Range(queue[t][r]))
              = SumFunctionOnSet(remaining', Range(queue[t][r]))
        BY <3>1, <4>1, SumAgrees
      <4>. QED  BY <1>3, <2>2, <3>1, <3>4, <4>2
    <3>. QED  BY <3>3, <3>4
  <2>9. RestingIsOpen' /\ Uncrossed' /\ OrdersExist'
    BY <1>1, <1>2, <1>4, <2>3, <2>4
       DEF Book, RestingIsOpen, Uncrossed, OrdersExist, orderVars, Sides
  <2>. QED  BY <2>7, <2>8, <2>9 DEF Book
<1>6. CASE remaining[m] # q
  <2>1. UNCHANGED <<queue, level, ids, priceMap>>
    BY <1>2, <1>6
  <2>2. IndexAgrees' /\ Uncrossed' /\ OrdersExist'
    BY <1>2, <2>1 DEF Book, IndexAgrees, Uncrossed, OrdersExist, orderVars
  <2>3. RestingIsOpen'
    <3>1. remaining[m] \in Nat /\ remaining'[m] > 0
      BY <1>1, <1>6 DEF TypeOK
    <3>. QED  BY <1>1, <1>2, <1>4, <2>1, <3>1 DEF Book, RestingIsOpen, orderVars
  <2>4. TotalsAgree'
    <3>. SUFFICES ASSUME NEW t \in Sides, NEW r \in Prices
                  PROVE  total'[t][r] = SumFunctionOnSet(remaining', Range(queue[t][r]))
      BY <2>1 DEF TotalsAgree
    <3>1. /\ total[t][r] = SumFunctionOnSet(remaining, Range(queue[t][r]))
          /\ IsFiniteSet(Range(queue[t][r])) /\ Range(queue[t][r]) \subseteq ids
      BY Queues DEF Book, TotalsAgree
    <3>2. /\ \A x \in Range(queue[t][r]) : remaining[x] \in Int /\ remaining'[x] \in Int
          /\ \A x \in Range(queue[t][r]) \ {m} : remaining'[x] = remaining[x]
      <4>1. \A x \in Range(queue[t][r]) \ {m} : x \in Orders \ {o, m}
        BY <1>11, <1>12
      <4>2. Range(queue[t][r]) \subseteq Orders
        BY <1>4, <3>1
      <4>3. \A x \in Orders : remaining[x] \in Int /\ remaining'[x] \in Int
        BY <1>1 DEF TypeOK
      <4>. QED  BY <1>1, <4>1, <4>2, <4>3
    <3>3. CASE t = s /\ r = p
      <4>1. SumFunctionOnSet(remaining', Range(queue[s][p]))
              = SumFunctionOnSet(remaining, Range(queue[s][p])) + (remaining'[m] - remaining[m])
        BY <1>1, <3>1, <3>2, <3>3, SumUpdate
      <4>2. SumFunctionOnSet(remaining, Range(queue[s][p])) \in Int
        BY <3>1, <3>2, <3>3, SumType
      <4>3. remaining[m] \in Nat
        BY <1>1 DEF TypeOK
      <4>. QED  BY <1>1, <1>3, <3>1, <3>3, <4>1, <4>2, <4>3
    <3>4. CASE ~(t = s /\ r = p)
      <4>1. \A x \in Range(queue[t][r]) : remaining[x] = remaining'[x]
        BY <1>1, <1>12, <3>4
      <4>2. SumFunctionOnSet(remaining, Range(queue[t][r]))
              = SumFunctionOnSet(remaining', Range(queue[t][r]))
        BY <3>1, <4>1, SumAgrees
      <4>. QED  BY <1>3, <3>1, <3>4, <4>2
    <3>. QED  BY <3>3, <3>4
  <2>. QED  BY <2>2, <2>3, <2>4 DEF Book
<1>. QED  BY <1>5, <1>6

\* The end of the matching loop, with or without what is left put into the book.
LEMMA MatchDoneKeepsBook ==
  ASSUME TypeOK, Book, NEW o \in Orders, MatchDone(o)
  PROVE  Book'
<1>1. /\ incoming = o /\ incoming' = NoOrder /\ o \notin ids
      /\ UNCHANGED orderVars /\ UNCHANGED remaining
  BY DEF MatchDone, Book, OrdersExist, NoOrder
<1>2. CASE ~Rests(o)
  <2>1. UNCHANGED bookVars
    BY <1>2 DEF MatchDone
  <2>. QED  BY <1>1, <2>1 DEF Book, IndexAgrees, RestingIsOpen, TotalsAgree, Uncrossed,
                              OrdersExist, orderVars, bookVars
<1>3. CASE Rests(o)
  <2> DEFINE s == side[o]
             p == limit[o]
  <2>1. s \in Sides /\ p \in Prices /\ p # Market /\ remaining[o] > 0
    BY <1>3 DEF TypeOK, Rests
  <2>2. /\ level' = [level EXCEPT ![s] = @ \cup {p}]
        /\ queue' = [queue EXCEPT ![s][p] = Append(@, o)]
        /\ total' = [total EXCEPT ![s][p] =
                       IF p \in level[s] THEN @ + remaining[o] ELSE remaining[o]]
        /\ priceMap' = [priceMap EXCEPT ![o] = p]
        /\ ids' = ids \cup {o}
    BY <1>3 DEF MatchDone, Insert
  <2>3. \A r \in level[Opposite(s)] : ~Acceptable(o, r)
    BY <2>1 DEF MatchDone, TypeOK
  <2>. HIDE DEF s, p
  <2>4. \A t \in Sides, r \in Prices :
          queue'[t][r] = IF t = s /\ r = p THEN Append(queue[t][r], o) ELSE queue[t][r]
    BY <2>1, <2>2 DEF TypeOK
  <2>5. \A t \in Sides, r \in Prices : (t = s /\ r = p) \/ total'[t][r] = total[t][r]
    BY <2>1, <2>2 DEF TypeOK
  <2>6. total'[s][p] = IF p \in level[s] THEN total[s][p] + remaining[o] ELSE remaining[o]
    BY <2>1, <2>2 DEF TypeOK
  <2>7. \A t \in Sides : level'[t] = IF t = s THEN level[t] \cup {p} ELSE level[t]
    BY <2>1, <2>2 DEF TypeOK
  <2>8. \A x \in Orders : priceMap'[x] = IF x = o THEN p ELSE priceMap[x]
    BY <2>2 DEF TypeOK
  <2>9. ids \subseteq Orders /\ queue[s][p] \in Seq(Orders)
    BY <2>1 DEF TypeOK
  <2>10. /\ IsInjective(queue'[s][p])
         /\ Range(queue'[s][p]) = Range(queue[s][p]) \cup {o}
         /\ queue'[s][p] # <<>> /\ o \notin Range(queue[s][p])
    <3>1. o \notin Range(queue[s][p]) /\ IsInjective(queue[s][p])
      BY <1>1, <2>1, Queues DEF Book, IndexAgrees
    <3>2. queue'[s][p] = Append(queue[s][p], o)
      BY <2>1, <2>4
    <3>. QED  BY <2>9, <3>1, <3>2, AppendToQueue, AppendProperties
  <2>11. IndexAgrees'
    <3>1. ids' = {x \in Orders : priceMap'[x] # Market}
      BY <2>1, <2>2, <2>8 DEF Book, IndexAgrees
    <3>2. ASSUME NEW t \in Sides, NEW r \in Prices
          PROVE  /\ IsInjective(queue'[t][r])
                 /\ Range(queue'[t][r]) = {x \in ids' : side'[x] = t /\ priceMap'[x] = r}
                 /\ r \in level'[t] <=> queue'[t][r] # <<>>
      <4>1. /\ IsInjective(queue[t][r])
            /\ Range(queue[t][r]) = {x \in ids : side[x] = t /\ priceMap[x] = r}
            /\ r \in level[t] <=> queue[t][r] # <<>>
        BY DEF Book, IndexAgrees
      <4>2. CASE t = s /\ r = p
        <5>1. {x \in ids' : side'[x] = t /\ priceMap'[x] = r}
                = {x \in ids : side[x] = t /\ priceMap[x] = r} \cup {o}
          BY <1>1, <2>2, <2>8, <2>9, <4>2 DEF orderVars, s
        <5>. QED  BY <2>7, <2>10, <4>1, <4>2, <5>1
      <4>3. CASE ~(t = s /\ r = p)
        <5>1. queue'[t][r] = queue[t][r] /\ (r \in level'[t] <=> r \in level[t])
          BY <2>4, <2>7, <4>3
        <5>2. {x \in ids' : side'[x] = t /\ priceMap'[x] = r}
                = {x \in ids : side[x] = t /\ priceMap[x] = r}
          BY <1>1, <2>2, <2>8, <2>9, <4>3 DEF orderVars, s
        <5>. QED  BY <4>1, <5>1, <5>2
      <4>. QED  BY <4>2, <4>3
    <3>. QED  BY <3>1, <3>2 DEF IndexAgrees
  <2>12. TotalsAgree'
    <3>. SUFFICES ASSUME NEW t \in Sides, NEW r \in Prices
                  PROVE  total'[t][r] = SumFunctionOnSet(remaining, Range(queue'[t][r]))
      BY <1>1 DEF TotalsAgree
    <3>1. /\ total[t][r] = SumFunctionOnSet(remaining, Range(queue[t][r]))
          /\ IsFiniteSet(Range(queue[t][r])) /\ Range(queue[t][r]) \subseteq Orders
      BY Queues DEF Book, TotalsAgree
    <3>2. CASE t = s /\ r = p
      <4>1. \A x \in Range(queue[s][p]) \cup {o} : remaining[x] \in Int
        BY <3>1, <3>2 DEF TypeOK
      <4>2. SumFunctionOnSet(remaining, Range(queue[s][p]) \cup {o})
              = SumFunctionOnSet(remaining, Range(queue[s][p])) + remaining[o]
        BY <2>10, <3>1, <3>2, <4>1, SumAdd
      <4>3. p \notin level[s] => SumFunctionOnSet(remaining, Range(queue[s][p])) = 0
        <5>1. p \notin level[s] => queue[s][p] = <<>>
          BY <2>1 DEF Book, IndexAgrees
        <5>2. Range(<<>>) = {}
          BY DEF Range
        <5>. QED  BY <5>1, <5>2, SumEmpty
      <4>4. remaining[o] \in Int
        BY DEF TypeOK
      <4>5. total'[s][p] = SumFunctionOnSet(remaining, Range(queue[s][p])) + remaining[o]
        BY <2>6, <3>1, <3>2, <4>3, <4>4
      <4>. QED  BY <2>10, <3>2, <4>2, <4>5
    <3>3. CASE ~(t = s /\ r = p)
      BY <2>4, <2>5, <3>1, <3>3
    <3>. QED  BY <3>2, <3>3
  <2>13. RestingIsOpen'
    BY <1>1, <2>1, <2>2, <2>8, <2>9 DEF Book, RestingIsOpen, orderVars, p
  <2>14. Uncrossed'
    <3>1. \A r \in level[Opposite(s)] : r \in Nat /\ p \in Nat /\
            IF s = "buy" THEN p < r ELSE r < p
      <4>1. s = side[o] /\ p = limit[o]
        BY DEF s, p
      <4>2. \A r \in level[Opposite(s)] : r \in Nat
        BY <2>1 DEF TypeOK, Sides, Opposite
      <4>3. \A r \in level[Opposite(s)] : ~(IF s = "buy" THEN r <= p ELSE r >= p)
        BY <2>1, <2>3, <4>1 DEF Acceptable
      <4>. QED  BY <2>1, <4>2, <4>3
    <3>. QED  BY <2>1, <2>7, <3>1 DEF Book, Uncrossed, Sides, Opposite
  <2>15. OrdersExist'
    BY <1>1, <2>2 DEF Book, OrdersExist, orderVars, NoOrder
  <2>. QED  BY <2>11, <2>12, <2>13, <2>14, <2>15 DEF Book
<1>. QED  BY <1>2, <1>3

\* The side that cancel_order infers from the price is the side of the order.
LEMMA BookCanBeSearched == TypeOK /\ Book => RestingCanBeFound
<1>. SUFFICES ASSUME TypeOK, Book, NEW o \in ids
              PROVE  /\ priceMap[o] \in level[side[o]]
                     /\ SideOfPrice(priceMap[o]) = side[o]
  BY DEF RestingCanBeFound
<1>1. o \in Orders /\ side[o] \in Sides /\ priceMap[o] \in Prices
  BY DEF TypeOK, Book, IndexAgrees
<1>2. priceMap[o] \in level[side[o]]
  <2>1. o \in Range(queue[side[o]][priceMap[o]])
    <3>1. Range(queue[side[o]][priceMap[o]])
            = {x \in ids : side[x] = side[o] /\ priceMap[x] = priceMap[o]}
      BY <1>1 DEF Book, IndexAgrees
    <3>. QED  BY <3>1
  <2>2. queue[side[o]][priceMap[o]] # <<>>
    BY <2>1 DEF Range
  <2>. QED  BY <1>1, <2>2 DEF Book, IndexAgrees
<1>3. \A r \in level["buy"] \cap level["sell"] : FALSE
  BY DEF Book, Uncrossed, TypeOK, Sides
<1>. QED  BY <1>1, <1>2, <1>3 DEF SideOfPrice, Sides

\* Cancellation, which finds the order by its price alone.
LEMMA CancelKeepsBook ==
  ASSUME TypeOK, Book, NEW o \in Orders, Cancel(o)
  PROVE  Book'
<1> DEFINE p == priceMap[o]
           s == side[o]
<1>1. /\ o \in ids /\ p \in Prices /\ s \in Sides /\ SideOfPrice(p) = s
      /\ limit[o] = p /\ o \in Range(queue[s][p])
  <2>1. o \in ids
    BY DEF Cancel, Book, IndexAgrees
  <2>2. p \in Prices /\ s \in Sides /\ limit[o] = p
    BY <2>1 DEF TypeOK, Book, IndexAgrees, RestingIsOpen
  <2>3. SideOfPrice(p) = s
    BY <2>1, BookCanBeSearched DEF RestingCanBeFound
  <2>4. Range(queue[s][p]) = {x \in ids : side[x] = s /\ priceMap[x] = p}
    BY <2>2 DEF Book, IndexAgrees
  <2>. QED  BY <2>1, <2>2, <2>3, <2>4
<1>2. PICK i \in 1..Len(queue[s][p]) :
        queue[s][p][i] = o /\ queue' = [queue EXCEPT ![s][p] = RemoveAt(@, i)]
  BY <1>1 DEF Cancel
<1>3. /\ total' = [total EXCEPT ![s][p] = @ - remaining[o]]
      /\ level' = IF Len(queue[s][p]) = 1 THEN [level EXCEPT ![s] = @ \ {p}] ELSE level
      /\ priceMap' = [priceMap EXCEPT ![o] = Market]
      /\ ids' = ids \ {o}
      /\ incoming = NoOrder
      /\ UNCHANGED orderVars /\ UNCHANGED remaining /\ UNCHANGED incoming
  BY <1>1 DEF Cancel
<1>. HIDE DEF p, s
<1>4. \A t \in Sides, r \in Prices :
        /\ queue'[t][r] = IF t = s /\ r = p THEN RemoveAt(queue[t][r], i) ELSE queue[t][r]
        /\ total'[t][r] = IF t = s /\ r = p THEN total[t][r] - remaining[o] ELSE total[t][r]
  BY <1>1, <1>2, <1>3 DEF TypeOK
<1>5. \A x \in Orders : priceMap'[x] = IF x = o THEN Market ELSE priceMap[x]
  BY <1>3 DEF TypeOK
<1>6. queue[s][p] \in Seq(Orders) /\ IsInjective(queue[s][p]) /\ ids \subseteq Orders
  BY <1>1 DEF TypeOK, Book, IndexAgrees
<1>7. /\ IsInjective(queue'[s][p])
      /\ Range(queue'[s][p]) = Range(queue[s][p]) \ {o}
      /\ queue'[s][p] = <<>> <=> Len(queue[s][p]) = 1
  <2>1. queue'[s][p] = RemoveAt(queue[s][p], i)
    BY <1>1, <1>4
  <2>2. /\ RemoveAt(queue[s][p], i) \in Seq(Orders)
        /\ Len(RemoveAt(queue[s][p], i)) = Len(queue[s][p]) - 1
        /\ IsInjective(RemoveAt(queue[s][p], i))
        /\ Range(RemoveAt(queue[s][p], i)) = Range(queue[s][p]) \ {o}
    BY <1>2, <1>6, RemoveFromQueue
  <2>3. Len(queue[s][p]) \in Nat
    BY <1>6, LenProperties
  <2>4. queue'[s][p] = <<>> <=> Len(queue'[s][p]) = 0
    BY <2>1, <2>2, EmptySeq
  <2>. QED  BY <2>1, <2>2, <2>3, <2>4
<1>8. \A t \in Sides, r \in Prices :
        r \in level'[t] <=> r \in level[t] /\ (t = s /\ r = p => queue'[s][p] # <<>>)
  BY <1>1, <1>3, <1>7 DEF TypeOK
<1>9. IndexAgrees'
  <2>1. ids' = {x \in Orders : priceMap'[x] # Market}
    BY <1>3, <1>5 DEF Book, IndexAgrees
  <2>2. ASSUME NEW t \in Sides, NEW r \in Prices
        PROVE  /\ IsInjective(queue'[t][r])
               /\ Range(queue'[t][r]) = {x \in ids' : side'[x] = t /\ priceMap'[x] = r}
               /\ r \in level'[t] <=> queue'[t][r] # <<>>
    <3>1. /\ IsInjective(queue[t][r])
          /\ Range(queue[t][r]) = {x \in ids : side[x] = t /\ priceMap[x] = r}
          /\ r \in level[t] <=> queue[t][r] # <<>>
      BY DEF Book, IndexAgrees
    <3>2. CASE t = s /\ r = p
      <4>1. {x \in ids' : side'[x] = t /\ priceMap'[x] = r}
              = {x \in ids : side[x] = t /\ priceMap[x] = r} \ {o}
        BY <1>3, <1>5, <1>6 DEF orderVars
      <4>2. r \in level[t]
        BY <1>1, <3>1, <3>2 DEF Range
      <4>. QED  BY <1>7, <1>8, <3>1, <3>2, <4>1, <4>2
    <3>3. CASE ~(t = s /\ r = p)
      <4>1. queue'[t][r] = queue[t][r] /\ (r \in level'[t] <=> r \in level[t])
        BY <1>4, <1>8, <3>3
      <4>2. {x \in ids' : side'[x] = t /\ priceMap'[x] = r}
              = {x \in ids : side[x] = t /\ priceMap[x] = r}
        BY <1>3, <1>5, <1>6, <3>3 DEF orderVars, s, p
      <4>. QED  BY <3>1, <4>1, <4>2
    <3>. QED  BY <3>2, <3>3
  <2>. QED  BY <2>1, <2>2 DEF IndexAgrees
<1>10. TotalsAgree'
  <2>. SUFFICES ASSUME NEW t \in Sides, NEW r \in Prices
                PROVE  total'[t][r] = SumFunctionOnSet(remaining, Range(queue'[t][r]))
    BY <1>3 DEF TotalsAgree
  <2>1. /\ total[t][r] = SumFunctionOnSet(remaining, Range(queue[t][r]))
        /\ IsFiniteSet(Range(queue[t][r])) /\ Range(queue[t][r]) \subseteq Orders
    BY Queues DEF Book, TotalsAgree
  <2>2. CASE t = s /\ r = p
    <3>1. \A x \in Range(queue[s][p]) : remaining[x] \in Int
      BY <2>1, <2>2 DEF TypeOK
    <3>2. SumFunctionOnSet(remaining, Range(queue[s][p]))
            = remaining[o] + SumFunctionOnSet(remaining, Range(queue[s][p]) \ {o})
      BY <1>1, <2>1, <2>2, <3>1, SumRemove
    <3>3. SumFunctionOnSet(remaining, Range(queue[s][p]) \ {o}) \in Int
      BY <2>1, <2>2, <3>1, SumType, FS_Subset
    <3>4. remaining[o] \in Int
      BY DEF TypeOK
    <3>5. total'[s][p] = SumFunctionOnSet(remaining, Range(queue[s][p])) - remaining[o]
      BY <1>1, <1>4, <2>1, <2>2
    <3>6. total'[s][p] = SumFunctionOnSet(remaining, Range(queue[s][p]) \ {o})
      BY <3>2, <3>3, <3>4, <3>5
    <3>. QED  BY <1>7, <2>2, <3>6
  <2>3. CASE ~(t = s /\ r = p)
    BY <1>4, <2>1, <2>3
  <2>. QED  BY <2>2, <2>3
<1>11. RestingIsOpen' /\ OrdersExist'
  BY <1>3, <1>5, <1>6 DEF Book, RestingIsOpen, OrdersExist, orderVars
<1>12. Uncrossed'
  <2>1. \A t \in Sides : level'[t] \subseteq level[t]
    BY <1>1, <1>3 DEF TypeOK
  <2>. QED  BY <2>1 DEF Book, Uncrossed, Sides
<1>. QED  BY <1>9, <1>10, <1>11, <1>12 DEF Book
-----------------------------------------------------------------------------
(* Arrival order and trades. *)

\* Every order that rests arrived before the one that is being matched.
LEMMA RestingArrivedBefore ==
  ASSUME TypeOK, Book, ArrivalOrder, NEW m \in ids, incoming # NoOrder
  PROVE  Before(m, incoming)
<1> DEFINE n == Len(arrived)
<1>1. DOMAIN arrived = 1..n /\ n \in Nat
  BY LenProperties DEF TypeOK
<1>2. m \in Range(arrived) /\ m # incoming
  BY DEF ArrivalOrder, Book, OrdersExist, TypeOK
<1>3. PICK j \in 1..n : arrived[j] = m
  BY <1>1, <1>2 DEF Range
<1>4. arrived[n] = incoming
  BY DEF ArrivalOrder
<1>. HIDE DEF n
<1>5. j # n
  BY <1>2, <1>3, <1>4
<1>6. j < n /\ n \in 1..n
  BY <1>1, <1>3, <1>5
<1>. QED  BY <1>1, <1>3, <1>4, <1>6 DEF Before

\* Arrivals do not disturb the order of earlier ones.
LEMMA BeforeIsStable ==
  ASSUME TypeOK, NEW o \in Orders, arrived' \in {arrived, Append(arrived, o)},
         NEW a, NEW b, Before(a, b)
  PROVE  Before(a, b)'
<1>1. arrived \in Seq(Orders)
  BY DEF TypeOK
<1>2. CASE arrived' = Append(arrived, o)
  <2>1. /\ Append(arrived, o) \in Seq(Orders)
        /\ Len(Append(arrived, o)) = Len(arrived) + 1 /\ Len(arrived) \in Nat
        /\ DOMAIN arrived = 1..Len(arrived)
        /\ \A i \in 1..Len(arrived) : Append(arrived, o)[i] = arrived[i]
    BY <1>1, AppendProperties, LenProperties
  <2>2. DOMAIN Append(arrived, o) = 1..(Len(arrived) + 1)
    BY <2>1, LenProperties
  <2>. QED  BY <1>2, <2>1, <2>2 DEF Before
<1>3. CASE arrived' = arrived
  BY <1>3 DEF Before
<1>. QED  BY <1>2, <1>3

\* Type correctness.
LEMMA NextType == ASSUME TypeOK, Book, [Next]_vars PROVE TypeOK'
<1>1. ASSUME NEW o \in Orders, NEW s \in Sides, NEW p \in Prices \cup {Market},
             NEW q \in Quantities, Submit(o, s, p, q)
      PROVE  TypeOK'
  BY <1>1 DEF Submit, NewOrder, AddOrder, TypeOK, bookVars
<1>2. ASSUME NEW o \in Orders, NEW p \in Prices, MatchStep(o, p)
      PROVE  TypeOK'
  <2> DEFINE s == Opposite(side[o])
             m == Head(queue[s][p])
             q == FillQuantity(o, m)
  <2>1. /\ s \in Sides /\ queue[s][p] # <<>> /\ m \in Orders /\ q \in Nat
        /\ remaining' \in [Orders -> Nat]
    BY <1>2, MatchFacts
  <2>2. /\ UNCHANGED <<orderVars, status, incoming>>
        /\ total' = [total EXCEPT ![s][p] = @ - q]
        /\ RemoveFilled(s, p, m) \/ UNCHANGED <<queue, level, ids, priceMap>>
    BY <1>2 DEF MatchStep
  <2>3. queue[s][p] \in Seq(Orders) /\ Tail(queue[s][p]) \in Seq(Orders)
    BY <2>1, TailOfQueue DEF TypeOK
  <2>. HIDE DEF s, m, q
  <2>4. total' \in [Sides -> [Prices -> Int]]
    <3>1. total \in [Sides -> [Prices -> Int]]
      BY DEF TypeOK
    <3>2. total[s][p] - q \in Int
      BY <2>1, <3>1
    <3>. QED  BY <2>1, <2>2, <3>1, <3>2, UpdateEntry
  <2>5. /\ level' \in [Sides -> SUBSET Prices]
        /\ queue' \in [Sides -> [Prices -> Seq(Orders)]]
        /\ priceMap' \in [Orders -> Prices \cup {Market}]
        /\ ids' \subseteq Orders
    <3>1. CASE RemoveFilled(s, p, m)
      <4>1. queue' = [queue EXCEPT ![s][p] = Tail(queue[s][p])]
        BY <3>1 DEF RemoveFilled
      <4>2. queue' \in [Sides -> [Prices -> Seq(Orders)]]
        <5>1. queue \in [Sides -> [Prices -> Seq(Orders)]]
          BY DEF TypeOK
        <5>. QED  BY <2>1, <2>3, <4>1, <5>1, UpdateEntry
      <4>. QED  BY <2>1, <3>1, <4>2 DEF TypeOK, RemoveFilled
    <3>2. CASE UNCHANGED <<queue, level, ids, priceMap>>
      BY <3>2 DEF TypeOK
    <3>. QED  BY <2>2, <3>1, <3>2
  <2>. QED  BY <2>1, <2>2, <2>4, <2>5 DEF TypeOK, orderVars
<1>3. ASSUME NEW o \in Orders, MatchDone(o)
      PROVE  TypeOK'
  <2>1. Outcome(o) \in {"new", "partially_filled", "filled"}
    BY DEF Outcome
  <2>2. status' \in [Orders -> {"none", "new", "partially_filled", "filled",
                                "pending_new", "rejected"}]
    BY <1>3, <2>1 DEF MatchDone, TypeOK
  <2>3. /\ level' \in [Sides -> SUBSET Prices]
        /\ queue' \in [Sides -> [Prices -> Seq(Orders)]]
        /\ total' \in [Sides -> [Prices -> Int]]
        /\ priceMap' \in [Orders -> Prices \cup {Market}]
        /\ ids' \subseteq Orders
    <3>1. CASE Rests(o)
      <4>1. side[o] \in Sides /\ limit[o] \in Prices /\ remaining[o] \in Int
        BY <3>1 DEF Rests, TypeOK
      <4> DEFINE s == side[o]
                 p == limit[o]
      <4>2. /\ level' = [level EXCEPT ![s] = @ \cup {p}]
            /\ queue' = [queue EXCEPT ![s][p] = Append(queue[s][p], o)]
            /\ total' = [total EXCEPT ![s][p] =
                  IF p \in level[s] THEN total[s][p] + remaining[o] ELSE remaining[o]]
            /\ priceMap' = [priceMap EXCEPT ![o] = p]
            /\ ids' = ids \cup {o}
        BY <1>3, <3>1 DEF MatchDone, Insert
      <4>. HIDE DEF s, p
      <4>3. s \in Sides /\ p \in Prices
        BY <4>1 DEF s, p
      <4>4. queue[s][p] \in Seq(Orders) /\ total[s][p] \in Int
        BY <4>3 DEF TypeOK
      <4>5. /\ Append(queue[s][p], o) \in Seq(Orders)
            /\ (IF p \in level[s] THEN total[s][p] + remaining[o] ELSE remaining[o]) \in Int
        BY <4>1, <4>4, AppendProperties
      <4>6. /\ queue' \in [Sides -> [Prices -> Seq(Orders)]]
            /\ total' \in [Sides -> [Prices -> Int]]
        <5>1. queue \in [Sides -> [Prices -> Seq(Orders)]] /\ total \in [Sides -> [Prices -> Int]]
          BY DEF TypeOK
        <5>2. queue' \in [Sides -> [Prices -> Seq(Orders)]]
          BY <4>2, <4>3, <4>5, <5>1, UpdateEntry
        <5>3. total' \in [Sides -> [Prices -> Int]]
          BY <4>2, <4>3, <4>5, <5>1, UpdateEntry
        <5>. QED  BY <5>2, <5>3
      <4>7. level' \in [Sides -> SUBSET Prices]
        BY <4>2, <4>3 DEF TypeOK
      <4>8. priceMap' \in [Orders -> Prices \cup {Market}] /\ ids' \subseteq Orders
        BY <4>2, <4>3 DEF TypeOK
      <4>. QED  BY <4>6, <4>7, <4>8
    <3>2. CASE ~Rests(o)
      BY <1>3, <3>2 DEF MatchDone, TypeOK, bookVars
    <3>. QED  BY <3>1, <3>2
  <2>. QED  BY <1>3, <2>2, <2>3 DEF MatchDone, TypeOK, orderVars
<1>4. ASSUME NEW o \in Orders, Cancel(o)
      PROVE  TypeOK'
  <2> DEFINE p == priceMap[o]
             s == SideOfPrice(p)
  <2>1. p \in Prices /\ s \in Sides
    BY <1>4 DEF Cancel, TypeOK, SideOfPrice, Sides
  <2>2. PICK i \in 1..Len(queue[s][p]) : queue' = [queue EXCEPT ![s][p] = RemoveAt(@, i)]
    BY <1>4 DEF Cancel
  <2>3. /\ total' = [total EXCEPT ![s][p] = @ - remaining[o]]
        /\ level' = IF Len(queue[s][p]) = 1 THEN [level EXCEPT ![s] = @ \ {p}] ELSE level
        /\ priceMap' = [priceMap EXCEPT ![o] = Market]
        /\ ids' = ids \ {o}
        /\ UNCHANGED <<orderVars, remaining, status, incoming>>
    BY <1>4 DEF Cancel
  <2>. HIDE DEF p, s
  <2>4. RemoveAt(queue[s][p], i) \in Seq(Orders)
    <3>1. queue[s][p] \in Seq(Orders)
      BY <2>1 DEF TypeOK
    <3>. QED  BY <3>1, RemoveFromQueue
  <2>5. queue' \in [Sides -> [Prices -> Seq(Orders)]]
    <3>1. queue \in [Sides -> [Prices -> Seq(Orders)]]
      BY DEF TypeOK
    <3>. QED  BY <2>1, <2>2, <2>4, <3>1, UpdateEntry
  <2>6. total[s][p] - remaining[o] \in Int
    BY <2>1 DEF TypeOK
  <2>7. total' \in [Sides -> [Prices -> Int]]
    <3>1. total \in [Sides -> [Prices -> Int]]
      BY DEF TypeOK
    <3>. QED  BY <2>1, <2>3, <2>6, <3>1, UpdateEntry
  <2>8. level' \in [Sides -> SUBSET Prices]
    BY <2>1, <2>3 DEF TypeOK
  <2>. QED  BY <2>1, <2>3, <2>5, <2>7, <2>8 DEF TypeOK, orderVars
<1>5. CASE UNCHANGED vars
  BY <1>5 DEF TypeOK, vars, orderVars, bookVars
<1>. QED  BY <1>1, <1>2, <1>3, <1>4, <1>5 DEF Next

\* An ordered queue stays ordered when its front is served, when one of its
\* orders leaves and when a later one joins.
LEMMA OrderedQueues ==
  ASSUME NEW q \in Seq(Orders), Ordered(q)
  PROVE  /\ q # <<>> => Ordered(Tail(q))
         /\ \A i \in 1..Len(q) : Ordered(RemoveAt(q, i))
         /\ \A x \in Orders : (\A y \in Range(q) : Before(y, x)) => Ordered(Append(q, x))
<1>1. Len(q) \in Nat /\ DOMAIN q = 1..Len(q)
  BY LenProperties
<1>2. ASSUME q # <<>> PROVE Ordered(Tail(q))
  <2>1. /\ Len(Tail(q)) = Len(q) - 1
        /\ \A i \in 1..Len(Tail(q)) : Tail(q)[i] = q[i + 1]
    BY <1>2, HeadTailProperties
  <2>2. SUFFICES ASSUME NEW i \in 1..Len(Tail(q)), NEW j \in 1..Len(Tail(q)), i < j
                 PROVE  Before(Tail(q)[i], Tail(q)[j])
    BY DEF Ordered
  <2>3. i + 1 \in 1..Len(q) /\ j + 1 \in 1..Len(q) /\ i + 1 < j + 1
    BY <1>1, <2>1, <2>2
  <2>. QED  BY <2>1, <2>3 DEF Ordered
<1>3. ASSUME NEW k \in 1..Len(q) PROVE Ordered(RemoveAt(q, k))
  <2>1. /\ Len(RemoveAt(q, k)) = Len(q) - 1
        /\ \A i \in 1..(Len(q) - 1) : RemoveAt(q, k)[i] = IF i < k THEN q[i] ELSE q[i + 1]
    BY RemoveFromQueue
  <2>2. SUFFICES ASSUME NEW i \in 1..(Len(q) - 1), NEW j \in 1..(Len(q) - 1), i < j
                 PROVE  Before(RemoveAt(q, k)[i], RemoveAt(q, k)[j])
    BY <2>1 DEF Ordered
  <2> DEFINE from(n) == IF n < k THEN n ELSE n + 1
  <2>3. from(i) \in 1..Len(q) /\ from(j) \in 1..Len(q) /\ from(i) < from(j)
    BY <1>1, <2>2
  <2>4. RemoveAt(q, k)[i] = q[from(i)] /\ RemoveAt(q, k)[j] = q[from(j)]
    BY <2>1
  <2>. HIDE DEF from
  <2>. QED  BY <2>3, <2>4 DEF Ordered
<1>4. ASSUME NEW x \in Orders, \A y \in Range(q) : Before(y, x)
      PROVE  Ordered(Append(q, x))
  <2>1. /\ Len(Append(q, x)) = Len(q) + 1 /\ Append(q, x)[Len(q) + 1] = x
        /\ \A i \in 1..Len(q) : Append(q, x)[i] = q[i]
    BY AppendProperties
  <2>2. SUFFICES ASSUME NEW i \in 1..(Len(q) + 1), NEW j \in 1..(Len(q) + 1), i < j
                 PROVE  Before(Append(q, x)[i], Append(q, x)[j])
    BY <2>1 DEF Ordered
  <2>3. i \in 1..Len(q) /\ Append(q, x)[i] = q[i] /\ q[i] \in Range(q)
    BY <1>1, <2>1, <2>2 DEF Range
  <2>4. CASE j = Len(q) + 1
    BY <1>4, <2>1, <2>3, <2>4
  <2>5. CASE j # Len(q) + 1
    <3>1. j \in 1..Len(q)
      BY <1>1, <2>5
    <3>. QED  BY <2>1, <2>2, <2>3, <3>1 DEF Ordered
  <2>. QED  BY <2>4, <2>5
<1>. QED  BY <1>2, <1>3, <1>4

\* The arrival order, and the order of every queue.
LEMMA NextArrivalOrder ==
  ASSUME TypeOK, Book, ArrivalOrder, [Next]_vars
  PROVE  ArrivalOrder'
<1>0. \A t \in Sides, r \in Prices : queue[t][r] \in Seq(Orders) /\ Ordered(queue[t][r])
  BY DEF TypeOK, ArrivalOrder
<1>1. ASSUME NEW o \in Orders, NEW s \in Sides, NEW p \in Prices \cup {Market},
             NEW q \in Quantities, Submit(o, s, p, q)
      PROVE  ArrivalOrder'
  <2>1. /\ quantity[o] = 0 /\ incoming' = o /\ arrived' = Append(arrived, o)
        /\ quantity' = [quantity EXCEPT ![o] = q] /\ queue' = queue
    BY <1>1 DEF Submit, NewOrder, AddOrder, bookVars
  <2>2. arrived \in Seq(Orders) /\ IsInjective(arrived) /\ o \notin Range(arrived)
    BY <2>1 DEF TypeOK, ArrivalOrder
  <2>3. /\ IsInjective(arrived') /\ Range(arrived') = Range(arrived) \cup {o}
        /\ arrived' # <<>> /\ arrived'[Len(arrived')] = o
    BY <2>1, <2>2, AppendToQueue, AppendProperties
  <2>4. \A r \in Orders : r \in Range(arrived)' <=> quantity'[r] > 0
    <3>1. \A r \in Orders : quantity'[r] = IF r = o THEN q ELSE quantity[r]
      BY <2>1 DEF TypeOK
    <3>2. q > 0
      OBVIOUS
    <3>. QED  BY <2>3, <3>1, <3>2 DEF ArrivalOrder
  <2>5. \A a, b : Before(a, b) => Before(a, b)'
    BY <2>1, BeforeIsStable
  <2>6. \A t \in Sides, r \in Prices : Ordered(queue[t][r])'
    BY <1>0, <2>1, <2>5 DEF Ordered
  <2>. QED  BY <2>1, <2>3, <2>4, <2>6 DEF ArrivalOrder
<1>2. ASSUME NEW o \in Orders, NEW p \in Prices, MatchStep(o, p)
      PROVE  ArrivalOrder'
  <2> DEFINE s == Opposite(side[o])
             m == Head(queue[s][p])
  <2>1. /\ UNCHANGED orderVars /\ UNCHANGED incoming
        /\ RemoveFilled(s, p, m) \/ UNCHANGED queue
    BY <1>2 DEF MatchStep
  <2>2. s \in Sides /\ queue[s][p] # <<>>
    BY <1>2, MatchFacts
  <2>. HIDE DEF s, m
  <2>3. \A t \in Sides, r \in Prices : Ordered(queue'[t][r])
    <3>1. CASE RemoveFilled(s, p, m)
      <4>1. \A t \in Sides, r \in Prices :
              queue'[t][r] = IF t = s /\ r = p THEN Tail(queue[t][r]) ELSE queue[t][r]
        BY <2>2, <3>1 DEF RemoveFilled, TypeOK
      <4>. QED  BY <1>0, <2>2, <4>1, OrderedQueues
    <3>. QED  BY <1>0, <2>1, <3>1
  <2>. QED  BY <2>1, <2>3 DEF ArrivalOrder, Ordered, Before, orderVars
<1>3. ASSUME NEW o \in Orders, MatchDone(o)
      PROVE  ArrivalOrder'
  <2> DEFINE s == side[o]
             p == limit[o]
  <2>1. incoming = o /\ incoming' = NoOrder /\ UNCHANGED orderVars /\ o # NoOrder
    BY <1>3 DEF MatchDone, NoOrder
  <2>2. \A t \in Sides, r \in Prices : Ordered(queue'[t][r])
    <3>1. CASE Rests(o)
      <4>1. queue' = [queue EXCEPT ![s][p] = Append(@, o)]
        BY <1>3, <3>1 DEF MatchDone, Insert
      <4>2. s \in Sides /\ p \in Prices
        BY <3>1 DEF Rests, TypeOK
      <4>. HIDE DEF s, p
      <4>3. \A t \in Sides, r \in Prices :
              queue'[t][r] = IF t = s /\ r = p THEN Append(queue[t][r], o) ELSE queue[t][r]
        BY <4>1, <4>2 DEF TypeOK
      <4>4. \A y \in Range(queue[s][p]) : Before(y, o)
        BY <2>1, <4>2, Queues, RestingArrivedBefore DEF Book
      <4>5. Ordered(Append(queue[s][p], o))
        BY <1>0, <4>2, <4>4, OrderedQueues
      <4>. QED  BY <1>0, <4>3, <4>5
    <3>2. CASE ~Rests(o)
      BY <1>0, <1>3, <3>2 DEF MatchDone, bookVars
    <3>. QED  BY <3>1, <3>2
  <2>. QED  BY <2>1, <2>2 DEF ArrivalOrder, Ordered, Before, orderVars
<1>4. ASSUME NEW o \in Orders, Cancel(o)
      PROVE  ArrivalOrder'
  <2> DEFINE p == priceMap[o]
             s == SideOfPrice(p)
  <2>1. p \in Prices /\ s \in Sides /\ UNCHANGED orderVars /\ UNCHANGED incoming
    BY <1>4 DEF Cancel, TypeOK, SideOfPrice, Sides
  <2>2. PICK k \in 1..Len(queue[s][p]) : queue' = [queue EXCEPT ![s][p] = RemoveAt(@, k)]
    BY <1>4 DEF Cancel
  <2>. HIDE DEF p, s
  <2>3. \A t \in Sides, r \in Prices :
          queue'[t][r] = IF t = s /\ r = p THEN RemoveAt(queue[t][r], k) ELSE queue[t][r]
    BY <2>1, <2>2 DEF TypeOK
  <2>4. \A t \in Sides, r \in Prices : Ordered(queue'[t][r])
    <3>1. Ordered(RemoveAt(queue[s][p], k))
      BY <1>0, <2>1, OrderedQueues
    <3>. QED  BY <1>0, <2>3, <3>1
  <2>. QED  BY <2>1, <2>4 DEF ArrivalOrder, Ordered, Before, orderVars
<1>5. CASE UNCHANGED vars
  BY <1>5 DEF ArrivalOrder, Ordered, Before, vars, orderVars, bookVars
<1>. QED  BY <1>1, <1>2, <1>3, <1>4, <1>5 DEF Next

\* Every step keeps the book.
LEMMA NextBook == ASSUME TypeOK, Book, [Next]_vars PROVE Book'
<1>1. ASSUME NEW o \in Orders, NEW s \in Sides, NEW p \in Prices \cup {Market},
             NEW q \in Quantities, Submit(o, s, p, q)
      PROVE  Book'
  BY <1>1, NewOrderKeepsBook DEF Submit, AddOrder
<1>2. CASE UNCHANGED vars
  BY <1>2 DEF Book, IndexAgrees, RestingIsOpen, TotalsAgree, Uncrossed, OrdersExist,
              vars, orderVars, bookVars
<1>. QED  BY <1>1, <1>2, MatchStepKeepsBook, MatchDoneKeepsBook, CancelKeepsBook DEF Next

-----------------------------------------------------------------------------
(* Trades. *)

\* A trade stays fair as long as its parties keep their side and limit.
LEMMA FairIsStable ==
  ASSUME TypeOK, ArrivalOrder, [Next]_vars, NEW t \in Trades, IsFair(t)
  PROVE  IsFair(t)'
<1> DEFINE a == ActiveParty(t)
           p == PassiveParty(t)
<1>1. {t.buyer, t.seller} = {a, p} /\ a \in Orders /\ p \in Orders
  BY DEF Trades, ActiveParty, PassiveParty
<1>2. Before(p, a)
  BY DEF IsFair, Before
<1>3. a \in Range(arrived) /\ p \in Range(arrived)
  BY <1>2 DEF Before, Range
<1>4. quantity[a] > 0 /\ quantity[p] > 0
  BY <1>1, <1>3 DEF ArrivalOrder
<1>5. \/ UNCHANGED orderVars
      \/ \E o \in Orders, s \in Sides, r \in Prices \cup {Market}, q \in Quantities :
           Submit(o, s, r, q)
  BY DEF Next, vars, MatchStep, MatchDone, Cancel
<1>6. /\ side'[a] = side[a] /\ side'[p] = side[p]
      /\ limit'[a] = limit[a] /\ limit'[p] = limit[p]
  BY <1>1, <1>4, <1>5 DEF orderVars, Submit, NewOrder, TypeOK
<1>7. Before(p, a)'
  BY <1>2, <1>5, BeforeIsStable DEF orderVars, Submit, AddOrder, Before
<1>8. /\ side'[t.buyer] = side[t.buyer] /\ side'[t.seller] = side[t.seller]
      /\ limit'[t.buyer] = limit[t.buyer] /\ limit'[t.seller] = limit[t.seller]
  BY <1>1, <1>6
<1>. QED  BY <1>6, <1>7, <1>8 DEF IsFair, Before

\* The trade of a matching step.
LEMMA NewTradeIsFair ==
  ASSUME TypeOK, Book, ArrivalOrder, NEW o \in Orders, NEW p \in Prices, MatchStep(o, p),
         NEW m, m = Head(queue[Opposite(side[o])][p]),
         NEW q, q = FillQuantity(o, m),
         NEW t, t = Trade(o, m, p, q)
  PROVE  t \in Trades /\ IsFair(t)'
<1> DEFINE s == Opposite(side[o])
<1>1. /\ s # side[o] /\ s \in Sides /\ m \in ids /\ m \in Orders /\ side[m] = s
      /\ limit[m] = p /\ m # o /\ q \in Nat
  BY MatchFacts
<1>2. /\ UNCHANGED orderVars /\ Acceptable(o, p) /\ incoming = o /\ o # NoOrder
  BY DEF MatchStep, NoOrder
<1>. HIDE DEF s
<1>3. side[o] \in Sides /\ p \in Nat
  BY DEF TypeOK
<1>4. t \in Trades
  BY <1>1, <1>3 DEF Trade, Trades
<1>5. Before(m, o)
  BY <1>1, <1>2, RestingArrivedBefore
<1>6. PassiveParty(t) = m /\ ActiveParty(t) = o
  BY <1>3 DEF PassiveParty, ActiveParty, Trade, Sides
<1>7. side[t.buyer] = "buy" /\ side[t.seller] = "sell"
  BY <1>1, <1>3 DEF Trade, Sides
<1>8. /\ limit[t.buyer] # Market => t.price <= limit[t.buyer]
      /\ limit[t.seller] # Market => t.price >= limit[t.seller]
  BY <1>1, <1>2, <1>3 DEF Trade, Sides, Acceptable
<1>9. t.price = p
  BY DEF Trade
<1>10. IsFair(t)
  BY <1>1, <1>5, <1>6, <1>7, <1>8, <1>9 DEF IsFair, Before
<1>11. IsFair(t)'
  BY <1>2, <1>10 DEF IsFair, PassiveParty, ActiveParty, orderVars
<1>. QED  BY <1>4, <1>11

\* Every trade made so far stays fair, and the new one is.
LEMMA NextTradesFair ==
  ASSUME TypeOK, Book, ArrivalOrder, TradesFair, [Next]_vars
  PROVE  TradesFair'
<1>1. trades \in Seq(Trades) /\ \A t \in Range(trades) : t \in Trades /\ IsFair(t)'
  <2>1. trades \in Seq(Trades) /\ \A t \in Range(trades) : t \in Trades /\ IsFair(t)
    BY RangeOfSeq DEF TradesFair, TradesAreFair, Range
  <2>. QED  BY <2>1, FairIsStable
<1>2. (\A t \in Range(trades') : IsFair(t)') => TradesAreFair'
  BY DEF TradesAreFair, IsFair, PassiveParty, ActiveParty, Range
<1>3. CASE trades' = trades
  BY <1>1, <1>2, <1>3 DEF TradesFair
<1>4. ASSUME NEW o \in Orders, NEW p \in Prices, MatchStep(o, p)
      PROVE  TradesFair'
  <2> DEFINE m == Head(queue[Opposite(side[o])][p])
  <2>1. PICK t : t = Trade(o, m, p, FillQuantity(o, m))
    OBVIOUS
  <2>2. t \in Trades /\ IsFair(t)'
    BY <1>4, <2>1, NewTradeIsFair
  <2>3. trades' = Append(trades, t)
    BY <1>4, <2>1 DEF MatchStep
  <2>4. trades' \in Seq(Trades) /\ Range(trades') = Range(trades) \cup {t}
    BY <1>1, <2>2, <2>3, AppendToQueue
  <2>. QED  BY <1>1, <1>2, <2>2, <2>4 DEF TradesFair
<1>. QED  BY <1>3, <1>4 DEF Next, vars, Submit, MatchDone, Cancel

\* The ledger: what every order has lost is the sum of its trades.
LEMMA NextFills ==
  ASSUME TypeOK, Book, ArrivalOrder, TradesFair, FillsAccounted, [Next]_vars
  PROVE  FillsAccounted'
<1> DEFINE qty == [i \in DOMAIN trades |-> trades[i].qty]
<1>1. CASE UNCHANGED <<quantity, remaining, trades>>
  BY <1>1 DEF FillsAccounted, FillsOf
<1>2. ASSUME NEW o \in Orders, NEW s \in Sides, NEW p \in Prices \cup {Market},
             NEW q \in Quantities, Submit(o, s, p, q)
      PROVE  FillsAccounted'
  <2>1. /\ trades' = trades /\ quantity[o] = 0
        /\ \A r \in Orders \ {o} : quantity'[r] = quantity[r] /\ remaining'[r] = remaining[r]
        /\ quantity'[o] = q /\ remaining'[o] = q /\ q \in Nat
    BY <1>2 DEF Submit, NewOrder, TypeOK
  <2>2. FillsOf(o) = {}
    <3>1. ASSUME NEW i \in DOMAIN trades PROVE o \notin {trades[i].buyer, trades[i].seller}
      <4>1. PICK t : t = trades[i]
        OBVIOUS
      <4>2. t \in Trades /\ IsFair(t)
        BY <4>1, ElementOfSeq, LenProperties DEF TradesFair, TradesAreFair
      <4>3. {t.buyer, t.seller} \subseteq Range(arrived)
        BY <4>2 DEF IsFair, PassiveParty, ActiveParty, Range
      <4>. QED  BY <2>1, <4>1, <4>3 DEF ArrivalOrder
    <3>. QED  BY <3>1 DEF FillsOf
  <2>3. SumFunctionOnSet(qty, FillsOf(o)) = 0
    BY <2>2, SumEmpty
  <2>4. ASSUME NEW r \in Orders
        PROVE  quantity'[r] - remaining'[r] = SumFunctionOnSet(qty, FillsOf(r))
    BY <2>1, <2>3 DEF FillsAccounted
  <2>. QED  BY <2>1, <2>4 DEF FillsAccounted, FillsOf
<1>3. ASSUME NEW o \in Orders, NEW p \in Prices, MatchStep(o, p)
      PROVE  FillsAccounted'
  <2> DEFINE s == Opposite(side[o])
             m == Head(queue[s][p])
             q == FillQuantity(o, m)
  <2>1. PICK t : t = Trade(o, m, p, q)
    OBVIOUS
  <2>2. /\ m \in Orders /\ m # o /\ q \in Nat
        /\ remaining'[o] = remaining[o] - q /\ remaining'[m] = remaining[m] - q
        /\ \A r \in Orders \ {o, m} : remaining'[r] = remaining[r]
    BY <1>3, MatchFacts
  <2>3. t \in Trades /\ t.qty = q /\ {t.buyer, t.seller} = {o, m}
    <3>1. t \in Trades
      BY <1>3, <2>1, NewTradeIsFair
    <3>. QED  BY <2>1, <3>1 DEF Trade
  <2>4. trades' = Append(trades, t) /\ quantity' = quantity
    BY <1>3, <2>1 DEF MatchStep, orderVars
  <2>. HIDE DEF m, q
  <2> DEFINE n == Len(trades)
  <2>5. /\ n \in Nat /\ DOMAIN trades = 1..n /\ DOMAIN trades' = 1..(n + 1)
        /\ \A i \in 1..n : trades[i] \in Trades /\ trades'[i] = trades[i]
        /\ trades'[n + 1] = t
    BY <2>3, <2>4, AppendProperties, LenProperties, ElementOfSeq DEF TradesFair
  <2>. HIDE DEF n
  <2> DEFINE qty1 == [i \in DOMAIN trades' |-> trades'[i].qty]
  <2>6. /\ \A i \in 1..n : qty1[i] = qty[i] /\ qty[i] \in Int
        /\ qty1[n + 1] = q /\ n + 1 \notin 1..n
    BY <2>3, <2>5 DEF Trades
  <2>7. ASSUME NEW r \in Orders
        PROVE  quantity[r] - remaining'[r]
                 = SumFunctionOnSet(qty1, FillsOf(r)')
    <3> DEFINE F == FillsOf(r)
    <3>1. F \subseteq 1..n /\ IsFiniteSet(F)
      <4>1. F \subseteq 1..n
        BY <2>5 DEF FillsOf
      <4>2. IsFiniteSet(1..n)
        BY <2>5, FS_Interval
      <4>. QED  BY <4>1, <4>2, FS_Subset
    <3>2. quantity[r] - remaining[r] = SumFunctionOnSet(qty, F)
      BY DEF FillsAccounted
    <3>3. FillsOf(r)' = IF r \in {o, m} THEN F \cup {n + 1} ELSE F
      <4>1. FillsOf(r)' = {i \in 1..(n + 1) : r \in {trades'[i].buyer, trades'[i].seller}}
        BY <2>5 DEF FillsOf
      <4>2. F = {i \in 1..n : r \in {trades[i].buyer, trades[i].seller}}
        BY <2>5 DEF FillsOf
      <4>3. r \in {trades'[n + 1].buyer, trades'[n + 1].seller} <=> r \in {o, m}
        BY <2>3, <2>5
      <4>4. 1..(n + 1) = 1..n \cup {n + 1} /\ n + 1 \notin 1..n
        BY <2>5
      <4>. HIDE DEF F
      <4>. QED  BY <2>5, <4>1, <4>2, <4>3, <4>4
    <3>. HIDE DEF F, qty, qty1
    <3>4. SumFunctionOnSet(qty1, F) = SumFunctionOnSet(qty, F)
      <4>1. \A i \in F : qty1[i] = qty[i]
        BY <2>6, <3>1
      <4>. QED  BY <3>1, <4>1, SumAgrees
    <3>5. SumFunctionOnSet(qty1, F \cup {n + 1}) = SumFunctionOnSet(qty1, F) + qty1[n + 1]
      <4>1. \A y \in F \cup {n + 1} : qty1[y] \in Int
        BY <2>2, <2>6, <3>1
      <4>2. n + 1 \notin F
        BY <2>6, <3>1
      <4>. QED  BY <3>1, <4>1, <4>2, SumAdd
    <3>6. quantity[r] \in Nat /\ remaining[r] \in Nat
      BY DEF TypeOK
    <3>7. CASE r \in {o, m}
      <4>1. remaining'[r] = remaining[r] - q
        BY <2>2, <3>7
      <4>. QED  BY <2>2, <2>6, <3>2, <3>3, <3>4, <3>5, <3>6, <3>7, <4>1
    <3>8. CASE r \notin {o, m}
      BY <2>2, <3>2, <3>3, <3>4, <3>8
    <3>. QED  BY <3>7, <3>8
  <2>. QED  BY <2>4, <2>7 DEF FillsAccounted
<1>. QED  BY <1>1, <1>2, <1>3 DEF Next, vars, orderVars, MatchDone, Cancel

-----------------------------------------------------------------------------
(* The theorems. *)

\* The initial state satisfies the invariant.
LEMMA InitInv == Init => Inv
<1> SUFFICES ASSUME Init PROVE Inv
  OBVIOUS
<1>1. TypeOK /\ Book
  BY InitBook
<1>2. Range(<<>>) = {} /\ DOMAIN <<>> = {} /\ Len(<<>>) = 0
  BY DEF Range
<1>3. ArrivalOrder
  BY <1>2 DEF Init, ArrivalOrder, Ordered, IsInjective
<1>4. TradesFair
  BY <1>2 DEF Init, TradesFair, TradesAreFair
<1>5. FillsAccounted
  <2>1. \A o \in Orders : FillsOf(o) = {}
    BY <1>2 DEF Init, FillsOf
  <2>2. \A o \in Orders : SumFunctionOnSet([i \in DOMAIN trades |-> trades[i].qty], FillsOf(o)) = 0
    BY <2>1, SumEmpty
  <2>3. \A o \in Orders : quantity[o] - remaining[o] = 0
    BY DEF Init
  <2>. QED  BY <2>2, <2>3 DEF FillsAccounted
<1>. QED  BY <1>1, <1>3, <1>4, <1>5 DEF Inv

\* Every step preserves the invariant.
LEMMA NextInv == Inv /\ [Next]_vars => Inv'
BY NextType, NextBook, NextArrivalOrder, NextTradesFair, NextFills DEF Inv

\* The invariant holds in every reachable state.
LEMMA Invariance == Spec => []Inv
BY InitInv, NextInv, PTL DEF Spec

\* The fields of orders, lists and tables stay within their types.
THEOREM TypeCorrect == Spec => []TypeOK
<1>1. Inv => TypeOK
  BY DEF Inv
<1>. QED  BY Invariance, <1>1, PTL

\* The best bid is below the best ask, in the middle of matching too, which is
\* what lets _is_bid_price infer the side of an order from its price.
THEOREM NeverCrossed == Spec => []Uncrossed
<1>1. Inv => Uncrossed
  BY DEF Inv, Book
<1>. QED  BY Invariance, <1>1, PTL

\* Levels, queues, running totals and the two look-up tables describe one book,
\* and cancel_order finds every order that rests.
THEOREM BookStaysConsistent == Spec => []BookConsistent
<1>1. Inv => BookConsistent
  BY BookCanBeSearched DEF Inv, Book, BookConsistent
<1>. QED  BY Invariance, <1>1, PTL

\* What an order has lost is the sum of its trades, and every trade is at a price
\* both parties accepted, with the earlier one as the passive party.
THEOREM EveryFillHasAFairTrade == Spec => []TradesAccountForFills
<1>1. Inv => TradesAccountForFills
  BY DEF Inv, TradesFair, TradesAccountForFills
<1>. QED  BY Invariance, <1>1, PTL

-----------------------------------------------------------------------------
(* Refinement of the priority book: every step of the lists and queues is a *)
(* step of the unordered book or leaves it as it is.                        *)

\* The head of the queue at the best price has priority over the other orders
\* of its side.
LEMMA HeadHasPriority ==
  ASSUME TypeOK, Book, ArrivalOrder, NEW s \in Sides, NEW p \in Prices, IsBest(s, p),
         NEW m, m = Head(queue[s][p]), NEW n \in ids \ {m}, side[n] = s
  PROVE  Abstract!HasPriority(m, n)
<1>1. /\ queue[s][p] \in Seq(Orders) /\ queue[s][p] # <<>>
      /\ Range(queue[s][p]) = {x \in ids : side[x] = s /\ priceMap[x] = p}
  BY DEF IsBest, TypeOK, Book, IndexAgrees
<1>2. m \in ids /\ side[m] = s /\ limit[m] = p
  <2>1. m \in Range(queue[s][p])
    BY <1>1, TailOfQueue
  <2>. QED  BY <1>1, <2>1 DEF Book, RestingIsOpen
<1>3. limit[n] \in level[s] /\ priceMap[n] = limit[n]
  BY BookCanBeSearched DEF RestingCanBeFound, Book, RestingIsOpen
<1>4. limit[n] \in Nat /\ p \in Nat
  BY <1>3 DEF TypeOK
<1>5. CASE limit[n] = p
  <2>1. n \in Range(queue[s][p])
    BY <1>1, <1>3, <1>5
  <2>2. PICK i \in 1..Len(queue[s][p]) : queue[s][p][i] = n
    BY <1>1, <2>1, MemberHasPosition
  <2>3. Len(queue[s][p]) \in Nat /\ queue[s][p][1] = m
    BY <1>1, LenProperties
  <2>4. 1 \in 1..Len(queue[s][p]) /\ 1 < i
    BY <2>2, <2>3
  <2>5. Before(m, n)
    BY <2>2, <2>3, <2>4 DEF ArrivalOrder, Ordered
  <2>6. DOMAIN arrived = 1..Len(arrived)
    BY LenProperties DEF TypeOK
  <2>7. Abstract!Earlier(m, n)
    BY <2>5, <2>6 DEF Abstract!Earlier, Before
  <2>. QED  BY <1>2, <1>5, <2>7 DEF Abstract!HasPriority
<1>6. CASE limit[n] # p
  <2>1. IF s = "buy" THEN limit[n] < p ELSE p < limit[n]
    BY <1>3, <1>4, <1>6 DEF IsBest
  <2>. QED  BY <1>2, <1>4, <2>1 DEF Abstract!HasPriority, Abstract!BetterPrice
<1>. QED  BY <1>5, <1>6

\* When no level has an acceptable price, no resting order matches.
LEMMA NoLevelNoMatch ==
  ASSUME TypeOK, Book, NEW o \in Orders,
         \A p \in level[Opposite(side[o])] : ~Acceptable(o, p), NEW m \in ids
  PROVE  ~Abstract!Matches(o, m)
<1>1. limit[m] \in level[side[m]]
  BY BookCanBeSearched DEF RestingCanBeFound, Book, RestingIsOpen
<1>2. side[o] \in Sides /\ side[m] \in Sides
  BY DEF TypeOK
<1>3. side[m] # side[o] => side[m] = Opposite(side[o])
  BY <1>2 DEF Sides, Opposite
<1>. QED  BY <1>1, <1>3 DEF Abstract!Matches, Acceptable, Market, Abstract!Market

\* Every step is a step of the priority book, or leaves it as it is.
LEMMA StepRefines ==
  ASSUME Inv, [Next]_vars
  PROVE  [Abstract!Next]_(Abstract!vars)
<1>0. TypeOK /\ Book /\ ArrivalOrder
  BY DEF Inv
<1>1. ASSUME NEW o \in Orders, NEW s \in Sides, NEW p \in Prices \cup {Market},
             NEW q \in Quantities, Submit(o, s, p, q)
      PROVE  Abstract!Arrive(o)
  <2>1. o \notin Range(arrived)
    BY <1>0, <1>1 DEF ArrivalOrder, Submit, NewOrder
  <2>2. \A i \in 1..Len(arrived) : arrived[i] # o
    BY <1>0, <2>1, LenProperties DEF TypeOK, Range
  <2>. QED  BY <1>1, <2>2 DEF Submit, NewOrder, AddOrder, bookVars, Abstract!Arrive, Sides,
                  NoOrder, Abstract!NoOrder, Market, Abstract!Market
<1>2. ASSUME NEW o \in Orders, NEW p \in Prices, MatchStep(o, p)
      PROVE  \E m \in Orders : Abstract!Fill(o, m)
  <2> DEFINE s == Opposite(side[o])
  <2>1. PICK m : m = Head(queue[s][p])
    OBVIOUS
  <2>2. PICK q : q = FillQuantity(o, m)
    OBVIOUS
  <2>3. /\ s \in Sides /\ s # side[o] /\ m \in ids /\ m \in Orders
        /\ side[m] = s /\ limit[m] = p /\ q \in Nat \ {0}
    BY <1>0, <1>2, <2>1, <2>2, MatchFacts
  <2>4. /\ incoming = o /\ IsBest(s, p) /\ Acceptable(o, p)
        /\ remaining' = [remaining EXCEPT ![o] = @ - q, ![m] = @ - q]
        /\ UNCHANGED orderVars /\ UNCHANGED incoming
        /\ ids' = IF remaining[m] = q THEN ids \ {m} ELSE ids
    BY <1>2, <2>1, <2>2 DEF MatchStep, RemoveFilled
  <2>. HIDE DEF s
  <2>5. Abstract!Matches(o, m)
    BY <2>3, <2>4 DEF Abstract!Matches, Acceptable, Market, Abstract!Market
  <2>6. \A n \in ids \ {m} : side[n] = side[m] => Abstract!HasPriority(m, n)
    BY <1>0, <2>1, <2>3, <2>4, HeadHasPriority DEF s
  <2>7. q = IF remaining[o] < remaining[m] THEN remaining[o] ELSE remaining[m]
    BY <2>2 DEF FillQuantity
  <2>8. q > 0
    BY <2>3
  <2>9. Abstract!Fill(o, m)
    BY <2>3, <2>4, <2>5, <2>6, <2>7, <2>8 DEF Abstract!Fill, orderVars
  <2>. QED  BY <2>3, <2>9
<1>3. ASSUME NEW o \in Orders, MatchDone(o)
      PROVE  Abstract!Settle(o)
  <2>1. /\ incoming = o /\ incoming' = NoOrder
        /\ UNCHANGED orderVars /\ UNCHANGED remaining
        /\ remaining[o] = 0 \/ \A m \in ids : ~Abstract!Matches(o, m)
    BY <1>0, <1>3, NoLevelNoMatch DEF MatchDone
  <2>2. ids' = IF remaining[o] > 0 /\ limit[o] # Market THEN ids \cup {o} ELSE ids
    BY <1>3 DEF MatchDone, Rests, Insert, bookVars
  <2>. QED  BY <2>1, <2>2 DEF Abstract!Settle, orderVars, NoOrder, Abstract!NoOrder,
                               Market, Abstract!Market
<1>4. ASSUME NEW o \in Orders, Cancel(o)
      PROVE  Abstract!Withdraw(o)
  <2>1. o \in ids
    BY <1>0, <1>4 DEF Cancel, Book, IndexAgrees
  <2>. QED  BY <1>4, <2>1 DEF Cancel, Abstract!Withdraw, orderVars, NoOrder, Abstract!NoOrder
<1>5. CASE UNCHANGED vars
  BY <1>5 DEF vars, orderVars, bookVars, Abstract!vars
<1>. QED  BY <1>1, <1>2, <1>3, <1>4, <1>5 DEF Next, Abstract!Next

\* The sorted levels and queues implement price-time priority.
THEOREM BookImplementsPriority == Spec => ImplementsPriority
<1>1. Init => Abstract!Init
  BY DEF Init, Abstract!Init, NoOrder, Abstract!NoOrder, Market, Abstract!Market
<1>2. Inv /\ [Next]_vars => [Abstract!Next]_(Abstract!vars)
  BY StepRefines
<1>. QED  BY Invariance, <1>1, <1>2, PTL DEF Spec, Abstract!Spec, ImplementsPriority
====
