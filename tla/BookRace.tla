---- MODULE BookRace ----
(***************************************************************************)
(* One side of an OrderBook as two threads use it without a lock: the      *)
(* matching thread inserts orders, matches incoming ones against the side  *)
(* and cancels all of them at the close, and the validator thread cancels  *)
(* orders in between.  OrderBook takes each of these calls as atomic; here *)
(* they are list and dictionary operations.  One action is the code        *)
(* between two places where CPython (3.10 or later) may switch threads, a  *)
(* call or the end of a loop's turn; steps that commute with everything    *)
(* the other thread does are joined to their neighbours.                   *)
(*                                                                         *)
(* The side is that of the bids; asks are the same with prices reversed.   *)
(* A PriceLevel object is named by the order it was created for: two       *)
(* objects of one price are two names.                                     *)
(***************************************************************************)
EXTENDS Integers, Sequences, FiniteSets, FiniteSetsExt, SequencesExt

CONSTANTS
  Orders,       \* the buy orders that come to rest, numbered as they come
  Prices,       \* limit prices
  Quantities,   \* quantities of resting orders
  SellQuantities, \* quantities of incoming orders
  MaxIncoming,  \* bound on the sell orders that are matched
  MaxCloses,    \* bound on the market closes
  MaxCancels    \* bound on the cancellations asked for

ASSUME OrdersAssumption == Orders \subseteq Nat \ {0}
ASSUME PricesAssumption == Prices \subseteq Nat \ {0}
ASSUME QuantitiesAssumption == Quantities \cup SellQuantities \subseteq Nat \ {0}
ASSUME BoundsAssumption == {MaxIncoming, MaxCloses, MaxCancels} \subseteq Nat

Threads == {"matcher", "validator"}
None == 0

VARIABLES
  limit,        \* limit[o]: Order.price, 0 before the order is submitted
  remaining,    \* remaining[o]: Order.remaining_quantity
  bids,         \* OrderBook.bids, the PriceLevel objects in order
  queue,        \* queue[l]: PriceLevel.orders
  total,        \* total[l]: PriceLevel.total_quantity
  mapped,       \* the keys of order_price_map
  ids,          \* order_ids
  th,           \* th[t]: where thread t is, and its local variables
  incoming,     \* the sell order being matched: what it has left, its price
  toClose,      \* all_orders of cancel_all_orders, not yet cancelled
  closing,      \* the matching thread is in cancel_all_orders
  answer,       \* answer[o]: what became of the request to cancel o
  submitted,    \* how many sell orders and closes there have been
  raised,       \* history: a call has raised an exception
  raced         \* history: both threads have been in the book at once

bookVars == <<limit, remaining, bids, queue, total, mapped, ids>>
ctlVars == <<incoming, toClose, closing, answer, submitted, raised, raced>>
vars == <<bookVars, th, ctlVars>>

Places ==
  {"idle", "dead", "enter", "search",                   \* remove_order
   "seek", "forget", "check", "drop",                   \* cancel_order
   "place", "position", "insert", "append", "index",    \* _insert_order
   "match", "pick", "fill", "unlist", "unmap", "pop",   \* _match_order
   "collect", "close"}                                  \* cancel_all_orders

Thread == [at : Places, order : Orders \cup {None},
           level : Orders \cup {None}, index : Nat, fresh : BOOLEAN]
Idle == [at |-> "idle", order |-> None, level |-> None, index |-> 0,
         fresh |-> FALSE]
NoSell == [left |-> 0, price |-> 0]
Cleared == [l \in Orders |-> 0]

TypeOK ==
  /\ limit \in [Orders -> Prices \cup {0}]
  /\ remaining \in [Orders -> Nat]
  /\ bids \in Seq(Orders)
  /\ queue \in [Orders -> Seq(Orders)]
  /\ total \in [Orders -> Int]
  /\ mapped \subseteq Orders /\ ids \subseteq Orders
  /\ th \in [Threads -> Thread]
  /\ incoming \in [left : Nat, price : Prices \cup {0}]
  /\ toClose \in Seq(Orders)
  /\ closing \in BOOLEAN
  /\ answer \in [Orders -> {"none", "confirmed", "not_found", "error"}]
  /\ submitted \in [sells : 0..MaxIncoming, closes : 0..MaxCloses]
  /\ raised \in BOOLEAN /\ raced \in BOOLEAN

Init ==
  /\ limit = Cleared /\ remaining = Cleared /\ total = Cleared
  /\ bids = <<>> /\ queue = [l \in Orders |-> <<>>]
  /\ mapped = {} /\ ids = {}
  /\ th = [t \in Threads |-> Idle]
  /\ incoming = NoSell
  /\ toClose = <<>> /\ closing = FALSE
  /\ answer = [o \in Orders |-> "none"]
  /\ submitted = [sells |-> 0, closes |-> 0]
  /\ raised = FALSE /\ raced = FALSE

-----------------------------------------------------------------------------
(* Threads. *)

At(t, a) == th[t].at = a
Other(t) == IF t = "matcher" THEN "validator" ELSE "matcher"

\* Thread t goes on at place a with other values of its local variables.
Goes(t, a) == [th EXCEPT ![t].at = a, ![t].fresh = FALSE]
Begins(t, a, o) ==
  /\ th' = [th EXCEPT ![t] = [Idle EXCEPT !.at = a, !.order = o, !.index = 1]]
  /\ raced' = (raced \/ th[Other(t)].at \notin {"idle", "dead"})

\* Every iterator over the deque of level l, except that of thread t, will
\* raise when it is asked for its next element.
Mutated(t, l, next) ==
  [next EXCEPT ![Other(t)].fresh = @ /\ next[Other(t)].level # l]

\* cancel_order returns: the validator answers, cancel_all_orders goes on.
Finish(t, a) ==
  IF t = "validator"
  THEN /\ answer' = [answer EXCEPT ![th[t].order] = a]
       /\ th' = [th EXCEPT ![t] = Idle]
  ELSE /\ th' = [th EXCEPT ![t] = [Idle EXCEPT !.at = "close"]]
       /\ UNCHANGED answer

\* An exception leaves the book.  validate_cancellation takes a ValueError for
\* an order that is not found, and handle_validator_error answers every other
\* exception with an internal error; _process_single_order drops the result of
\* a submission; nothing catches what leaves check_phase_transitions.
Raise(t, e) ==
  /\ raised' = TRUE
  /\ incoming' = IF t = "matcher" THEN NoSell ELSE incoming
  /\ IF t = "validator"
     THEN /\ answer' = [answer EXCEPT ![th[t].order] =
                          IF e = "ValueError" THEN "not_found" ELSE "error"]
          /\ th' = [th EXCEPT ![t] = Idle]
     ELSE /\ th' = [th EXCEPT ![t] =
                      IF closing THEN [Idle EXCEPT !.at = "dead"] ELSE Idle]
          /\ UNCHANGED answer

-----------------------------------------------------------------------------
(* PriceLevel.remove_order and cancel_order. *)

\* The validator cancels o.  The phase was looked at before: a cancellation
\* does not begin during the close, but may be under way when that begins.
StartCancel(o) ==
  /\ At("validator", "idle") /\ ~closing
  /\ limit[o] # 0 /\ answer[o] = "none"
  /\ Cardinality({i \in Orders : answer[i] # "none"}) < MaxCancels
  /\ IF o \in mapped
     THEN Begins("validator", "seek", o) /\ UNCHANGED answer
     ELSE answer' = [answer EXCEPT ![o] = "not_found"] /\ UNCHANGED <<th, raced>>
  /\ UNCHANGED <<bookVars, incoming, toClose, closing, submitted, raised>>

\* The list of levels is iterated by index: a level that goes meanwhile makes
\* the loop skip the next one.
Seek(t) ==
  LET o == th[t].order
      i == th[t].index
  IN /\ At(t, "seek")
     /\ IF i > Len(bids) THEN Finish(t, "not_found")
        ELSE /\ th' = [th EXCEPT ![t] = IF limit[bids[i]] = limit[o]
                 THEN [@ EXCEPT !.at = "enter", !.level = bids[i], !.index = 0]
                 ELSE [@ EXCEPT !.index = i + 1]]
             /\ UNCHANGED answer
     /\ UNCHANGED <<bookVars, incoming, toClose, closing, submitted, raised, raced>>

\* remove_order makes its iterator.
Enter(t) ==
  /\ At(t, "enter")
  /\ th' = [th EXCEPT ![t].at = "search", ![t].fresh = TRUE]
  /\ UNCHANGED <<bookVars, ctlVars>>

\* Where remove_order returns to in its three callers.
Cancelling(t) == t = "validator" \/ closing

\* Mutants: the order stays in the deque; the deque's first order is taken out,
\* whichever was asked for.
AsItIs(l, o) == queue[l]

WithoutFirst(l, o) == Tail(queue[l])

Without(l, o) == RemoveFirst(queue[l], o)

\* remove_order looks through the deque and takes the order out.
Search(t) ==
  LET o == th[t].order
      l == th[t].level
  IN /\ At(t, "search")
     /\ IF ~th[t].fresh
        THEN Raise(t, "RuntimeError") /\ UNCHANGED <<queue, total>>
        ELSE /\ UNCHANGED <<incoming, raised>>
             /\ IF o \in Range(queue[l])
                THEN /\ queue' = [queue EXCEPT ![l] = Without(l, o)]
                     /\ total' = [total EXCEPT ![l] = @ - remaining[o]]
                     /\ th' = Mutated(t, l, Goes(t, IF Cancelling(t) THEN "forget"
                                                   ELSE "unlist"))
                     /\ UNCHANGED answer
                ELSE /\ UNCHANGED <<queue, total>>
                     /\ IF Cancelling(t) THEN Finish(t, "not_found")
                        ELSE th' = Goes(t, "unlist") /\ UNCHANGED answer
     /\ UNCHANGED <<limit, remaining, bids, mapped, ids, toClose, closing,
                    submitted, raced>>

\* cancel_order deletes the order from the two tables.
Forget(t) ==
  LET o == th[t].order
  IN /\ At(t, "forget")
     /\ mapped' = mapped \ {o}
     /\ ids' = IF o \in mapped THEN ids \ {o} ELSE ids
     /\ IF o \in mapped /\ o \in ids
        THEN th' = Goes(t, "check") /\ UNCHANGED <<answer, raised, incoming>>
        ELSE Raise(t, "KeyError")
     /\ UNCHANGED <<limit, remaining, bids, queue, total, toClose, closing,
                    submitted, raced>>

CheckEmpty(t) ==
  /\ At(t, "check")
  /\ IF queue[th[t].level] = <<>>
     THEN /\ th' = [th EXCEPT ![t].at = "drop", ![t].index = 1]
          /\ UNCHANGED answer
     ELSE Finish(t, "confirmed")
  /\ UNCHANGED <<bookVars, incoming, toClose, closing, submitted, raised, raced>>

\* PriceLevel is a dataclass: its equality is that of its fields.
Equal(k, l) ==
  \/ k = l
  \/ limit[k] = limit[l] /\ queue[k] = queue[l] /\ total[k] = total[l]

\* order_list.remove(level) compares one element after the other.
Drop(t) ==
  LET i == th[t].index
  IN /\ At(t, "drop")
     /\ IF i > Len(bids) THEN Raise(t, "ValueError") /\ UNCHANGED bids
        ELSE /\ UNCHANGED <<incoming, raised>>
             /\ IF Equal(bids[i], th[t].level)
                THEN bids' = RemoveAt(bids, i) /\ Finish(t, "confirmed")
                ELSE /\ th' = [th EXCEPT ![t].index = i + 1]
                     /\ UNCHANGED <<bids, answer>>
     /\ UNCHANGED <<limit, remaining, queue, total, mapped, ids, toClose, closing,
                    submitted, raced>>

-----------------------------------------------------------------------------
(* _insert_order: the matching thread puts an order into the side. *)

M == "matcher"
matcherOnly == <<incoming, toClose, closing, answer, submitted, raised>>

StartInsert(o, p, q) ==
  /\ At(M, "idle")
  /\ limit[o] = 0 /\ \A i \in Orders : i < o => limit[i] # 0
  /\ limit' = [limit EXCEPT ![o] = p]
  /\ remaining' = [remaining EXCEPT ![o] = q]
  /\ Begins(M, "place", o)
  /\ UNCHANGED <<bids, queue, total, mapped, ids, matcherOnly>>

\* The loop that looks for a level of the order's price.
Place ==
  LET i == th[M].index
  IN /\ At(M, "place")
     /\ th' = [th EXCEPT ![M] =
          IF i > Len(bids) THEN [@ EXCEPT !.at = "position", !.index = 0]
          ELSE IF limit[bids[i]] = limit[th[M].order]
          THEN [@ EXCEPT !.at = "append", !.level = bids[i], !.index = 0]
          ELSE [@ EXCEPT !.index = i + 1]]
     /\ UNCHANGED <<bookVars, ctlVars>>

\* bisect_left over the negated prices: on a sorted list there is one such
\* place, on a list that a race has left unsorted it may be any of them.
Position ==
  LET p == limit[th[M].order]
  IN /\ At(M, "position")
     /\ \E k \in 1..Len(bids) + 1 :
          /\ k > 1 => limit[bids[k - 1]] > p
          /\ k <= Len(bids) => limit[bids[k]] <= p
          /\ th' = [th EXCEPT ![M].at = "insert", ![M].index = k]
     /\ UNCHANGED <<bookVars, ctlVars>>

\* list.insert takes an index past the end for the end.
InsertLevel ==
  LET o == th[M].order
      k == th[M].index
  IN /\ At(M, "insert")
     /\ bids' = IF k > Len(bids) THEN Append(bids, o) ELSE InsertAt(bids, k, o)
     /\ th' = [th EXCEPT ![M].at = "append", ![M].level = o, ![M].index = 0]
     /\ UNCHANGED <<limit, remaining, queue, total, mapped, ids, ctlVars>>

\* PriceLevel.add_order.
AppendOrder ==
  LET o == th[M].order
      l == th[M].level
  IN /\ At(M, "append")
     /\ queue' = [queue EXCEPT ![l] = Append(@, o)]
     /\ total' = [total EXCEPT ![l] = @ + remaining[o]]
     /\ th' = Mutated(M, l, Goes(M, "index"))
     /\ UNCHANGED <<limit, remaining, bids, mapped, ids, ctlVars>>

\* The two tables learn of the order.
Index ==
  LET o == th[M].order
  IN /\ At(M, "index")
     /\ mapped' = mapped \cup {o} /\ ids' = ids \cup {o}
     /\ th' = [th EXCEPT ![M] = Idle]
     /\ UNCHANGED <<limit, remaining, bids, queue, total, ctlVars>>

-----------------------------------------------------------------------------
(* _match_order: the matching thread matches a sell order. *)

StartMatch(p, q) ==
  /\ At(M, "idle") /\ submitted.sells < MaxIncoming
  /\ submitted' = [submitted EXCEPT !.sells = @ + 1]
  /\ incoming' = [left |-> q, price |-> p]
  /\ Begins(M, "match", None)
  /\ UNCHANGED <<bookVars, toClose, closing, answer, raised>>

\* The head of the loop; the result goes to the trade queue after it.
Loop ==
  /\ At(M, "match")
  /\ IF incoming.left = 0 \/ bids = <<>> \/ limit[bids[1]] < incoming.price
     THEN th' = [th EXCEPT ![M] = Idle] /\ incoming' = NoSell
     ELSE /\ th' = [th EXCEPT ![M] = [Idle EXCEPT !.at = "pick", !.level = bids[1]]]
          /\ UNCHANGED incoming
  /\ UNCHANGED <<bookVars, toClose, closing, answer, submitted, raised, raced>>

\* Mutant: an empty level is passed over instead of raising.
PickOrSkip ==
  LET l == th[M].level
  IN /\ At(M, "pick")
     /\ th' = IF queue[l] = <<>>
              THEN [th EXCEPT ![M] = [Idle EXCEPT !.at = "match"]]
              ELSE [th EXCEPT ![M].at = "fill", ![M].order = Head(queue[l])]
     /\ UNCHANGED <<bookVars, ctlVars>>

\* best_price_level.orders[0]
Pick ==
  LET l == th[M].level
  IN /\ At(M, "pick")
     /\ IF queue[l] = <<>> THEN Raise(M, "IndexError")
        ELSE /\ th' = [th EXCEPT ![M].at = "fill", ![M].order = Head(queue[l])]
             /\ UNCHANGED <<incoming, answer, raised>>
     /\ UNCHANGED <<bookVars, toClose, closing, submitted, raced>>

\* Mutant: the resting order's own remainder is not looked at.
AllOfIncoming(m) == incoming.left

FillQuantity(m) == Min({incoming.left, remaining[m]})

\* Trade and Order.fill refuse a quantity that is not positive.
\* The trade, both orders and the total of the level.
Fill ==
  LET l == th[M].level
      m == th[M].order
      q == FillQuantity(m)
  IN /\ At(M, "fill")
     /\ IF q > 0
        THEN /\ remaining' = [remaining EXCEPT ![m] = @ - q]
             /\ incoming' = [incoming EXCEPT !.left = @ - q]
             /\ total' = [total EXCEPT ![l] = @ - q]
             /\ th' = IF remaining[m] = q THEN Goes(M, "enter")
                      ELSE [th EXCEPT ![M] = [Idle EXCEPT !.at = "match"]]
             /\ UNCHANGED <<answer, raised>>
        ELSE Raise(M, "ValueError") /\ UNCHANGED <<remaining, total>>
     /\ UNCHANGED <<limit, bids, queue, mapped, ids, toClose, closing,
                    submitted, raced>>

\* order_ids.remove
Unlist ==
  LET m == th[M].order
  IN /\ At(M, "unlist")
     /\ ids' = ids \ {m}
     /\ IF m \in ids THEN th' = Goes(M, "unmap") /\ UNCHANGED <<incoming, answer, raised>>
        ELSE Raise(M, "KeyError")
     /\ UNCHANGED <<limit, remaining, bids, queue, total, mapped, toClose, closing,
                    submitted, raced>>

\* del order_price_map[...], and is_empty.
Unmap ==
  LET m == th[M].order
  IN /\ At(M, "unmap")
     /\ mapped' = mapped \ {m}
     /\ IF m \in mapped
        THEN /\ th' = IF queue[th[M].level] = <<>> THEN Goes(M, "pop")
                      ELSE [th EXCEPT ![M] = [Idle EXCEPT !.at = "match"]]
             /\ UNCHANGED <<incoming, answer, raised>>
        ELSE Raise(M, "KeyError")
     /\ UNCHANGED <<limit, remaining, bids, queue, total, ids, toClose, closing,
                    submitted, raced>>

\* Mutant: list.pop without its index.
PopLast ==
  /\ At(M, "pop")
  /\ IF bids = <<>> THEN Raise(M, "IndexError") /\ UNCHANGED bids
     ELSE /\ bids' = Front(bids)
          /\ th' = [th EXCEPT ![M] = [Idle EXCEPT !.at = "match"]]
          /\ UNCHANGED <<incoming, answer, raised>>
  /\ UNCHANGED <<limit, remaining, queue, total, mapped, ids, toClose, closing,
                 submitted, raced>>

\* The empty level is taken to be still the first.
Pop ==
  /\ At(M, "pop")
  /\ IF bids = <<>> THEN Raise(M, "IndexError") /\ UNCHANGED bids
     ELSE /\ bids' = Tail(bids)
          /\ th' = [th EXCEPT ![M] = [Idle EXCEPT !.at = "match"]]
          /\ UNCHANGED <<incoming, answer, raised>>
  /\ UNCHANGED <<limit, remaining, queue, total, mapped, ids, toClose, closing,
                 submitted, raced>>

-----------------------------------------------------------------------------
(* cancel_all_orders, from check_phase_transitions. *)

StartClose ==
  /\ At(M, "idle") /\ submitted.closes < MaxCloses
  /\ submitted' = [submitted EXCEPT !.closes = @ + 1]
  /\ closing' = TRUE
  /\ Begins(M, "collect", None)
  /\ UNCHANGED <<bookVars, incoming, toClose, answer, raised>>

\* all_orders.extend(price_level.orders), level after level.
Collect ==
  LET i == th[M].index
  IN /\ At(M, "collect")
     /\ IF i > Len(bids)
        THEN /\ th' = [th EXCEPT ![M] = [Idle EXCEPT !.at = "close"]]
             /\ UNCHANGED toClose
        ELSE /\ toClose' = toClose \o queue[bids[i]]
             /\ th' = [th EXCEPT ![M].index = i + 1]
     /\ UNCHANGED <<bookVars, incoming, closing, answer, submitted, raised, raced>>

\* cancel_order for the next collected order that the book still knows.
CloseNext ==
  /\ At(M, "close")
  /\ IF toClose = <<>>
     THEN closing' = FALSE /\ th' = [th EXCEPT ![M] = Idle] /\ UNCHANGED toClose
     ELSE /\ toClose' = Tail(toClose)
          /\ IF Head(toClose) \in mapped
             THEN th' = [th EXCEPT ![M] =
                           [Idle EXCEPT !.at = "seek", !.order = Head(toClose), !.index = 1]]
             ELSE UNCHANGED th
          /\ UNCHANGED closing
  /\ UNCHANGED <<bookVars, incoming, answer, submitted, raised, raced>>

-----------------------------------------------------------------------------

Step(t) == Seek(t) \/ Enter(t) \/ Search(t) \/ Forget(t) \/ CheckEmpty(t) \/ Drop(t)

MatcherStep ==
  \/ Step(M)
  \/ Place \/ Position \/ InsertLevel \/ AppendOrder \/ Index
  \/ Loop \/ Pick \/ Fill \/ Unlist \/ Unmap \/ Pop
  \/ Collect \/ CloseNext

Next ==
  \/ \E o \in Orders : StartCancel(o)
  \/ \E o \in Orders, p \in Prices, q \in Quantities : StartInsert(o, p, q)
  \/ \E p \in Prices, q \in SellQuantities : StartMatch(p, q)
  \/ StartClose
  \/ MatcherStep
  \/ Step("validator")

\* Both threads run: a call that has begun goes on.
Spec == Init /\ [][Next]_vars /\ WF_vars(MatcherStep) /\ WF_vars(Step("validator"))

-----------------------------------------------------------------------------
(* Properties. *)

Quiet == \A t \in Threads : th[t].at \in {"idle", "dead"}

\* Nobody uses the book, and its structures describe the same orders: sorted
\* levels that are not empty, with the totals of their queues, and every order
\* of the tables in the queue of its price, with something left.
Agrees ==
  /\ mapped = ids
  /\ \A i, j \in DOMAIN bids : i < j => limit[bids[i]] > limit[bids[j]]
  /\ \A l \in Range(bids) :
       /\ queue[l] # <<>>
       /\ total[l] = SumFunctionOnSet(remaining, Range(queue[l]))
       /\ \A o \in Range(queue[l]) : limit[o] = limit[l] /\ remaining[o] > 0
  /\ ids = UNION {Range(queue[l]) : l \in Range(bids)}

\* The threads leave a book that is as OrderBook has it: architecture-v3.md
\* promises "Thread-safe order book operations".  The code does not keep it.
BookStaysConsistent == Quiet => Agrees

\* While no cancellation of the validator thread overlaps a call of the
\* matching thread, the list operations leave the book that OrderBook
\* describes, and nothing raises: only a race can lose a result, answer a
\* cancellation with an error or end the matching thread.
SerialCallsAgree == ~raced => ~raised /\ (Quiet => Agrees)

\* Whatever the threads do to each other, an order is in at most one queue, at
\* most once, and while it is, the look-up table knows it, unless it is just
\* being inserted: no race hides from cancel_order an order that may trade.
\* The two tables differ only while a call is under way, also after a call has
\* raised between its two deletions.
QueuedOnceAndMapped ==
  /\ \A l \in Orders : IsInjective(queue[l])
  /\ \A k, l \in Orders : k # l => Range(queue[k]) \cap Range(queue[l]) = {}
  /\ \A l \in Orders : \A o \in Range(queue[l]) :
       o \in mapped \/ (At(M, "index") /\ th[M].order = o)
  /\ Quiet => mapped = ids

\* In every race an order whose cancellation is confirmed to the client has left
\* every queue: only the fill of a match that has picked it can still happen.
ConfirmedHasLeft ==
  \A o \in Orders :
    answer[o] = "confirmed" => \A l \in Orders : o \notin Range(queue[l])

\* Every call ends, also in a book that a race has damaged: the matching loop
\* raises rather than spin on an empty level or an order with nothing left.
CallsEnd == \A t \in Threads : ~At(t, "idle") ~> th[t].at \in {"idle", "dead"}
====
