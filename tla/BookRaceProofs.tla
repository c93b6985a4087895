---- MODULE BookRaceProofs ----
(***************************************************************************)
(* Machine-checked proofs about BookRace, for every set of orders, prices  *)
(* and quantities and all bounds: what two threads that use one side of a  *)
(* book without a lock cannot do to it.  Most steps only move a thread     *)
(* from one place to another: what is known of a thread at a place is one  *)
(* operator, Fits, and the lemmas Moving and Losing say what such a step   *)
(* has to establish.                                                       *)
(***************************************************************************)
EXTENDS BookRace, DataLemmas

-----------------------------------------------------------------------------
(* The levels and their totals. *)

\* An order is in one place of one queue.
QueuedOnce ==
  /\ \A l \in Orders : IsInjective(queue[l])
  /\ \A k, l \in Orders : k # l => Range(queue[k]) \cap Range(queue[l]) = {}

\* The sum of quantities one of which becomes smaller.
LEMMA SumLess ==
  ASSUME NEW r \in [Orders -> Nat], NEW g \in [Orders -> Nat], NEW S, S \subseteq Orders,
         IsFiniteSet(S), NEW m \in S, NEW q \in Nat, g[m] = r[m] - q,
         \A x \in Orders \ {m} : g[x] = r[x]
  PROVE  SumFunctionOnSet(g, S) = SumFunctionOnSet(r, S) - q
<1>1. /\ \A y \in S : r[y] \in Int /\ g[y] \in Int
      /\ \A y \in S \ {m} : g[y] = r[y]
  OBVIOUS
<1>2. PICK d : d = g[m] - r[m]
  OBVIOUS
<1>3. SumFunctionOnSet(g, S) = SumFunctionOnSet(r, S) + (g[m] - r[m])
  BY <1>1, SumUpdate
<1>4. SumFunctionOnSet(r, S) \in Int
  BY <1>1, SumType
<1>. QED  BY <1>1, <1>3, <1>4

\* The totals after a trade.
LEMMA TradedTotals ==
  ASSUME queue \in [Orders -> Seq(Orders)], total \in [Orders -> Int],
         remaining \in [Orders -> Nat], remaining' \in [Orders -> Nat], QueuedOnce,
         NEW l \in Orders, NEW m \in Orders, m \in Range(queue[l]), NEW q \in Nat,
         remaining'[m] = remaining[m] - q,
         \A x \in Orders \ {m} : remaining'[x] = remaining[x],
         total'[l] = total[l] - q, \A k \in Orders \ {l} : total'[k] = total[k],
         \A k \in Orders : total[k] = SumFunctionOnSet(remaining, Range(queue[k]))
  PROVE  \A k \in Orders : total'[k] = SumFunctionOnSet(remaining', Range(queue[k]))
<1>1. \A k \in Orders : IsFiniteSet(Range(queue[k])) /\ Range(queue[k]) \subseteq Orders
  BY RangeIsFinite, RangeOfSeq
<1>2. ASSUME NEW S, S = Range(queue[l])
      PROVE  SumFunctionOnSet(remaining', S) = SumFunctionOnSet(remaining, S) - q
  <2>1. IsFiniteSet(S) /\ S \subseteq Orders /\ m \in S
    BY <1>1, <1>2
  <2>. QED  BY <2>1, SumLess
<1>3. ASSUME NEW k \in Orders, k # l
      PROVE  SumFunctionOnSet(remaining', Range(queue[k]))
             = SumFunctionOnSet(remaining, Range(queue[k]))
  <2>1. m \notin Range(queue[k])
    BY <1>3 DEF QueuedOnce
  <2>2. \A y \in Range(queue[k]) : remaining'[y] = remaining[y]
    BY <1>1, <2>1
  <2>. QED  BY <1>1, <2>2, SumAgrees
<1>. QED  BY <1>2, <1>3

\* One more level in the list.
LEMMA OneMoreLevel ==
  ASSUME NEW s \in Seq(Orders), NEW k \in 1..Len(s) + 1, NEW o \in Orders,
         NEW t, t = Inserted(s, k, o)
  PROVE  /\ t \in Seq(Orders) /\ Len(t) = Len(s) + 1
         /\ \A j \in 1..(Len(s) + 1) :
              t[j] = IF j < k THEN s[j] ELSE IF j = k THEN o ELSE s[j - 1]
         /\ Range(t) = Range(s) \cup {o}
<1>1. t \in Seq(Orders) /\ Len(t) = Len(s) + 1 /\ Range(t) = Range(s) \cup {o}
  BY InsertedIntoList
<1>2. Len(s) \in Nat
  BY LenProperties
<1>3. \A j \in 1..(Len(s) + 1) :
        t[j] = IF j < k THEN s[j] ELSE IF j = k THEN o ELSE s[j - 1]
  BY <1>2, InsertedIntoList
<1>. QED  BY <1>1, <1>3

\* An order is taken out of its queue.
LEMMA TakenOut ==
  ASSUME QueuedOnce, queue \in [Orders -> Seq(Orders)], NEW l \in Orders,
         NEW o \in Range(queue[l]), queue' = [queue EXCEPT ![l] = Without(l, o)]
  PROVE  /\ queue' \in [Orders -> Seq(Orders)]
         /\ \A k \in Orders : IsInjective(queue'[k])
         /\ \A k \in Orders : Range(queue'[k]) = Range(queue[k]) \ {o}
         /\ \A k \in Orders \ {l} : queue'[k] = queue[k]
<1>1. queue[l] \in Seq(Orders) /\ IsInjective(queue[l])
  BY DEF QueuedOnce
<1>2. PICK i \in 1..Len(queue[l]) :
        queue[l][i] = o /\ RemoveFirst(queue[l], o) = RemoveAt(queue[l], i)
  BY <1>1, RemoveFirstFromQueue
<1>3. PICK s : s = queue[l]
  OBVIOUS
<1>4. s \in Seq(Orders) /\ i \in 1..Len(s) /\ s[i] = o /\ IsInjective(s)
  BY <1>1, <1>2, <1>3
<1>5. /\ RemoveAt(s, i) \in Seq(Orders) /\ IsInjective(RemoveAt(s, i))
      /\ Range(RemoveAt(s, i)) = Range(s) \ {o}
  BY <1>4, RemoveFromInjective
<1>6. queue' = [queue EXCEPT ![l] = RemoveAt(s, i)]
  BY <1>2, <1>3 DEF Without
<1>7. /\ queue'[l] = RemoveAt(s, i) /\ queue' \in [Orders -> Seq(Orders)]
      /\ \A k \in Orders \ {l} : queue'[k] = queue[k]
  BY <1>5, <1>6
<1>8. \A k \in Orders \ {l} : o \notin Range(queue[k]) /\ IsInjective(queue[k])
  BY DEF QueuedOnce
<1>9. ASSUME NEW k \in Orders
      PROVE  IsInjective(queue'[k]) /\ Range(queue'[k]) = Range(queue[k]) \ {o}
  <2>1. CASE k = l
    BY <2>1, <1>3, <1>5, <1>7
  <2>2. CASE k # l
    BY <2>2, <1>7, <1>8
  <2>. QED  BY <2>1, <2>2
<1>. QED  BY <1>7, <1>9

\* The totals stay exact while nothing queued changes.
LEMMA SameTotals ==
  ASSUME queue \in [Orders -> Seq(Orders)], NEW k \in Orders,
         \A x \in Range(queue[k]) : remaining'[x] = remaining[x]
  PROVE  SumFunctionOnSet(remaining', Range(queue[k]))
         = SumFunctionOnSet(remaining, Range(queue[k]))
BY RangeIsFinite, SumAgrees

-----------------------------------------------------------------------------
(* The assumptions on the constants, known to every proof below. *)

USE OrdersAssumption, PricesAssumption, QuantitiesAssumption, BoundsAssumption

-----------------------------------------------------------------------------
(* The inductive invariant. *)

V == "validator"
InsertPlaces == {"place", "position", "insert", "append", "index"}
MatchPlaces == {"match", "pick", "fill", "unlist", "unmap", "pop"}
CancelPlaces == {"seek", "enter", "search", "forget", "check", "drop"}

Unqueued(o) == \A l \in Orders : o \notin Range(queue[l])

\* Thread t may be at place a with order o, level l and index i, while the
\* matching thread is closing or not: it is at a place of a call it makes, its
\* local variables have been assigned, the order it cancels has been submitted,
\* the order remove_order has been called for is in no queue, and the order
\* it inserts is new to the book.
Fits(t, closes, a, o, l, i) ==
  /\ IF t = V THEN a \in {"idle"} \cup CancelPlaces
     ELSE /\ a \in {"idle"} \cup InsertPlaces \cup MatchPlaces => ~closes
          /\ a \in {"collect", "close", "seek", "forget", "check", "drop"} => closes
  /\ a \in InsertPlaces \cup CancelPlaces \cup {"fill", "unlist", "unmap"} => o \in Orders
  /\ a \in {"enter", "search", "forget", "check", "drop", "append", "pick", "fill",
            "unlist", "unmap"} => l \in Orders
  /\ a \in {"seek", "drop", "place", "insert", "collect"} => i >= 1
  /\ t = V /\ a # "idle" => limit[o] # 0
  /\ a \in {"forget", "check", "drop", "unlist", "unmap"} => Unqueued(o)
  /\ a = "fill" \/ (t = M /\ a \in {"enter", "search"} /\ ~closes)
       => \A k \in Orders \ {l} : o \notin Range(queue[k])
  /\ a \in InsertPlaces => limit[o] # 0 /\ o \notin mapped /\ answer[o] # "confirmed"
  /\ a \in InsertPlaces \ {"index"} => Unqueued(o)

Located == \A t \in Threads :
  Fits(t, closing, th[t].at, th[t].order, th[t].level, th[t].index)

\* The validator does not cancel the order that is being inserted.
Apart == th[M].at \in InsertPlaces => th[V].at = "idle" \/ th[V].order # th[M].order

\* An order that is queued is mapped, unless it is about to be.
QueuedIsMapped ==
  \A l \in Orders : \A o \in Range(queue[l]) :
    o \in mapped \/ (th[M].at = "index" /\ th[M].order = o)

\* Mapped and confirmed orders have been submitted, confirmed ones have left.
Submitted ==
  /\ \A o \in mapped : limit[o] # 0
  /\ \A o \in Orders : answer[o] = "confirmed" => limit[o] # 0 /\ Unqueued(o)

\* The tables differ only between the two deletions of the matching loop.
TablesAgree ==
  IF th[M].at = "unmap" THEN ids = mapped \ {th[M].order} ELSE ids = mapped

Inv == /\ TypeOK /\ Located /\ Apart /\ QueuedOnce /\ QueuedIsMapped
       /\ Submitted /\ TablesAgree

-----------------------------------------------------------------------------
(* How threads move. *)

\* Thread t gets new local variables, the other keeps its own.
Moved(t, a, o, l, i) ==
  /\ th' \in [Threads -> Thread]
  /\ th'[t].at = a /\ th'[t].order = o /\ th'[t].level = l /\ th'[t].index = i
  /\ \A u \in Threads \ {t} :
       /\ th'[u].at = th[u].at /\ th'[u].order = th[u].order
       /\ th'[u].level = th[u].level /\ th'[u].index = th[u].index

\* There are two threads.
LEMMA ThreadsAreTwo == /\ M \in Threads /\ V \in Threads /\ M # V
                       /\ Threads = {M, V}
                       /\ \A t \in Threads : t = M \/ t = V
BY DEF Threads, M, V

\* A thread gets a new record.
LEMMA Stepping ==
  ASSUME th \in [Threads -> Thread], NEW t \in Threads, NEW r \in Thread,
         th' = [th EXCEPT ![t] = r]
  PROVE  Moved(t, r.at, r.order, r.level, r.index)
BY DEF Moved

\* A thread goes on with its local variables.
LEMMA Going ==
  ASSUME th \in [Threads -> Thread], NEW t \in Threads, NEW a \in Places,
         th' = Goes(t, a)
  PROVE  Moved(t, a, th[t].order, th[t].level, th[t].index)
<1>. DEFINE r == [th[t] EXCEPT !.at = a, !.fresh = FALSE]
<1>1. /\ r \in Thread /\ r.at = a /\ r.order = th[t].order
      /\ r.level = th[t].level /\ r.index = th[t].index
  BY DEF Thread
<1>2. th' = [th EXCEPT ![t] = r]
  BY DEF Goes, Thread
<1>. QED  BY <1>1, <1>2, Stepping

\* Iterators of the other thread may have become invalid.
LEMMA GoingAndMutating ==
  ASSUME th \in [Threads -> Thread], NEW t \in Threads, NEW a \in Places, NEW l,
         th' = Mutated(t, l, Goes(t, a))
  PROVE  Moved(t, a, th[t].order, th[t].level, th[t].index)
<1>. DEFINE g == Goes(t, a)
            u == Other(t)
<1>1. /\ u \in Threads /\ u # t /\ \A v \in Threads \ {t} : v = u
  BY ThreadsAreTwo DEF Other, M, V
<1>2. /\ g \in [Threads -> Thread] /\ g[u] = th[u]
      /\ g[t].at = a /\ g[t].order = th[t].order
      /\ g[t].level = th[t].level /\ g[t].index = th[t].index
  BY <1>1 DEF Goes, Thread
<1>3. th' = [g EXCEPT ![u].fresh = @ /\ g[u].level # l]
  BY DEF Mutated
<1>. HIDE DEF g, u
<1>4. PICK b \in BOOLEAN : b = (g[u].fresh /\ g[u].level # l)
  OBVIOUS
<1>5. th' = [g EXCEPT ![u] = [g[u] EXCEPT !.fresh = b]]
  BY <1>1, <1>2, <1>3, <1>4
<1>6. /\ [g[u] EXCEPT !.fresh = b] \in Thread
      /\ [g[u] EXCEPT !.fresh = b].at = g[u].at
      /\ [g[u] EXCEPT !.fresh = b].order = g[u].order
      /\ [g[u] EXCEPT !.fresh = b].level = g[u].level
      /\ [g[u] EXCEPT !.fresh = b].index = g[u].index
  BY <1>1, <1>2 DEF Thread
<1>. QED  BY <1>1, <1>2, <1>5, <1>6 DEF Moved

\* What is known of a thread at its place lasts while queues and look-up table
\* only lose orders.
LEMMA StillFits ==
  ASSUME NEW u \in Threads, NEW a, NEW o, NEW l, NEW i,
         Fits(u, closing, a, o, l, i), u = V \/ closing' = closing,
         \A x \in Orders : limit[x] # 0 => limit'[x] # 0, mapped' \subseteq mapped,
         \A k \in Orders : Range(queue'[k]) \subseteq Range(queue[k]),
         a \in InsertPlaces => answer'[o] # "confirmed"
  PROVE  Fits(u, closing, a, o, l, i)'
<1>1. Unqueued(o) => Unqueued(o)'
  BY DEF Unqueued
<1>2. \A k \in Orders : o \notin Range(queue[k]) => o \notin Range(queue'[k])
  OBVIOUS
<1>3. IF u = V THEN a \in {"idle"} \cup CancelPlaces
      ELSE /\ a \in {"idle"} \cup InsertPlaces \cup MatchPlaces => ~closing'
           /\ a \in {"collect", "close", "seek", "forget", "check", "drop"} => closing'
  BY DEF Fits
<1>4. /\ a \in InsertPlaces \cup CancelPlaces \cup {"fill", "unlist", "unmap"} => o \in Orders
      /\ a \in {"enter", "search", "forget", "check", "drop", "append", "pick", "fill",
                "unlist", "unmap"} => l \in Orders
      /\ a \in {"seek", "drop", "place", "insert", "collect"} => i >= 1
      /\ u = V /\ a # "idle" => o \in Orders /\ limit'[o] # 0
  BY DEF Fits
<1>5. /\ a \in {"forget", "check", "drop", "unlist", "unmap"} => Unqueued(o)'
      /\ a \in InsertPlaces => limit'[o] # 0 /\ o \notin mapped' /\ answer'[o] # "confirmed"
      /\ a \in InsertPlaces \ {"index"} => Unqueued(o)'
  BY <1>1, <1>4 DEF Fits
<1>6. a = "fill" \/ (u = M /\ a \in {"enter", "search"} /\ ~closing')
       => \A k \in Orders \ {l} : o \notin Range(queue'[k])
  BY <1>2, ThreadsAreTwo DEF Fits
<1>. QED  BY <1>3, <1>4, <1>5, <1>6 DEF Fits

\* It lasts for both threads when one moves to a place that it fits.
LEMMA Losing ==
  ASSUME Inv, NEW t \in Threads, NEW a, NEW o, NEW l, NEW i, Moved(t, a, o, l, i),
         \A x \in Orders : limit[x] # 0 => limit'[x] # 0, mapped' \subseteq mapped,
         \A k \in Orders : Range(queue'[k]) \subseteq Range(queue[k]),
         \A x \in Orders : answer'[x] = "confirmed" => 
            answer[x] = "confirmed" \/ (t = V /\ th[V].at # "idle" /\ th[V].order = x),
         t = V => closing' = closing,
         Fits(t, closing, a, o, l, i)'
  PROVE  Located'
<1>1. SUFFICES ASSUME NEW u \in Threads, u # t
               PROVE  Fits(u, closing, th[u].at, th[u].order, th[u].level, th[u].index)'
  <2>1. Fits(t, closing, th[t].at, th[t].order, th[t].level, th[t].index)'
    BY DEF Moved
  <2>. QED  BY <2>1, <1>1 DEF Located
<1>2. PICK b, x, k, j : b = th[u].at /\ x = th[u].order /\ k = th[u].level /\ j = th[u].index
  OBVIOUS
<1>3. th'[u].at = b /\ th'[u].order = x /\ th'[u].level = k /\ th'[u].index = j
  BY <1>1, <1>2 DEF Moved
<1>4. Fits(u, closing, b, x, k, j)
  BY <1>2 DEF Inv, Located
<1>5. u = V \/ closing' = closing
  BY <1>1, ThreadsAreTwo
<1>6. ASSUME b \in InsertPlaces PROVE answer'[x] # "confirmed"
  <2>1. u = M /\ t = V /\ x \in Orders /\ answer[x] # "confirmed"
    BY <1>6, <1>4, <1>1, ThreadsAreTwo DEF Fits, InsertPlaces, CancelPlaces
  <2>. QED  BY <2>1, <1>2, <1>6 DEF Inv, Apart
<1>7. Fits(u, closing, b, x, k, j)'
  BY <1>4, <1>5, <1>6, StillFits
<1>. QED  BY <1>3, <1>7

\* The step of thread t goes on with the call it is in.
GoesOn(t, a, o) ==
  IF t = M
  THEN /\ th[M].at \notin {"index", "unmap"} /\ a \notin {"index", "unmap"}
       /\ a \in InsertPlaces => th[M].at \in InsertPlaces /\ th[M].order = o
  ELSE a = "idle" \/ (o = th[V].order /\ th[V].at # "idle") \/ o \in mapped

\* A step that leaves queues and tables alone keeps the invariant when the thread
\* fits where it goes to.
LEMMA Moving ==
  ASSUME Inv, NEW t \in Threads, NEW a, NEW o, NEW l, NEW i, Moved(t, a, o, l, i),
         TypeOK', UNCHANGED <<limit, queue, mapped, ids>>, GoesOn(t, a, o),
         \A x \in Orders : answer'[x] = "confirmed" =>
            \/ answer[x] = "confirmed"
            \/ t = V /\ th[V].at # "idle" /\ th[V].order = x /\ Unqueued(x),
         t = V => closing' = closing,
         Fits(t, closing, a, o, l, i)'
  PROVE  Inv'
<1>1. Located'
  BY Losing
<1>2. CASE t = M
  <2>1. /\ th'[V].at = th[V].at /\ th'[V].order = th[V].order
        /\ th'[M].at = a /\ th'[M].order = o
    BY <1>2, ThreadsAreTwo DEF Moved
  <2>2. /\ th[M].at # "index" /\ th[M].at # "unmap" /\ a # "index" /\ a # "unmap"
        /\ a \in InsertPlaces => th[M].at \in InsertPlaces /\ th[M].order = o
    BY <1>2 DEF GoesOn
  <2>3. Apart' /\ QueuedIsMapped' /\ TablesAgree'
    BY <2>1, <2>2 DEF Inv, Apart, QueuedIsMapped, TablesAgree
  <2>. QED  BY <1>1, <1>2, <2>3, ThreadsAreTwo DEF Inv, QueuedOnce, Submitted, Unqueued
<1>3. CASE t = V
  <2>1. /\ th'[M].at = th[M].at /\ th'[M].order = th[M].order
        /\ th'[V].at = a /\ th'[V].order = o
    BY <1>3, ThreadsAreTwo DEF Moved
  <2>2. a = "idle" \/ (o = th[V].order /\ th[V].at # "idle") \/ o \in mapped
    BY <1>3, ThreadsAreTwo DEF GoesOn
  <2>3. th[M].at \in InsertPlaces => th[M].order \notin mapped
    BY ThreadsAreTwo DEF Inv, Located, Fits
  <2>4. Apart' /\ QueuedIsMapped' /\ TablesAgree'
    BY <2>1, <2>2, <2>3 DEF Inv, Apart, QueuedIsMapped, TablesAgree
  <2>5. \A x \in Orders : Unqueued(x) => Unqueued(x)'
    BY DEF Unqueued
  <2>6. Fits(V, closing, th[V].at, th[V].order, th[V].level, th[V].index)
    BY ThreadsAreTwo DEF Inv, Located
  <2>7. Submitted'
    BY <2>5, <2>6 DEF Inv, Submitted, Fits
  <2>. QED  BY <1>1, <2>4, <2>7 DEF Inv, QueuedOnce
<1>. QED  BY <1>2, <1>3, ThreadsAreTwo

Answers == {"none", "confirmed", "not_found", "error"}

\* What cancel_order's return changes.
LEMMA Finishing ==
  ASSUME TypeOK, NEW t \in Threads, NEW a \in Answers, Finish(t, a)
  PROVE  /\ Moved(t, IF t = V THEN "idle" ELSE "close", None, None, 0)
         /\ answer' \in [Orders -> Answers]
         /\ \A x \in Orders : answer'[x] = "confirmed" =>
              answer[x] = "confirmed" \/ (a = "confirmed" /\ t = V /\ th[V].order = x)
<1>1. th \in [Threads -> Thread] /\ answer \in [Orders -> Answers]
  BY DEF TypeOK, Answers
<1>2. [Idle EXCEPT !.at = "close"] \in Thread /\ Idle \in Thread
  BY DEF Idle, Thread, Places, None
<1>3. CASE t = V
  <2>1. /\ answer' = [answer EXCEPT ![th[t].order] = a]
        /\ th' = [th EXCEPT ![t] = Idle]
    BY <1>3 DEF Finish, V
  <2>2. Moved(t, "idle", None, None, 0)
    BY <2>1, <1>1, <1>2, Stepping DEF Idle
  <2>. QED  BY <2>1, <2>2, <1>1, <1>3
<1>4. CASE t # V
  <2>1. answer' = answer /\ th' = [th EXCEPT ![t] = [Idle EXCEPT !.at = "close"]]
    BY <1>4 DEF Finish, V
  <2>2. Moved(t, "close", None, None, 0)
    BY <2>1, <1>1, <1>2, Stepping DEF Idle
  <2>. QED  BY <2>1, <2>2, <1>1, <1>4
<1>. QED  BY <1>3, <1>4

\* What an exception that leaves the book changes.
LEMMA Raising ==
  ASSUME TypeOK, NEW t \in Threads, NEW e, Raise(t, e)
  PROVE  /\ Moved(t, IF t = M /\ closing THEN "dead" ELSE "idle", None, None, 0)
         /\ answer' \in [Orders -> Answers] /\ raised' \in BOOLEAN
         /\ incoming' \in [left : Nat, price : Prices \cup {0}]
         /\ \A x \in Orders : answer'[x] = "confirmed" => answer[x] = "confirmed"
<1>1. th \in [Threads -> Thread] /\ answer \in [Orders -> Answers]
  BY DEF TypeOK, Answers
<1>2. [Idle EXCEPT !.at = "dead"] \in Thread /\ Idle \in Thread
  BY DEF Idle, Thread, Places, None
<1>3. raised' \in BOOLEAN /\ incoming' \in [left : Nat, price : Prices \cup {0}]
  BY DEF Raise, TypeOK, NoSell
<1>4. CASE t = V
  <2>1. /\ answer' = [answer EXCEPT ![th[t].order] =
                        IF e = "ValueError" THEN "not_found" ELSE "error"]
        /\ th' = [th EXCEPT ![t] = Idle]
    BY <1>4 DEF Raise, V
  <2>2. Moved(t, "idle", None, None, 0)
    BY <2>1, <1>1, <1>2, Stepping DEF Idle
  <2>3. /\ answer' \in [Orders -> Answers]
        /\ \A x \in Orders : answer'[x] = "confirmed" => answer[x] = "confirmed"
    BY <2>1, <1>1 DEF Answers
  <2>. QED  BY <2>2, <2>3, <1>3, <1>4, ThreadsAreTwo
<1>5. CASE t = M
  <2>1. /\ answer' = answer
        /\ th' = [th EXCEPT ![t] = IF closing THEN [Idle EXCEPT !.at = "dead"] ELSE Idle]
    BY <1>5 DEF Raise, M
  <2>2. Moved(t, IF closing THEN "dead" ELSE "idle", None, None, 0)
    BY <2>1, <1>1, <1>2, Stepping DEF Idle
  <2>. QED  BY <2>1, <2>2, <1>1, <1>3, <1>5
<1>. QED  BY <1>4, <1>5, ThreadsAreTwo

\* The types of everything but the threads and the answers.
ElseTyped ==
  /\ limit \in [Orders -> Prices \cup {0}]
  /\ remaining \in [Orders -> Nat]
  /\ bids \in Seq(Orders)
  /\ queue \in [Orders -> Seq(Orders)]
  /\ total \in [Orders -> Int]
  /\ mapped \subseteq Orders /\ ids \subseteq Orders
  /\ incoming \in [left : Nat, price : Prices \cup {0}]
  /\ toClose \in Seq(Orders)
  /\ closing \in BOOLEAN
  /\ submitted \in [sells : 0..MaxIncoming, closes : 0..MaxCloses]
  /\ raised \in BOOLEAN /\ raced \in BOOLEAN

\* Threads, answers and everything else are typed apart.
LEMMA Types ==
  /\ TypeOK <=> /\ ElseTyped /\ th \in [Threads -> Thread]
                /\ answer \in [Orders -> Answers]
  /\ TypeOK' <=> /\ ElseTyped' /\ th' \in [Threads -> Thread]
                 /\ answer' \in [Orders -> Answers]
BY DEF TypeOK, ElseTyped, Answers

\* Where a thread is, and what is known of it there.
LEMMA Placed ==
  ASSUME Inv, NEW t \in Threads
  PROVE  /\ Fits(t, closing, th[t].at, th[t].order, th[t].level, th[t].index)
         /\ th[t] \in Thread /\ th \in [Threads -> Thread] /\ ElseTyped
         /\ TypeOK /\ answer \in [Orders -> Answers]
BY Types DEF Inv, Located

\* cancel_order may confirm only when the order is in no queue.
LEMMA FinishingKeepsInv ==
  ASSUME Inv, NEW t \in Threads, NEW a \in Answers, Finish(t, a),
         UNCHANGED <<limit, queue, mapped, ids, closing>>, ElseTyped',
         t = M => closing /\ th[M].at \notin {"index", "unmap"},
         t = V => th[V].at # "idle",
         a = "confirmed" => Unqueued(th[t].order)
  PROVE  Inv'
<1>. DEFINE b == IF t = V THEN "idle" ELSE "close"
<1>1. TypeOK
  BY DEF Inv
<1>2. /\ Moved(t, b, None, None, 0)
      /\ answer' \in [Orders -> Answers]
      /\ \A x \in Orders : answer'[x] = "confirmed" =>
              answer[x] = "confirmed" \/ (a = "confirmed" /\ t = V /\ th[V].order = x)
  BY <1>1, Finishing
<1>3. TypeOK'
  BY <1>2, Types DEF Moved
<1>4. Fits(t, closing, b, None, None, 0)'
  BY ThreadsAreTwo DEF Fits, InsertPlaces, CancelPlaces, MatchPlaces
<1>5. GoesOn(t, b, None)
  BY ThreadsAreTwo DEF GoesOn, InsertPlaces
<1>. HIDE DEF b
<1>. QED  BY <1>2, <1>3, <1>4, <1>5, Moving

\* A call that raises where the tables agree leaves the book as it is.
LEMMA RaisingKeepsInv ==
  ASSUME Inv, NEW t \in Threads, NEW e, Raise(t, e),
         UNCHANGED <<limit, remaining, queue, total, mapped, ids, bids, toClose,
                     closing, submitted, raced>>,
         t = M => th[M].at \notin {"index", "unmap"},
         t = V => th[V].at # "idle"
  PROVE  Inv'
<1>. PICK b : b = IF t = M /\ closing THEN "dead" ELSE "idle"
  OBVIOUS
<1>1. TypeOK /\ ElseTyped
  BY Types DEF Inv
<1>2. /\ Moved(t, b, None, None, 0)
      /\ answer' \in [Orders -> Answers] /\ raised' \in BOOLEAN
      /\ incoming' \in [left : Nat, price : Prices \cup {0}]
      /\ \A x \in Orders : answer'[x] = "confirmed" => answer[x] = "confirmed"
  BY <1>1, Raising
<1>3. TypeOK'
  <2>1. ElseTyped'
    BY <1>1, <1>2 DEF ElseTyped
  <2>. QED  BY <1>2, <2>1, Types DEF Moved
<1>4. Fits(t, closing, b, None, None, 0)'
  BY ThreadsAreTwo, <1>1 DEF Fits, InsertPlaces, CancelPlaces, MatchPlaces, ElseTyped
<1>5. GoesOn(t, b, None)
  BY ThreadsAreTwo DEF GoesOn, InsertPlaces
<1>. QED  BY <1>2, <1>3, <1>4, <1>5, Moving

\* A thread walks through its call: no answer is given, nothing else changes.
LEMMA Walking ==
  ASSUME Inv, NEW t \in Threads, NEW a, NEW o, NEW l, NEW i, Moved(t, a, o, l, i),
         ElseTyped', UNCHANGED <<limit, queue, mapped, ids, answer, closing>>,
         GoesOn(t, a, o), Fits(t, closing, a, o, l, i)
  PROVE  Inv'
<1>1. TypeOK'
  BY Types DEF Moved, Inv
<1>2. a \in InsertPlaces => answer'[o] # "confirmed"
  BY DEF Fits
<1>3. Fits(t, closing, a, o, l, i)'
  BY <1>2, StillFits
<1>. QED  BY <1>1, <1>3, Moving

\* Looking for the level in cancel_order.
LEMMA SeekKeeps ==
  ASSUME Inv, NEW t \in Threads, Seek(t)
  PROVE  Inv'
<1>. DEFINE o == th[t].order
            i == th[t].index
<1>1. /\ th[t].at = "seek" /\ o \in Orders /\ i \in Nat /\ i >= 1
      /\ t = V => limit[o] # 0
      /\ t = M => closing
      /\ th \in [Threads -> Thread] /\ ElseTyped /\ TypeOK
      /\ UNCHANGED <<bookVars, incoming, toClose, closing, submitted, raised, raced>>
  BY Placed, ThreadsAreTwo DEF Seek, At, Fits, CancelPlaces, Thread
<1>2. ElseTyped'
  BY <1>1 DEF ElseTyped, bookVars
<1>3. CASE i > Len(bids)
  <2>1. Finish(t, "not_found")
    BY <1>3 DEF Seek
  <2>. QED  BY <1>1, <1>2, <2>1, FinishingKeepsInv, ThreadsAreTwo DEF bookVars, Answers
<1>4. CASE ~(i > Len(bids)) /\ limit[bids[i]] = limit[o]
  <2>1. bids[i] \in Orders
    BY <1>1, <1>4, ElementOfSeq, LenProperties DEF ElseTyped
  <2>2. /\ th' = [th EXCEPT ![t] = [@ EXCEPT !.at = "enter", !.level = bids[i], !.index = 0]]
        /\ answer' = answer
    BY <1>4 DEF Seek
  <2>3. Moved(t, "enter", o, bids[i], 0)
    <3>. DEFINE r == [th[t] EXCEPT !.at = "enter", !.level = bids[i], !.index = 0]
    <3>1. /\ r \in Thread /\ r.at = "enter" /\ r.order = o
          /\ r.level = bids[i] /\ r.index = 0
      BY <1>1, <2>1 DEF Thread, Places
    <3>2. th' = [th EXCEPT ![t] = r]
      BY <1>1, <2>2 DEF Thread
    <3>. HIDE DEF r
    <3>. QED  BY <1>1, <3>1, <3>2, Stepping
  <2>4. Fits(t, closing, "enter", o, bids[i], 0) /\ GoesOn(t, "enter", o)
    BY <1>1, <2>1, ThreadsAreTwo DEF Fits, GoesOn, InsertPlaces, MatchPlaces, CancelPlaces
  <2>. QED  BY <1>1, <1>2, <2>2, <2>3, <2>4, Walking DEF bookVars
<1>5. CASE ~(i > Len(bids)) /\ limit[bids[i]] # limit[o]
  <2>2. /\ th' = [th EXCEPT ![t] = [@ EXCEPT !.index = i + 1]]
        /\ answer' = answer
    BY <1>5 DEF Seek
  <2>3. Moved(t, "seek", o, th[t].level, i + 1)
    BY <1>1, <2>2 DEF Moved, Thread, Places
  <2>4. Fits(t, closing, "seek", o, th[t].level, i + 1) /\ GoesOn(t, "seek", o)
    BY <1>1, ThreadsAreTwo DEF Fits, GoesOn, InsertPlaces, MatchPlaces, CancelPlaces
  <2>. QED  BY <1>1, <1>2, <2>2, <2>3, <2>4, Walking DEF bookVars
<1>. QED  BY <1>3, <1>4, <1>5

\* remove_order makes its iterator.
LEMMA EnterKeeps ==
  ASSUME Inv, NEW t \in Threads, Enter(t)
  PROVE  Inv'
<1>1. /\ th[t].at = "enter" /\ th \in [Threads -> Thread] /\ ElseTyped
      /\ Fits(t, closing, "enter", th[t].order, th[t].level, th[t].index)
      /\ UNCHANGED <<bookVars, ctlVars>>
  BY Placed DEF Enter, At
<1>2. ElseTyped'
  BY <1>1 DEF ElseTyped, bookVars, ctlVars
<1>3. Moved(t, "search", th[t].order, th[t].level, th[t].index)
  <2>. DEFINE r == [th[t] EXCEPT !.at = "search", !.fresh = TRUE]
  <2>1. /\ r \in Thread /\ r.at = "search" /\ r.order = th[t].order
        /\ r.level = th[t].level /\ r.index = th[t].index
    BY <1>1 DEF Thread, Places
  <2>2. th' = [th EXCEPT ![t] = r]
    BY <1>1 DEF Enter, Thread
  <2>. HIDE DEF r
  <2>. QED  BY <1>1, <2>1, <2>2, Stepping
<1>4. /\ Fits(t, closing, "search", th[t].order, th[t].level, th[t].index)
      /\ GoesOn(t, "search", th[t].order)
  BY <1>1, ThreadsAreTwo DEF Fits, GoesOn, InsertPlaces, MatchPlaces, CancelPlaces
<1>. QED  BY <1>1, <1>2, <1>3, <1>4, Walking DEF bookVars, ctlVars

\* The look at the level's queue.
LEMMA CheckEmptyKeeps ==
  ASSUME Inv, NEW t \in Threads, CheckEmpty(t)
  PROVE  Inv'
<1>. DEFINE o == th[t].order
            l == th[t].level
<1>1. /\ th[t].at = "check" /\ th \in [Threads -> Thread] /\ ElseTyped
      /\ Fits(t, closing, "check", o, l, th[t].index)
      /\ UNCHANGED <<bookVars, incoming, toClose, closing, submitted, raised, raced>>
  BY Placed DEF CheckEmpty, At
<1>2. ElseTyped'
  BY <1>1 DEF ElseTyped, bookVars
<1>3. Unqueued(o) /\ (t = M => closing)
  BY <1>1, ThreadsAreTwo DEF Fits
<1>4. CASE queue[l] = <<>>
  <2>1. /\ th' = [th EXCEPT ![t].at = "drop", ![t].index = 1]
        /\ answer' = answer
    BY <1>4 DEF CheckEmpty
  <2>2. Moved(t, "drop", o, l, 1)
    <3>. DEFINE r == [th[t] EXCEPT !.at = "drop", !.index = 1]
    <3>1. /\ r \in Thread /\ r.at = "drop" /\ r.order = o
          /\ r.level = l /\ r.index = 1
      BY <1>1 DEF Thread, Places
    <3>2. th' = [th EXCEPT ![t] = r]
      BY <1>1, <2>1 DEF Thread
    <3>. HIDE DEF r
    <3>. QED  BY <1>1, <3>1, <3>2, Stepping
  <2>3. Fits(t, closing, "drop", o, l, 1) /\ GoesOn(t, "drop", o)
    BY <1>1, ThreadsAreTwo DEF Fits, GoesOn, InsertPlaces, MatchPlaces, CancelPlaces
  <2>. QED  BY <1>1, <1>2, <2>1, <2>2, <2>3, Walking DEF bookVars
<1>5. CASE queue[l] # <<>>
  <2>1. Finish(t, "confirmed")
    BY <1>5 DEF CheckEmpty
  <2>. QED  BY <1>1, <1>2, <1>3, <2>1, FinishingKeepsInv, ThreadsAreTwo DEF bookVars, Answers
<1>. QED  BY <1>4, <1>5

\* order_list.remove(level).
LEMMA DropKeeps ==
  ASSUME Inv, NEW t \in Threads, Drop(t)
  PROVE  Inv'
<1>. DEFINE o == th[t].order
            l == th[t].level
            i == th[t].index
<1>1. /\ th[t].at = "drop" /\ th \in [Threads -> Thread] /\ ElseTyped
      /\ Fits(t, closing, "drop", o, l, i) /\ i \in Nat
      /\ UNCHANGED <<limit, remaining, queue, total, mapped, ids, toClose, closing,
                     submitted, raced>>
  BY Placed DEF Drop, At, Thread
<1>2. Unqueued(o) /\ (t = M => closing) /\ i >= 1
  BY <1>1, ThreadsAreTwo DEF Fits
<1>3. CASE i > Len(bids)
  <2>1. Raise(t, "ValueError") /\ bids' = bids
    BY <1>3 DEF Drop
  <2>. QED  BY <1>1, <2>1, RaisingKeepsInv, ThreadsAreTwo
<1>4. CASE ~(i > Len(bids)) /\ Equal(bids[i], l)
  <2>1. bids' = RemoveAt(bids, i) /\ Finish(t, "confirmed") /\ UNCHANGED <<incoming, raised>>
    BY <1>4 DEF Drop
  <2>2. bids' \in Seq(Orders)
    BY <2>1, <1>1, <1>2, <1>4, RemoveFromQueue, LenProperties DEF ElseTyped
  <2>3. ElseTyped'
    BY <1>1, <2>1, <2>2 DEF ElseTyped
  <2>. QED  BY <1>1, <1>2, <2>1, <2>3, FinishingKeepsInv, ThreadsAreTwo DEF Answers
<1>5. CASE ~(i > Len(bids)) /\ ~Equal(bids[i], l)
  <2>1. /\ th' = [th EXCEPT ![t].index = i + 1]
        /\ UNCHANGED <<incoming, raised, bids, answer>>
    BY <1>5 DEF Drop
  <2>2. Moved(t, "drop", o, l, i + 1)
    BY <1>1, <2>1 DEF Moved, Thread, Places
  <2>3. Fits(t, closing, "drop", o, l, i + 1) /\ GoesOn(t, "drop", o)
    BY <1>1, <1>2, ThreadsAreTwo DEF Fits, GoesOn, InsertPlaces, MatchPlaces, CancelPlaces
  <2>4. ElseTyped'
    BY <1>1, <2>1 DEF ElseTyped
  <2>. QED  BY <1>1, <2>1, <2>2, <2>3, <2>4, Walking
<1>. QED  BY <1>3, <1>4, <1>5

-----------------------------------------------------------------------------
(* The matching thread looks for places in the side. *)

\* The loop over the levels in _insert_order.
LEMMA PlaceKeeps ==
  ASSUME Inv, Place
  PROVE  Inv'
<1>. DEFINE o == th[M].order
            i == th[M].index
<1>1. /\ th[M].at = "place" /\ th \in [Threads -> Thread] /\ ElseTyped
      /\ Fits(M, closing, "place", o, th[M].level, i) /\ i \in Nat /\ M \in Threads
      /\ UNCHANGED <<bookVars, ctlVars>>
  BY Placed, ThreadsAreTwo DEF Place, At, Thread
<1>2. ElseTyped' /\ UNCHANGED <<limit, queue, mapped, ids, answer, closing>>
  BY <1>1 DEF ElseTyped, bookVars, ctlVars
<1>3. i >= 1 /\ GoesOn(M, "position", o) /\ GoesOn(M, "append", o) /\ GoesOn(M, "place", o)
  BY <1>1 DEF Fits, GoesOn, InsertPlaces
<1>4. CASE i > Len(bids)
  <2>1. Moved(M, "position", o, th[M].level, 0)
    <3>. DEFINE r == [th[M] EXCEPT !.at = "position", !.index = 0]
    <3>1. /\ r \in Thread /\ r.at = "position" /\ r.order = o
          /\ r.level = th[M].level /\ r.index = 0
      BY <1>1 DEF Thread, Places
    <3>2. th' = [th EXCEPT ![M] = r]
      BY <1>1, <1>4 DEF Place, Thread
    <3>. HIDE DEF r
    <3>. QED  BY <1>1, <3>1, <3>2, Stepping
  <2>2. Fits(M, closing, "position", o, th[M].level, 0)
    BY <1>1, ThreadsAreTwo DEF Fits, InsertPlaces, MatchPlaces, CancelPlaces
  <2>. QED  BY <1>1, <1>2, <1>3, <2>1, <2>2, Walking
<1>5. CASE ~(i > Len(bids)) /\ limit[bids[i]] = limit[o]
  <2>1. bids[i] \in Orders
    BY <1>1, <1>3, <1>5, ElementOfSeq, LenProperties DEF ElseTyped
  <2>2. Moved(M, "append", o, bids[i], 0)
    <3>. DEFINE r == [th[M] EXCEPT !.at = "append", !.level = bids[i], !.index = 0]
    <3>1. /\ r \in Thread /\ r.at = "append" /\ r.order = o
          /\ r.level = bids[i] /\ r.index = 0
      BY <1>1, <2>1 DEF Thread, Places
    <3>2. th' = [th EXCEPT ![M] = r]
      BY <1>1, <1>5 DEF Place, Thread
    <3>. HIDE DEF r
    <3>. QED  BY <1>1, <3>1, <3>2, Stepping
  <2>3. Fits(M, closing, "append", o, bids[i], 0)
    BY <1>1, <2>1, ThreadsAreTwo DEF Fits, InsertPlaces, MatchPlaces, CancelPlaces
  <2>. QED  BY <1>1, <1>2, <1>3, <2>2, <2>3, Walking
<1>6. CASE ~(i > Len(bids)) /\ limit[bids[i]] # limit[o]
  <2>1. Moved(M, "place", o, th[M].level, i + 1)
    BY <1>1, <1>6 DEF Place, Moved, Thread, Places
  <2>2. Fits(M, closing, "place", o, th[M].level, i + 1)
    BY <1>1, <1>3, ThreadsAreTwo DEF Fits, InsertPlaces, MatchPlaces, CancelPlaces
  <2>. QED  BY <1>1, <1>2, <1>3, <2>1, <2>2, Walking
<1>. QED  BY <1>4, <1>5, <1>6

\* bisect_left.
LEMMA PositionKeeps ==
  ASSUME Inv, Position
  PROVE  Inv'
<1>. DEFINE o == th[M].order
<1>1. /\ th[M].at = "position" /\ th \in [Threads -> Thread] /\ ElseTyped
      /\ Fits(M, closing, "position", o, th[M].level, th[M].index) /\ M \in Threads
      /\ UNCHANGED <<bookVars, ctlVars>>
  BY Placed, ThreadsAreTwo DEF Position, At
<1>2. ElseTyped' /\ UNCHANGED <<limit, queue, mapped, ids, answer, closing>>
  BY <1>1 DEF ElseTyped, bookVars, ctlVars
<1>3. PICK k \in 1..Len(bids) + 1 :
        th' = [th EXCEPT ![M].at = "insert", ![M].index = k]
  BY DEF Position
<1>4. k \in Nat /\ k >= 1
  BY <1>1, LenProperties DEF ElseTyped
<1>5. Moved(M, "insert", o, th[M].level, k)
  <2>. DEFINE r == [th[M] EXCEPT !.at = "insert", !.index = k]
  <2>1. /\ r \in Thread /\ r.at = "insert" /\ r.order = o
        /\ r.level = th[M].level /\ r.index = k
    BY <1>1, <1>4 DEF Thread, Places
  <2>2. th' = [th EXCEPT ![M] = r]
    BY <1>1, <1>3 DEF Thread
  <2>. HIDE DEF r
  <2>. QED  BY <1>1, <2>1, <2>2, Stepping
<1>6. Fits(M, closing, "insert", o, th[M].level, k) /\ GoesOn(M, "insert", o)
  BY <1>1, <1>4, ThreadsAreTwo DEF Fits, GoesOn, InsertPlaces, MatchPlaces, CancelPlaces
<1>. QED  BY <1>1, <1>2, <1>5, <1>6, Walking

\* A level of its own for the order.
LEMMA InsertLevelKeeps ==
  ASSUME Inv, InsertLevel
  PROVE  Inv'
<1>. DEFINE o == th[M].order
            k == th[M].index
<1>1. /\ th[M].at = "insert" /\ th \in [Threads -> Thread] /\ ElseTyped
      /\ Fits(M, closing, "insert", o, th[M].level, k) /\ M \in Threads
      /\ o \in Orders /\ k \in Nat /\ k >= 1 /\ bids \in Seq(Orders)
      /\ UNCHANGED <<limit, remaining, queue, total, mapped, ids, ctlVars>>
  BY Placed, ThreadsAreTwo DEF InsertLevel, At, Fits, InsertPlaces, Thread, ElseTyped
<1>2. bids' \in Seq(Orders)
  <2>1. CASE k > Len(bids)
    BY <1>1, <2>1, AppendProperties DEF InsertLevel
  <2>2. CASE ~(k > Len(bids))
    <3>1. bids' = InsertAt(bids, k, o) /\ k \in 1..Len(bids)
      BY <1>1, <2>2, LenProperties DEF InsertLevel
    <3>. QED  BY <1>1, <3>1, InsertIntoQueue
  <2>. QED  BY <2>1, <2>2
<1>3. ElseTyped' /\ UNCHANGED <<answer, closing>>
  BY <1>1, <1>2 DEF ElseTyped, ctlVars
<1>4. Moved(M, "append", o, o, 0)
  BY <1>1 DEF InsertLevel, Moved, Thread, Places
<1>5. Fits(M, closing, "append", o, o, 0) /\ GoesOn(M, "append", o)
  BY <1>1, ThreadsAreTwo DEF Fits, GoesOn, InsertPlaces, MatchPlaces, CancelPlaces
<1>. QED  BY <1>1, <1>3, <1>4, <1>5, Walking

-----------------------------------------------------------------------------
(* The loop of _match_order. *)

\* The head of the matching loop.
LEMMA LoopKeeps ==
  ASSUME Inv, Loop
  PROVE  Inv'
<1>1. /\ th[M].at = "match" /\ th \in [Threads -> Thread] /\ ElseTyped
      /\ M \in Threads /\ ~closing
      /\ UNCHANGED <<bookVars, toClose, closing, answer, submitted, raised, raced>>
  BY Placed, ThreadsAreTwo DEF Loop, At, Fits, MatchPlaces
<1>2. CASE incoming.left = 0 \/ bids = <<>> \/ limit[bids[1]] < incoming.price
  <2>1. th' = [th EXCEPT ![M] = Idle] /\ incoming' = NoSell
    BY <1>2 DEF Loop
  <2>2. ElseTyped'
    BY <1>1, <2>1 DEF ElseTyped, bookVars, NoSell
  <2>3. Moved(M, "idle", None, None, 0)
    BY <1>1, <2>1 DEF Moved, Thread, Places, Idle
  <2>4. Fits(M, closing, "idle", None, None, 0) /\ GoesOn(M, "idle", None)
    BY <1>1, ThreadsAreTwo DEF Fits, GoesOn, InsertPlaces, MatchPlaces, CancelPlaces
  <2>. QED  BY <1>1, <2>2, <2>3, <2>4, Walking DEF bookVars
<1>3. CASE ~(incoming.left = 0 \/ bids = <<>> \/ limit[bids[1]] < incoming.price)
  <2>1. /\ th' = [th EXCEPT ![M] = [Idle EXCEPT !.at = "pick", !.level = bids[1]]]
        /\ incoming' = incoming
    BY <1>3 DEF Loop
  <2>2. ElseTyped'
    BY <1>1, <2>1 DEF ElseTyped, bookVars
  <2>3. bids[1] \in Orders
    BY <1>1, <1>3, ElementOfSeq, LenProperties, EmptySeq DEF ElseTyped
  <2>4. Moved(M, "pick", None, bids[1], 0)
    BY <1>1, <2>1, <2>3 DEF Moved, Thread, Places, Idle
  <2>5. Fits(M, closing, "pick", None, bids[1], 0) /\ GoesOn(M, "pick", None)
    BY <1>1, <2>3, ThreadsAreTwo DEF Fits, GoesOn, InsertPlaces, MatchPlaces, CancelPlaces
  <2>. QED  BY <1>1, <2>1, <2>2, <2>4, <2>5, Walking DEF bookVars
<1>. QED  BY <1>2, <1>3

\* An order that is picked is in no other queue.
LEMMA PickKeeps ==
  ASSUME Inv, Pick
  PROVE  Inv'
<1>. DEFINE l == th[M].level
<1>1. /\ th[M].at = "pick" /\ th \in [Threads -> Thread] /\ ElseTyped
      /\ M \in Threads /\ ~closing /\ l \in Orders /\ queue[l] \in Seq(Orders)
      /\ th[M].index \in Nat
      /\ UNCHANGED <<bookVars, toClose, closing, submitted, raced>>
  BY Placed, ThreadsAreTwo DEF Pick, At, Fits, MatchPlaces, ElseTyped, Thread
<1>2. CASE queue[l] = <<>>
  <2>1. Raise(M, "IndexError")
    BY <1>2 DEF Pick
  <2>. QED  BY <1>1, <2>1, RaisingKeepsInv, ThreadsAreTwo DEF bookVars
<1>3. CASE queue[l] # <<>>
  <2>. DEFINE o == Head(queue[l])
  <2>1. /\ th' = [th EXCEPT ![M].at = "fill", ![M].order = o]
        /\ UNCHANGED <<incoming, answer, raised>>
    BY <1>3 DEF Pick
  <2>2. ElseTyped'
    BY <1>1, <2>1 DEF ElseTyped, bookVars
  <2>3. o \in Range(queue[l]) /\ o \in Orders
    BY <1>1, <1>3, TailOfQueue, HeadTailProperties
  <2>4. Moved(M, "fill", o, l, th[M].index)
    <3>. DEFINE r == [th[M] EXCEPT !.at = "fill", !.order = o]
    <3>1. /\ r \in Thread /\ r.at = "fill" /\ r.order = o
          /\ r.level = l /\ r.index = th[M].index
      BY <1>1, <2>3 DEF Thread, Places
    <3>2. th' = [th EXCEPT ![M] = r]
      BY <1>1, <2>1 DEF Thread
    <3>. HIDE DEF r
    <3>. QED  BY <1>1, <3>1, <3>2, Stepping
  <2>5. \A k \in Orders \ {l} : o \notin Range(queue[k])
    BY <1>1, <2>3 DEF Inv, QueuedOnce
  <2>6. Fits(M, closing, "fill", o, l, th[M].index) /\ GoesOn(M, "fill", o)
    BY <1>1, <2>3, <2>5, ThreadsAreTwo DEF Fits, GoesOn, InsertPlaces, MatchPlaces, CancelPlaces
  <2>. QED  BY <1>1, <2>1, <2>2, <2>4, <2>6, Walking DEF bookVars
<1>. QED  BY <1>2, <1>3

\* A trade: quantities change, queues and tables do not.
LEMMA FillKeeps ==
  ASSUME Inv, Fill
  PROVE  Inv'
<1>. DEFINE l == th[M].level
            m == th[M].order
<1>1. /\ th[M].at = "fill" /\ th \in [Threads -> Thread] /\ ElseTyped
      /\ M \in Threads /\ ~closing /\ l \in Orders /\ m \in Orders
      /\ \A k \in Orders \ {l} : m \notin Range(queue[k])
      /\ incoming.left \in Nat /\ remaining[m] \in Nat /\ total[l] \in Int
      /\ UNCHANGED <<limit, bids, queue, mapped, ids, toClose, closing, submitted, raced>>
  BY Placed, ThreadsAreTwo DEF Fill, At, Fits, MatchPlaces, ElseTyped
<1>2. PICK q : q = FillQuantity(m)
  OBVIOUS
<1>3. q \in Nat /\ q <= incoming.left /\ q <= remaining[m]
  <2>1. \A x, y \in Nat : Min({x, y}) \in Nat /\ Min({x, y}) <= x /\ Min({x, y}) <= y
    BY SMT DEF Min
  <2>. QED  BY <1>1, <1>2, <2>1 DEF FillQuantity
<1>4. CASE q > 0
  <2>1. /\ remaining' = [remaining EXCEPT ![m] = @ - q]
        /\ incoming' = [incoming EXCEPT !.left = @ - q]
        /\ total' = [total EXCEPT ![l] = @ - q]
        /\ th' = IF remaining[m] = q THEN Goes(M, "enter")
                 ELSE [th EXCEPT ![M] = [Idle EXCEPT !.at = "match"]]
        /\ UNCHANGED <<answer, raised>>
    BY <1>2, <1>4 DEF Fill
  <2>2. ElseTyped'
    <3>1. remaining' \in [Orders -> Nat]
      <4>1. remaining[m] - q \in Nat /\ remaining \in [Orders -> Nat]
        BY <1>1, <1>3 DEF ElseTyped
      <4>2. remaining' = [remaining EXCEPT ![m] = remaining[m] - q]
        BY <2>1
      <4>. HIDE DEF m
      <4>. QED  BY <4>1, <4>2
    <3>2. total' \in [Orders -> Int]
      <4>1. total[l] - q \in Int /\ total \in [Orders -> Int]
        BY <1>1, <1>3 DEF ElseTyped
      <4>2. total' = [total EXCEPT ![l] = total[l] - q]
        BY <2>1
      <4>. HIDE DEF l
      <4>. QED  BY <4>1, <4>2
    <3>3. incoming' \in [left : Nat, price : Prices \cup {0}]
      <4>1. incoming.left - q \in Nat
        BY <1>1, <1>3
      <4>. QED  BY <4>1, <1>1, <2>1 DEF ElseTyped
    <3>. QED  BY <1>1, <2>1, <3>1, <3>2, <3>3 DEF ElseTyped
  <2>3. CASE remaining[m] = q
    <3>1. Moved(M, "enter", m, l, th[M].index)
      BY <1>1, <2>1, <2>3, Going DEF Places
    <3>2. Fits(M, closing, "enter", m, l, th[M].index) /\ GoesOn(M, "enter", m)
      BY <1>1, ThreadsAreTwo DEF Fits, GoesOn, InsertPlaces, MatchPlaces, CancelPlaces
    <3>. QED  BY <1>1, <2>1, <2>2, <3>1, <3>2, Walking
  <2>4. CASE remaining[m] # q
    <3>1. Moved(M, "match", None, None, 0)
      BY <1>1, <2>1, <2>4 DEF Moved, Thread, Places, Idle, None
    <3>2. Fits(M, closing, "match", None, None, 0) /\ GoesOn(M, "match", None)
      BY <1>1, ThreadsAreTwo DEF Fits, GoesOn, InsertPlaces, MatchPlaces, CancelPlaces
    <3>. QED  BY <1>1, <2>1, <2>2, <3>1, <3>2, Walking
  <2>. QED  BY <2>3, <2>4
<1>5. CASE ~(q > 0)
  <2>1. Raise(M, "ValueError") /\ UNCHANGED <<remaining, total>>
    BY <1>2, <1>5 DEF Fill
  <2>. QED  BY <1>1, <2>1, RaisingKeepsInv, ThreadsAreTwo
<1>. QED  BY <1>4, <1>5

\* The level that was empty is dropped, or whatever is first by now.
LEMMA PopKeeps ==
  ASSUME Inv, Pop
  PROVE  Inv'
<1>1. /\ th[M].at = "pop" /\ th \in [Threads -> Thread] /\ ElseTyped
      /\ M \in Threads /\ ~closing
      /\ UNCHANGED <<limit, remaining, queue, total, mapped, ids, toClose, closing,
                     submitted, raced>>
  BY Placed, ThreadsAreTwo DEF Pop, At, Fits, MatchPlaces
<1>2. CASE bids = <<>>
  <2>1. Raise(M, "IndexError") /\ bids' = bids
    BY <1>2 DEF Pop
  <2>. QED  BY <1>1, <2>1, RaisingKeepsInv, ThreadsAreTwo
<1>3. CASE bids # <<>>
  <2>1. /\ bids' = Tail(bids) /\ UNCHANGED <<incoming, answer, raised>>
        /\ th' = [th EXCEPT ![M] = [Idle EXCEPT !.at = "match"]]
    BY <1>3 DEF Pop
  <2>2. ElseTyped'
    <3>1. bids' \in Seq(Orders)
      BY <1>1, <1>3, <2>1, HeadTailProperties DEF ElseTyped
    <3>. QED  BY <1>1, <2>1, <3>1 DEF ElseTyped
  <2>3. Moved(M, "match", None, None, 0)
    BY <1>1, <2>1 DEF Moved, Thread, Places, Idle, None
  <2>4. Fits(M, closing, "match", None, None, 0) /\ GoesOn(M, "match", None)
    BY <1>1, ThreadsAreTwo DEF Fits, GoesOn, InsertPlaces, MatchPlaces, CancelPlaces
  <2>. QED  BY <1>1, <2>1, <2>2, <2>3, <2>4, Walking
<1>. QED  BY <1>2, <1>3

-----------------------------------------------------------------------------
(* Calls begin, and the close goes on. *)

\* A call begins.
LEMMA Beginning ==
  ASSUME TypeOK, NEW t \in Threads, NEW a \in Places, NEW o \in Orders \cup {None},
         Begins(t, a, o)
  PROVE  Moved(t, a, o, None, 1) /\ raced' \in BOOLEAN
BY DEF TypeOK, Begins, Moved, Thread, Idle, None

\* The validator cancels an order that is mapped, hence not being inserted.
LEMMA StartCancelKeeps ==
  ASSUME Inv, NEW o \in Orders, StartCancel(o)
  PROVE  Inv'
<1>1. /\ th[V].at = "idle" /\ th \in [Threads -> Thread] /\ ElseTyped /\ TypeOK
      /\ V \in Threads /\ limit[o] # 0 /\ answer \in [Orders -> Answers]
      /\ UNCHANGED <<bookVars, incoming, toClose, closing, submitted, raised>>
  BY Placed, ThreadsAreTwo DEF StartCancel, At, V
<1>2. CASE o \in mapped
  <2>1. Begins(V, "seek", o) /\ answer' = answer
    BY <1>2 DEF StartCancel, V
  <2>2. Moved(V, "seek", o, None, 1) /\ raced' \in BOOLEAN
    BY <1>1, <2>1, Beginning DEF Places
  <2>3. ElseTyped'
    BY <1>1, <2>2 DEF ElseTyped, bookVars
  <2>4. Fits(V, closing, "seek", o, None, 1) /\ GoesOn(V, "seek", o)
    BY <1>1, <1>2, ThreadsAreTwo DEF Fits, GoesOn, InsertPlaces, MatchPlaces, CancelPlaces
  <2>. QED  BY <1>1, <2>1, <2>2, <2>3, <2>4, Walking DEF bookVars
<1>3. CASE o \notin mapped
  <2>1. answer' = [answer EXCEPT ![o] = "not_found"] /\ UNCHANGED <<th, raced>>
    BY <1>3 DEF StartCancel
  <2>2. ElseTyped'
    BY <1>1, <2>1 DEF ElseTyped, bookVars
  <2>3. /\ answer' \in [Orders -> Answers]
        /\ \A x \in Orders : answer'[x] = "confirmed" => answer[x] = "confirmed"
    BY <1>1, <2>1 DEF Answers
  <2>4. TypeOK'
    BY <1>1, <2>1, <2>2, <2>3, Types
  <2>5. Moved(V, "idle", th[V].order, th[V].level, th[V].index)
    BY <1>1, <2>1 DEF Moved
  <2>6. /\ Fits(V, closing, "idle", th[V].order, th[V].level, th[V].index)'
        /\ GoesOn(V, "idle", th[V].order)
    BY <1>1, ThreadsAreTwo DEF Fits, GoesOn, InsertPlaces, MatchPlaces, CancelPlaces
  <2>. QED  BY <1>1, <2>1, <2>3, <2>4, <2>5, <2>6, Moving DEF bookVars
<1>. QED  BY <1>2, <1>3

\* A sell order comes.
LEMMA StartMatchKeeps ==
  ASSUME Inv, NEW p \in Prices, NEW q \in SellQuantities, StartMatch(p, q)
  PROVE  Inv'
<1>1. /\ th[M].at = "idle" /\ th \in [Threads -> Thread] /\ ElseTyped /\ TypeOK
      /\ M \in Threads /\ ~closing /\ Begins(M, "match", None)
      /\ UNCHANGED <<bookVars, toClose, closing, answer, raised>>
  BY Placed, ThreadsAreTwo DEF StartMatch, At, Fits
<1>2. Moved(M, "match", None, None, 1) /\ raced' \in BOOLEAN
  BY <1>1, Beginning DEF Places
<1>3. /\ submitted' \in [sells : 0..MaxIncoming, closes : 0..MaxCloses]
      /\ incoming' \in [left : Nat, price : Prices \cup {0}]
  <2>1. /\ submitted \in [sells : 0..MaxIncoming, closes : 0..MaxCloses]
        /\ submitted.sells < MaxIncoming
        /\ submitted' = [submitted EXCEPT !.sells = @ + 1]
        /\ incoming' = [left |-> q, price |-> p]
    BY <1>1 DEF StartMatch, ElseTyped
  <2>2. submitted.sells + 1 \in 0..MaxIncoming
    BY <2>1
  <2>. QED  BY <2>1, <2>2
<1>4. ElseTyped'
  BY <1>1, <1>2, <1>3 DEF ElseTyped, bookVars
<1>5. Fits(M, closing, "match", None, None, 1) /\ GoesOn(M, "match", None)
  BY <1>1, ThreadsAreTwo DEF Fits, GoesOn, InsertPlaces, MatchPlaces, CancelPlaces
<1>. QED  BY <1>1, <1>2, <1>4, <1>5, Walking DEF bookVars

\* The market closes.
LEMMA StartCloseKeeps ==
  ASSUME Inv, StartClose
  PROVE  Inv'
<1>1. /\ th[M].at = "idle" /\ th \in [Threads -> Thread] /\ ElseTyped /\ TypeOK
      /\ M \in Threads /\ Begins(M, "collect", None) /\ closing' = TRUE
      /\ UNCHANGED <<bookVars, incoming, toClose, answer, raised>>
  BY Placed, ThreadsAreTwo DEF StartClose, At
<1>2. Moved(M, "collect", None, None, 1) /\ raced' \in BOOLEAN
  BY <1>1, Beginning DEF Places
<1>3. submitted' \in [sells : 0..MaxIncoming, closes : 0..MaxCloses]
  <2>1. /\ submitted \in [sells : 0..MaxIncoming, closes : 0..MaxCloses]
        /\ submitted.closes < MaxCloses
        /\ submitted' = [submitted EXCEPT !.closes = @ + 1]
    BY <1>1 DEF StartClose, ElseTyped
  <2>2. submitted.closes + 1 \in 0..MaxCloses
    BY <2>1
  <2>. QED  BY <2>1, <2>2
<1>4. ElseTyped'
  BY <1>1, <1>2, <1>3 DEF ElseTyped, bookVars
<1>5. TypeOK'
  BY <1>1, <1>2, <1>4, Types DEF Moved
<1>6. Fits(M, closing, "collect", None, None, 1)' /\ GoesOn(M, "collect", None)
  BY <1>1, ThreadsAreTwo DEF Fits, GoesOn, InsertPlaces, MatchPlaces, CancelPlaces
<1>. QED  BY <1>1, <1>2, <1>5, <1>6, Moving, ThreadsAreTwo DEF bookVars

\* all_orders grows by the queues of the levels.
LEMMA CollectKeeps ==
  ASSUME Inv, Collect
  PROVE  Inv'
<1>. DEFINE i == th[M].index
<1>1. /\ th[M].at = "collect" /\ th \in [Threads -> Thread] /\ ElseTyped
      /\ M \in Threads /\ closing /\ i \in Nat /\ i >= 1
      /\ th[M].order \in Orders \cup {None} /\ th[M].level \in Orders \cup {None}
      /\ UNCHANGED <<bookVars, incoming, closing, answer, submitted, raised, raced>>
  BY Placed, ThreadsAreTwo DEF Collect, At, Fits, Thread
<1>2. CASE i > Len(bids)
  <2>1. th' = [th EXCEPT ![M] = [Idle EXCEPT !.at = "close"]] /\ toClose' = toClose
    BY <1>2 DEF Collect
  <2>2. ElseTyped'
    BY <1>1, <2>1 DEF ElseTyped, bookVars
  <2>3. Moved(M, "close", None, None, 0)
    BY <1>1, <2>1 DEF Moved, Thread, Places, Idle, None
  <2>4. Fits(M, closing, "close", None, None, 0) /\ GoesOn(M, "close", None)
    BY <1>1, ThreadsAreTwo DEF Fits, GoesOn, InsertPlaces, MatchPlaces, CancelPlaces
  <2>. QED  BY <1>1, <2>2, <2>3, <2>4, Walking DEF bookVars
<1>3. CASE ~(i > Len(bids))
  <2>1. /\ toClose' = toClose \o queue[bids[i]]
        /\ th' = [th EXCEPT ![M].index = i + 1]
    BY <1>3 DEF Collect
  <2>2. bids[i] \in Orders
    BY <1>1, <1>3, ElementOfSeq, LenProperties DEF ElseTyped
  <2>3. toClose' \in Seq(Orders)
    BY <1>1, <2>1, <2>2, ConcatProperties DEF ElseTyped
  <2>4. ElseTyped'
    BY <1>1, <2>3 DEF ElseTyped, bookVars
  <2>5. Moved(M, "collect", th[M].order, th[M].level, i + 1)
    <3>. DEFINE r == [th[M] EXCEPT !.index = i + 1]
    <3>1. /\ r \in Thread /\ r.at = "collect" /\ r.order = th[M].order
          /\ r.level = th[M].level /\ r.index = i + 1
      BY <1>1 DEF Thread, Places
    <3>2. th' = [th EXCEPT ![M] = r]
      BY <1>1, <2>1 DEF Thread
    <3>. HIDE DEF r
    <3>. QED  BY <1>1, <3>1, <3>2, Stepping
  <2>6. /\ Fits(M, closing, "collect", th[M].order, th[M].level, i + 1)
        /\ GoesOn(M, "collect", th[M].order)
    BY <1>1, ThreadsAreTwo DEF Fits, GoesOn, InsertPlaces, MatchPlaces, CancelPlaces
  <2>. QED  BY <1>1, <2>4, <2>5, <2>6, Walking DEF bookVars
<1>. QED  BY <1>2, <1>3

\* The next collected order.
LEMMA CloseNextKeeps ==
  ASSUME Inv, CloseNext
  PROVE  Inv'
<1>1. /\ th[M].at = "close" /\ th \in [Threads -> Thread] /\ ElseTyped /\ TypeOK
      /\ M \in Threads /\ closing /\ toClose \in Seq(Orders)
      /\ UNCHANGED <<bookVars, incoming, answer, submitted, raised, raced>>
  BY Placed, ThreadsAreTwo DEF CloseNext, At, Fits, ElseTyped
<1>2. CASE toClose = <<>>
  <2>1. closing' = FALSE /\ th' = [th EXCEPT ![M] = Idle] /\ toClose' = toClose
    BY <1>2 DEF CloseNext
  <2>2. ElseTyped'
    BY <1>1, <2>1 DEF ElseTyped, bookVars
  <2>3. Moved(M, "idle", None, None, 0)
    BY <1>1, <2>1 DEF Moved, Thread, Places, Idle, None
  <2>4. TypeOK'
    BY <1>1, <2>2, <2>3, Types DEF Moved
  <2>5. Fits(M, closing, "idle", None, None, 0)' /\ GoesOn(M, "idle", None)
    BY <1>1, <2>1, ThreadsAreTwo DEF Fits, GoesOn, InsertPlaces, MatchPlaces, CancelPlaces
  <2>. QED  BY <1>1, <2>3, <2>4, <2>5, Moving, ThreadsAreTwo DEF bookVars
<1>3. CASE toClose # <<>>
  <2>. DEFINE o == Head(toClose)
  <2>1. toClose' = Tail(toClose) /\ closing' = closing
    BY <1>3 DEF CloseNext
  <2>2. o \in Orders /\ Tail(toClose) \in Seq(Orders)
    BY <1>1, <1>3, HeadTailProperties
  <2>3. ElseTyped'
    BY <1>1, <2>1, <2>2 DEF ElseTyped, bookVars
  <2>4. CASE o \in mapped
    <3>1. th' = [th EXCEPT ![M] =
                   [Idle EXCEPT !.at = "seek", !.order = o, !.index = 1]]
      BY <1>3, <2>4 DEF CloseNext
    <3>2. Moved(M, "seek", o, None, 1)
      BY <1>1, <2>2, <3>1 DEF Moved, Thread, Places, Idle, None
    <3>3. Fits(M, closing, "seek", o, None, 1) /\ GoesOn(M, "seek", o)
      BY <1>1, <2>2, ThreadsAreTwo DEF Fits, GoesOn, InsertPlaces, MatchPlaces, CancelPlaces
    <3>. QED  BY <1>1, <2>1, <2>3, <3>2, <3>3, Walking DEF bookVars
  <2>5. CASE o \notin mapped
    <3>1. th' = th
      BY <1>3, <2>5 DEF CloseNext
    <3>2. Moved(M, "close", th[M].order, th[M].level, th[M].index)
      BY <1>1, <3>1 DEF Moved
    <3>3. /\ Fits(M, closing, "close", th[M].order, th[M].level, th[M].index)
          /\ GoesOn(M, "close", th[M].order)
      BY <1>1, ThreadsAreTwo DEF Fits, GoesOn, InsertPlaces, MatchPlaces, CancelPlaces
    <3>. QED  BY <1>1, <2>1, <2>3, <3>2, <3>3, Walking DEF bookVars
  <2>. QED  BY <2>4, <2>5
<1>. QED  BY <1>2, <1>3

-----------------------------------------------------------------------------
(* The steps that change queues and tables. *)

\* Threads that go on with their orders do not come to work on the same new one.
LEMMA StaysApart ==
  ASSUME Inv, NEW t \in Threads, NEW a, NEW o, NEW l, NEW i, Moved(t, a, o, l, i),
         t = M /\ a \in InsertPlaces => th[M].at \in InsertPlaces /\ th[M].order = o,
         t = V => a = "idle" \/ (th[V].at # "idle" /\ th[V].order = o)
  PROVE  Apart'
BY ThreadsAreTwo DEF Apart, Inv, Moved

\* What the validator knows of its order, another order does not change.
LEMMA ValidatorStillFits ==
  ASSUME Inv, NEW o \in Orders, th[V].at # "idle" => th[V].order # o,
         th'[V].at = th[V].at, th'[V].order = th[V].order,
         th'[V].level = th[V].level, th'[V].index = th[V].index,
         UNCHANGED limit,
         \A k \in Orders : Range(queue'[k]) \subseteq Range(queue[k]) \cup {o}
  PROVE  Fits(V, closing, th[V].at, th[V].order, th[V].level, th[V].index)'
<1>1. PICK a, x, k, j : a = th[V].at /\ x = th[V].order /\ k = th[V].level /\ j = th[V].index
  OBVIOUS
<1>2. Fits(V, closing, a, x, k, j)
  BY <1>1, ThreadsAreTwo DEF Inv, Located
<1>3. a = "idle" \/ (a \in CancelPlaces /\ x # o)
  BY <1>1, <1>2 DEF Fits
<1>4. Unqueued(x) /\ x # o => Unqueued(x)'
  BY DEF Unqueued
<1>5. Fits(V, closing, a, x, k, j)'
  BY <1>2, <1>3, <1>4, ThreadsAreTwo DEF Fits, InsertPlaces, CancelPlaces
<1>. QED  BY <1>1, <1>5

\* What is submitted is in no queue yet.
LEMMA StartInsertKeeps ==
  ASSUME Inv, NEW o \in Orders, NEW p \in Prices, NEW q \in Quantities, StartInsert(o, p, q)
  PROVE  Inv'
<1>1. /\ th[M].at = "idle" /\ th \in [Threads -> Thread] /\ ElseTyped /\ TypeOK
      /\ M \in Threads /\ ~closing /\ limit[o] = 0
      /\ limit' = [limit EXCEPT ![o] = p] /\ remaining' = [remaining EXCEPT ![o] = q]
      /\ Begins(M, "place", o) /\ p # 0
      /\ UNCHANGED <<bids, queue, total, mapped, ids, matcherOnly>>
  BY Placed, ThreadsAreTwo DEF StartInsert, At, Fits
<1>2. Moved(M, "place", o, None, 1) /\ raced' \in BOOLEAN
  BY <1>1, Beginning DEF Places
<1>3. ElseTyped'
  <2>1. limit' \in [Orders -> Prices \cup {0}] /\ remaining' \in [Orders -> Nat]
    BY <1>1 DEF ElseTyped
  <2>. QED  BY <1>1, <1>2, <2>1 DEF ElseTyped, matcherOnly
<1>4. TypeOK'
  BY <1>1, <1>2, <1>3, Types DEF Moved, matcherOnly
<1>5. \A x \in Orders : limit[x] # 0 => limit'[x] # 0
  BY <1>1 DEF ElseTyped
<1>6. limit'[o] # 0
  BY <1>1 DEF ElseTyped
<1>7. o \notin mapped /\ Unqueued(o) /\ answer[o] # "confirmed"
  BY <1>1 DEF Inv, Submitted, QueuedIsMapped, Unqueued
<1>8. Fits(M, closing, "place", o, None, 1)'
  BY <1>1, <1>6, <1>7, ThreadsAreTwo
  DEF Fits, InsertPlaces, MatchPlaces, CancelPlaces, Unqueued, matcherOnly
<1>9. Located'
  BY <1>1, <1>2, <1>5, <1>8, Losing, ThreadsAreTwo DEF matcherOnly
<1>10. /\ th'[M].at = "place" /\ th'[M].order = o
       /\ th'[V].at = th[V].at /\ th'[V].order = th[V].order
  BY <1>2, ThreadsAreTwo DEF Moved
<1>11. Apart'
  <2>1. th[V].at # "idle" => th[V].order # o
    BY <1>1, ThreadsAreTwo DEF Inv, Located, Fits
  <2>. QED  BY <2>1, <1>10 DEF Apart
<1>12. QueuedOnce' /\ QueuedIsMapped' /\ TablesAgree'
  BY <1>1, <1>10 DEF Inv, QueuedOnce, QueuedIsMapped, TablesAgree
<1>13. Submitted'
  BY <1>1, <1>5 DEF Inv, Submitted, Unqueued, ElseTyped, matcherOnly
<1>. QED  BY <1>4, <1>9, <1>11, <1>12, <1>13 DEF Inv

\* remove_order: the order that was asked for is in no queue afterwards.
LEMMA SearchKeeps ==
  ASSUME Inv, NEW t \in Threads, Search(t)
  PROVE  Inv'
<1>. DEFINE o == th[t].order
            l == th[t].level
<1>1. /\ th[t].at = "search" /\ th \in [Threads -> Thread] /\ ElseTyped /\ TypeOK
      /\ Fits(t, closing, "search", o, l, th[t].index)
      /\ o \in Orders /\ l \in Orders /\ queue[l] \in Seq(Orders)
      /\ answer \in [Orders -> Answers]
      /\ UNCHANGED <<limit, remaining, bids, mapped, ids, toClose, closing,
                    submitted, raced>>
  <2>1. /\ th[t].at = "search"
        /\ UNCHANGED <<limit, remaining, bids, mapped, ids, toClose, closing,
                       submitted, raced>>
    BY DEF Search, At
  <2>2. Fits(t, closing, "search", o, l, th[t].index)
    BY <2>1, Placed
  <2>3. o \in Orders /\ l \in Orders
    BY <2>2 DEF Fits, CancelPlaces
  <2>. QED  BY <2>1, <2>2, <2>3, Placed DEF ElseTyped
<1>2. /\ t = M /\ ~closing => \A k \in Orders \ {l} : o \notin Range(queue[k])
      /\ Cancelling(t) => t = V \/ closing
      /\ ~Cancelling(t) => t = M /\ ~closing
  BY <1>1, ThreadsAreTwo DEF Fits, Cancelling, V
<1>3. CASE ~th[t].fresh
  <2>1. Raise(t, "RuntimeError") /\ UNCHANGED <<queue, total>>
    BY <1>3 DEF Search
  <2>. QED  BY <1>1, <2>1, RaisingKeepsInv, ThreadsAreTwo
<1>4. CASE th[t].fresh /\ o \in Range(queue[l])
  <2>. DEFINE a == IF Cancelling(t) THEN "forget" ELSE "unlist"
  <2>1. /\ queue' = [queue EXCEPT ![l] = RemoveFirst(queue[l], o)]
        /\ total' = [total EXCEPT ![l] = total[l] - remaining[o]]
        /\ th' = Mutated(t, l, Goes(t, a))
        /\ UNCHANGED <<answer, incoming, raised>>
    BY <1>4 DEF Search, Without
  <2>4. /\ queue' \in [Orders -> Seq(Orders)]
        /\ \A k \in Orders : IsInjective(queue'[k])
        /\ \A k \in Orders : Range(queue'[k]) = Range(queue[k]) \ {o}
    <3>1. QueuedOnce /\ queue \in [Orders -> Seq(Orders)]
      BY <1>1 DEF Inv, ElseTyped
    <3>. QED  BY <1>1, <1>4, <2>1, <3>1, TakenOut DEF Without
  <2>5. ElseTyped'
    <3>1. total' \in [Orders -> Int]
      <4>1. total \in [Orders -> Int] /\ remaining[o] \in Nat
        BY <1>1 DEF ElseTyped
      <4>2. l \in Orders
        BY <1>1
      <4>. HIDE DEF l, o
      <4>3. total[l] - remaining[o] \in Int
        BY <4>1, <4>2
      <4>. QED  BY <4>1, <4>2, <4>3, <2>1
    <3>. QED  BY <1>1, <2>1, <2>4, <3>1 DEF ElseTyped
  <2>6. Moved(t, a, o, l, th[t].index)
    <3>1. a \in Places
      BY DEF Places
    <3>. HIDE DEF a
    <3>. QED  BY <1>1, <2>1, <3>1, GoingAndMutating
  <2>7. TypeOK'
    BY <1>1, <2>1, <2>5, <2>6, Types DEF Moved
  <2>10. PICK b, x, k, j : b = a /\ x = o /\ k = l /\ j = th[t].index
    OBVIOUS
  <2>11. Unqueued(x)'
    BY <2>4, <2>10 DEF Unqueued
  <2>12. Fits(t, closing, b, x, k, j)'
    BY <1>1, <1>2, <2>1, <2>10, <2>11, ThreadsAreTwo
    DEF Fits, InsertPlaces, MatchPlaces, CancelPlaces
  <2>13. Moved(t, b, x, k, j)
    BY <2>6, <2>10
  <2>14. Located'
    BY <1>1, <2>1, <2>4, <2>12, <2>13, Losing
  <2>15. b \notin {"idle", "index", "unmap"} \cup InsertPlaces
    BY <2>10 DEF InsertPlaces
  <2>16. Apart'
    BY <1>1, <2>10, <2>13, <2>15, StaysApart
  <2>17. QueuedOnce'
    BY <2>4 DEF Inv, QueuedOnce
  <2>18. QueuedIsMapped' /\ TablesAgree'
    <3>1. t = V => th'[M].at = th[M].at /\ th'[M].order = th[M].order
      BY <2>13, ThreadsAreTwo DEF Moved
    <3>2. t = M => th[M].at = "search" /\ th'[M].at # "unmap"
      BY <1>1, <2>13, <2>15 DEF Moved
    <3>. QED  BY <1>1, <2>4, <3>1, <3>2, ThreadsAreTwo DEF Inv, QueuedIsMapped, TablesAgree
  <2>19. Submitted'
    BY <1>1, <2>1, <2>4 DEF Inv, Submitted, Unqueued
  <2>. QED  BY <2>7, <2>14, <2>16, <2>17, <2>18, <2>19 DEF Inv
<1>5. CASE th[t].fresh /\ o \notin Range(queue[l])
  <2>1. UNCHANGED <<incoming, raised, queue, total>>
    BY <1>5 DEF Search
  <2>2. ElseTyped'
    BY <1>1, <2>1 DEF ElseTyped
  <2>3. CASE Cancelling(t)
    <3>1. Finish(t, "not_found")
      BY <1>5, <2>3 DEF Search
    <3>. QED  BY <1>1, <1>2, <2>1, <2>2, <2>3, <3>1, FinishingKeepsInv, ThreadsAreTwo DEF Answers
  <2>4. CASE ~Cancelling(t)
    <3>1. th' = Goes(t, "unlist") /\ answer' = answer
      BY <1>5, <2>4 DEF Search
    <3>2. Moved(t, "unlist", o, l, th[t].index)
      BY <1>1, <3>1, Going DEF Places
    <3>3. Unqueued(o)
      BY <1>2, <1>5, <2>4 DEF Unqueued
    <3>4. Fits(t, closing, "unlist", o, l, th[t].index) /\ GoesOn(t, "unlist", o)
      BY <1>1, <1>2, <2>4, <3>3, ThreadsAreTwo
      DEF Fits, GoesOn, InsertPlaces, MatchPlaces, CancelPlaces
    <3>. QED  BY <1>1, <2>1, <2>2, <3>1, <3>2, <3>4, Walking
  <2>. QED  BY <2>3, <2>4
<1>. QED  BY <1>3, <1>4, <1>5

\* cancel_order deletes the order from both tables, or raises when the matching
\* thread has deleted it already.
LEMMA ForgetKeeps ==
  ASSUME Inv, NEW t \in Threads, Forget(t)
  PROVE  Inv'
<1>1. PICK o, l, i : o = th[t].order /\ l = th[t].level /\ i = th[t].index
  OBVIOUS
<1>2. /\ th[t].at = "forget" /\ th \in [Threads -> Thread] /\ ElseTyped /\ TypeOK
      /\ Fits(t, closing, "forget", o, l, i) /\ o \in Orders /\ Unqueued(o)
      /\ answer \in [Orders -> Answers]
  BY <1>1, Placed DEF Forget, At, Fits, CancelPlaces
<1>3. UNCHANGED <<limit, remaining, bids, queue, total, toClose, closing, submitted, raced>>
  BY DEF Forget
<1>4. mapped' = mapped \ {o} /\ ids' = ids \ {o}
  <2>1. o \notin mapped => o \notin ids
    BY DEF Inv, TablesAgree
  <2>. QED  BY <1>1, <2>1 DEF Forget
<1>5. PICK a, x, k, j :
        /\ Moved(t, a, x, k, j) /\ Fits(t, closing, a, x, k, j)
        /\ \/ a = "check" /\ x = o
           \/ a = "idle" \/ (a = "dead" /\ t = M)
        /\ answer' \in [Orders -> Answers] /\ raised' \in BOOLEAN
        /\ incoming' \in [left : Nat, price : Prices \cup {0}]
        /\ \A y \in Orders : answer'[y] = "confirmed" => answer[y] = "confirmed"
  <2>1. CASE o \in mapped /\ o \in ids
    <3>1. th' = Goes(t, "check") /\ UNCHANGED <<answer, raised, incoming>>
      BY <1>1, <2>1 DEF Forget
    <3>2. Moved(t, "check", o, l, i)
      BY <1>1, <1>2, <3>1, Going DEF Places
    <3>3. Fits(t, closing, "check", o, l, i)
      BY <1>2, ThreadsAreTwo DEF Fits, InsertPlaces, MatchPlaces, CancelPlaces
    <3>. QED  BY <1>2, <3>1, <3>2, <3>3 DEF ElseTyped
  <2>2. CASE ~(o \in mapped /\ o \in ids)
    <3>1. Raise(t, "KeyError")
      BY <1>1, <2>2 DEF Forget
    <3>2. PICK a : a = IF t = M /\ closing THEN "dead" ELSE "idle"
      OBVIOUS
    <3>3. Moved(t, a, None, None, 0)
      BY <1>2, <3>1, <3>2, Raising
    <3>4. Fits(t, closing, a, None, None, 0) /\ (a = "idle" \/ (a = "dead" /\ t = M))
      BY <1>2, <3>2, ThreadsAreTwo
      DEF Fits, InsertPlaces, MatchPlaces, CancelPlaces, ElseTyped
    <3>. QED  BY <1>2, <3>1, <3>3, <3>4, Raising
  <2>. QED  BY <2>1, <2>2
<1>6. ElseTyped'
  BY <1>2, <1>3, <1>4, <1>5 DEF ElseTyped
<1>7. TypeOK'
  BY <1>5, <1>6, Types DEF Moved
<1>8. Fits(t, closing, a, x, k, j)'
  <2>1. a \notin InsertPlaces
    BY <1>5 DEF InsertPlaces
  <2>. QED  BY <1>3, <1>4, <1>5, <2>1, StillFits
<1>9. Located'
  BY <1>3, <1>4, <1>5, <1>8, Losing
<1>10. Apart'
  <2>1. a \notin InsertPlaces /\ (t = V => a = "idle" \/ x = o)
    BY <1>5, ThreadsAreTwo DEF InsertPlaces
  <2>. QED  BY <1>1, <1>2, <1>5, <2>1, StaysApart
<1>11. QueuedOnce'
  BY <1>3 DEF Inv, QueuedOnce
<1>12. /\ t = V => th'[M].at = th[M].at /\ th'[M].order = th[M].order
       /\ t = M => th[M].at = "forget" /\ th'[M].at # "unmap"
  BY <1>2, <1>5, ThreadsAreTwo DEF Moved
<1>13. QueuedIsMapped'
  BY <1>2, <1>3, <1>4, <1>12, ThreadsAreTwo DEF Inv, QueuedIsMapped, Unqueued
<1>14. TablesAgree'
  BY <1>4, <1>12, ThreadsAreTwo DEF Inv, TablesAgree
<1>15. Submitted'
  BY <1>3, <1>4, <1>5 DEF Inv, Submitted, Unqueued
<1>. QED  BY <1>7, <1>9, <1>10, <1>11, <1>13, <1>14, <1>15 DEF Inv

\* add_order: the order was in no queue.
LEMMA AppendOrderKeeps ==
  ASSUME Inv, AppendOrder
  PROVE  Inv'
<1>1. PICK o, l, i : o = th[M].order /\ l = th[M].level /\ i = th[M].index
  OBVIOUS
<1>2. /\ th[M].at = "append" /\ th \in [Threads -> Thread] /\ ElseTyped /\ TypeOK
      /\ Fits(M, closing, "append", o, l, i)
      /\ M \in Threads /\ o \in Orders /\ l \in Orders /\ queue[l] \in Seq(Orders)
      /\ Unqueued(o) /\ o \notin mapped
  BY <1>1, Placed, ThreadsAreTwo DEF AppendOrder, At, Fits, InsertPlaces, ElseTyped
<1>3. /\ queue' = [queue EXCEPT ![l] = Append(queue[l], o)]
      /\ total' = [total EXCEPT ![l] = total[l] + remaining[o]]
      /\ th' = Mutated(M, l, Goes(M, "index"))
      /\ UNCHANGED <<limit, remaining, bids, mapped, ids, ctlVars>>
  BY <1>1 DEF AppendOrder
<1>4. /\ Append(queue[l], o) \in Seq(Orders) /\ IsInjective(Append(queue[l], o))
      /\ Range(Append(queue[l], o)) = Range(queue[l]) \cup {o}
  <2>1. IsInjective(queue[l]) /\ o \notin Range(queue[l])
    BY <1>2 DEF Inv, QueuedOnce, Unqueued
  <2>. QED  BY <1>2, <2>1, AppendToQueue
<1>5. /\ queue' \in [Orders -> Seq(Orders)] /\ queue'[l] = Append(queue[l], o)
      /\ \A k \in Orders \ {l} : queue'[k] = queue[k]
  BY <1>2, <1>3, <1>4 DEF ElseTyped
<1>6. total' \in [Orders -> Int]
  <2>1. total \in [Orders -> Int] /\ remaining[o] \in Nat
    BY <1>2 DEF ElseTyped
  <2>2. total[l] + remaining[o] \in Int
    BY <1>2, <2>1
  <2>. QED  BY <1>2, <1>3, <2>1, <2>2
<1>7. ElseTyped'
  BY <1>2, <1>3, <1>5, <1>6 DEF ElseTyped, ctlVars
<1>8. Moved(M, "index", o, l, i)
  BY <1>1, <1>2, <1>3, GoingAndMutating DEF Places
<1>9. TypeOK'
  BY <1>2, <1>3, <1>7, <1>8, Types DEF Moved, ctlVars
<1>10. Fits(M, closing, "index", o, l, i)'
  BY <1>2, <1>3, ThreadsAreTwo
  DEF Fits, InsertPlaces, MatchPlaces, CancelPlaces, ctlVars
<1>11. /\ th'[M].at = "index" /\ th'[M].order = o /\ th'[M].level = l /\ th'[M].index = i
       /\ th'[V].at = th[V].at /\ th'[V].order = th[V].order
       /\ th'[V].level = th[V].level /\ th'[V].index = th[V].index
  BY <1>8, ThreadsAreTwo DEF Moved
<1>12. Located'
  <2>1. th[V].at # "idle" => th[V].order # o
    BY <1>1, <1>2 DEF Inv, Apart, InsertPlaces
  <2>2. \A k \in Orders : Range(queue'[k]) \subseteq Range(queue[k]) \cup {o}
    BY <1>4, <1>5
  <2>3. Fits(V, closing, th[V].at, th[V].order, th[V].level, th[V].index)'
    BY <1>2, <1>3, <1>11, <2>1, <2>2, ValidatorStillFits
  <2>4. Fits(M, closing, th[M].at, th[M].order, th[M].level, th[M].index)'
    BY <1>10, <1>11
  <2>. QED  BY <2>3, <2>4, ThreadsAreTwo DEF Located
<1>13. Apart'
  BY <1>1, <1>2, <1>8, StaysApart, ThreadsAreTwo DEF InsertPlaces
<1>14. QueuedOnce'
  <2>1. \A k \in Orders : IsInjective(queue'[k])
    BY <1>4, <1>5 DEF Inv, QueuedOnce
  <2>2. ASSUME NEW k \in Orders, NEW m \in Orders, k # m
        PROVE  Range(queue'[k]) \cap Range(queue'[m]) = {}
    <3>1. /\ Range(queue[k]) \cap Range(queue[m]) = {}
          /\ o \notin Range(queue[k]) /\ o \notin Range(queue[m])
      BY <1>2, <2>2 DEF Inv, QueuedOnce, Unqueued
    <3>2. /\ Range(queue'[k]) = IF k = l THEN Range(queue[k]) \cup {o} ELSE Range(queue[k])
          /\ Range(queue'[m]) = IF m = l THEN Range(queue[m]) \cup {o} ELSE Range(queue[m])
      BY <1>4, <1>5
    <3>. QED  BY <2>2, <3>1, <3>2
  <2>. QED  BY <2>1, <2>2 DEF QueuedOnce
<1>15. QueuedIsMapped'
  <2>1. \A k \in Orders : \A x \in Range(queue'[k]) : x = o \/ x \in mapped
    BY <1>2, <1>4, <1>5 DEF Inv, QueuedIsMapped
  <2>. QED  BY <1>3, <1>11, <2>1 DEF QueuedIsMapped
<1>16. TablesAgree'
  BY <1>2, <1>3, <1>11 DEF Inv, TablesAgree
<1>17. Submitted'
  <2>1. answer[o] # "confirmed"
    BY <1>2 DEF Fits, InsertPlaces
  <2>2. \A x \in Orders : Unqueued(x) /\ x # o => Unqueued(x)'
    BY <1>4, <1>5 DEF Unqueued
  <2>. QED  BY <1>3, <2>1, <2>2 DEF Inv, Submitted, ctlVars
<1>. QED  BY <1>9, <1>12, <1>13, <1>14, <1>15, <1>16, <1>17 DEF Inv

\* The order becomes known to the tables.
LEMMA IndexKeeps ==
  ASSUME Inv, Index
  PROVE  Inv'
<1>1. PICK o : o = th[M].order
  OBVIOUS
<1>2. /\ th[M].at = "index" /\ th \in [Threads -> Thread] /\ ElseTyped /\ TypeOK
      /\ M \in Threads /\ o \in Orders /\ limit[o] # 0 /\ ~closing
  BY <1>1, Placed, ThreadsAreTwo DEF Index, At, Fits, InsertPlaces
<1>3. /\ mapped' = mapped \cup {o} /\ ids' = ids \cup {o}
      /\ th' = [th EXCEPT ![M] = Idle]
      /\ UNCHANGED <<limit, remaining, bids, queue, total, ctlVars>>
  BY <1>1 DEF Index
<1>4. ElseTyped'
  BY <1>2, <1>3 DEF ElseTyped, ctlVars
<1>5. Moved(M, "idle", None, None, 0)
  BY <1>2, <1>3 DEF Moved, Thread, Places, Idle, None
<1>6. TypeOK'
  BY <1>2, <1>3, <1>4, <1>5, Types DEF Moved, ctlVars
<1>7. /\ th'[M].at = "idle" /\ th'[M].order = None /\ th'[M].level = None /\ th'[M].index = 0
      /\ th'[V].at = th[V].at /\ th'[V].order = th[V].order
      /\ th'[V].level = th[V].level /\ th'[V].index = th[V].index
  BY <1>5, ThreadsAreTwo DEF Moved
<1>8. Located'
  <2>1. th[V].at # "idle" => th[V].order # o
    BY <1>1, <1>2 DEF Inv, Apart, InsertPlaces
  <2>2. Fits(V, closing, th[V].at, th[V].order, th[V].level, th[V].index)'
    BY <1>2, <1>3, <1>7, <2>1, ValidatorStillFits
  <2>3. Fits(M, closing, "idle", None, None, 0)'
    BY <1>2, <1>3, ThreadsAreTwo
    DEF Fits, InsertPlaces, MatchPlaces, CancelPlaces, ctlVars
  <2>. QED  BY <1>7, <2>2, <2>3, ThreadsAreTwo DEF Located
<1>9. Apart'
  BY <1>2, <1>5, StaysApart, ThreadsAreTwo DEF InsertPlaces
<1>10. QueuedOnce' /\ QueuedIsMapped' /\ TablesAgree'
  BY <1>1, <1>2, <1>3, <1>7 DEF Inv, QueuedOnce, QueuedIsMapped, TablesAgree
<1>11. Submitted'
  BY <1>2, <1>3 DEF Inv, Submitted, Unqueued, ctlVars
<1>. QED  BY <1>6, <1>8, <1>9, <1>10, <1>11 DEF Inv

\* The first deletion of the matching loop.
LEMMA UnlistKeeps ==
  ASSUME Inv, Unlist
  PROVE  Inv'
<1>1. PICK m, l, i : m = th[M].order /\ l = th[M].level /\ i = th[M].index
  OBVIOUS
<1>2. /\ th[M].at = "unlist" /\ th \in [Threads -> Thread] /\ ElseTyped /\ TypeOK
      /\ Fits(M, closing, "unlist", m, l, i)
      /\ M \in Threads /\ m \in Orders /\ ~closing /\ ids = mapped
  BY <1>1, Placed, ThreadsAreTwo DEF Unlist, At, Fits, MatchPlaces, Inv, TablesAgree
<1>3. /\ ids' = ids \ {m}
      /\ UNCHANGED <<limit, remaining, bids, queue, total, mapped, toClose, closing,
                     submitted, raced>>
  BY <1>1 DEF Unlist
<1>4. CASE m \in ids
  <2>1. th' = Goes(M, "unmap") /\ UNCHANGED <<incoming, answer, raised>>
    BY <1>1, <1>4 DEF Unlist
  <2>2. Moved(M, "unmap", m, l, i)
    BY <1>1, <1>2, <2>1, Going DEF Places
  <2>3. ElseTyped'
    BY <1>2, <1>3, <2>1 DEF ElseTyped
  <2>4. TypeOK'
    BY <1>2, <2>1, <2>2, <2>3, Types DEF Moved
  <2>5. Fits(M, closing, "unmap", m, l, i)'
    BY <1>2, <1>3, ThreadsAreTwo DEF Fits, InsertPlaces, MatchPlaces, CancelPlaces, Unqueued
  <2>6. Located'
    BY <1>2, <1>3, <2>1, <2>2, <2>5, Losing, ThreadsAreTwo
  <2>7. Apart'
    BY <1>2, <2>2, StaysApart, ThreadsAreTwo DEF InsertPlaces
  <2>8. th'[M].at = "unmap" /\ th'[M].order = m
    BY <2>2 DEF Moved
  <2>9. QueuedOnce' /\ QueuedIsMapped' /\ TablesAgree'
    BY <1>2, <1>3, <2>8 DEF Inv, QueuedOnce, QueuedIsMapped, TablesAgree
  <2>10. Submitted'
    BY <1>3, <2>1 DEF Inv, Submitted, Unqueued
  <2>. QED  BY <2>4, <2>6, <2>7, <2>9, <2>10 DEF Inv
<1>5. CASE m \notin ids
  <2>1. Raise(M, "KeyError")
    BY <1>1, <1>5 DEF Unlist
  <2>2. ids' = ids
    BY <1>3, <1>5
  <2>. QED  BY <1>2, <1>3, <2>1, <2>2, RaisingKeepsInv, ThreadsAreTwo
<1>. QED  BY <1>4, <1>5

\* The second deletion: the tables agree again, also when it raises.
LEMMA UnmapKeeps ==
  ASSUME Inv, Unmap
  PROVE  Inv'
<1>1. PICK m, l, i : m = th[M].order /\ l = th[M].level /\ i = th[M].index
  OBVIOUS
<1>2. /\ th[M].at = "unmap" /\ th \in [Threads -> Thread] /\ ElseTyped /\ TypeOK
      /\ Fits(M, closing, "unmap", m, l, i) /\ M \in Threads
      /\ m \in Orders /\ l \in Orders /\ ~closing /\ ids = mapped \ {m} /\ Unqueued(m)
      /\ answer \in [Orders -> Answers]
  BY <1>1, Placed, ThreadsAreTwo DEF Unmap, At, Fits, MatchPlaces, Inv, TablesAgree
<1>3. /\ mapped' = mapped \ {m}
      /\ UNCHANGED <<limit, remaining, bids, queue, total, ids, toClose, closing,
                     submitted, raced>>
  BY <1>1 DEF Unmap
<1>4. PICK a, x, k, j :
        /\ a \in {"pop", "match", "idle"}
        /\ Moved(M, a, x, k, j)
        /\ answer' = answer /\ raised' \in BOOLEAN
        /\ incoming' \in [left : Nat, price : Prices \cup {0}]
  <2>1. CASE m \in mapped
    <3>1. /\ th' = IF queue[l] = <<>> THEN Goes(M, "pop")
                   ELSE [th EXCEPT ![M] = [Idle EXCEPT !.at = "match"]]
          /\ UNCHANGED <<incoming, answer, raised>>
      BY <1>1, <2>1 DEF Unmap
    <3>2. CASE queue[l] = <<>>
      <4>1. Moved(M, "pop", m, l, i)
        BY <1>1, <1>2, <3>1, <3>2, Going DEF Places
      <4>. QED  BY <1>2, <3>1, <4>1 DEF ElseTyped
    <3>3. CASE queue[l] # <<>>
      <4>1. Moved(M, "match", None, None, 0)
        BY <1>2, <3>1, <3>3 DEF Moved, Thread, Places, Idle, None
      <4>. QED  BY <1>2, <3>1, <4>1 DEF ElseTyped
    <3>. QED  BY <3>2, <3>3
  <2>2. CASE m \notin mapped
    <3>1. Raise(M, "KeyError")
      BY <1>1, <2>2 DEF Unmap
    <3>2. Moved(M, "idle", None, None, 0) /\ answer' = answer
      BY <1>2, <3>1, Raising DEF Raise, M
    <3>. QED  BY <1>2, <3>1, <3>2, Raising
  <2>. QED  BY <2>1, <2>2
<1>5. ElseTyped'
  BY <1>2, <1>3, <1>4 DEF ElseTyped
<1>6. TypeOK'
  BY <1>2, <1>4, <1>5, Types DEF Moved
<1>7. Fits(M, closing, a, x, k, j)'
  BY <1>2, <1>3, <1>4, ThreadsAreTwo DEF Fits, InsertPlaces, MatchPlaces, CancelPlaces
<1>8. Located'
  BY <1>2, <1>3, <1>4, <1>7, Losing, ThreadsAreTwo
<1>9. Apart'
  BY <1>2, <1>4, StaysApart, ThreadsAreTwo DEF InsertPlaces
<1>10. th'[M].at # "unmap"
  BY <1>4 DEF Moved
<1>11. QueuedOnce' /\ TablesAgree'
  BY <1>2, <1>3, <1>10 DEF Inv, QueuedOnce, TablesAgree
<1>12. QueuedIsMapped'
  BY <1>2, <1>3 DEF Inv, QueuedIsMapped, Unqueued
<1>13. Submitted'
  BY <1>3, <1>4 DEF Inv, Submitted, Unqueued
<1>. QED  BY <1>6, <1>8, <1>9, <1>11, <1>12, <1>13 DEF Inv

-----------------------------------------------------------------------------
(* Calls one after the other: the invariant of a book that has seen no race. *)

\* Places between the two steps that take a level in or out of use, or an order.
LevelPlaces == {"append", "forget", "check", "drop", "unlist", "unmap", "pop"}
OrderPlaces == {"forget", "unlist", "unmap"}

\* Thread t takes out an order that the matching loop has filled.
TakesOut(t, a) == t = M /\ a \in {"enter", "search"} /\ ~closing

\* The levels are sorted and their totals are exact; the levels are the queues
\* that are not empty, but for l; queued orders are of the price of their level
\* and have something left, but for f; mapped orders are queued, but for o.
WholeBut(f, l, o) ==
  /\ \A i, j \in DOMAIN bids : i < j => limit[bids[i]] > limit[bids[j]]
  /\ \A k \in Orders : total[k] = SumFunctionOnSet(remaining, Range(queue[k]))
  /\ \A k \in Orders : queue[k] # <<>> => k \in Range(bids)
  /\ \A k \in Range(bids) : queue[k] = <<>> => k = l
  /\ \A k \in Orders : \A x \in Range(queue[k]) :
       limit[x] = limit[k] /\ (remaining[x] = 0 => x = f)
  /\ \A x \in mapped : Unqueued(x) => x = o

\* What is in the middle of being put in or taken out at place a.
MeanwhileBut(t, a, o, l) ==
  WholeBut(IF TakesOut(t, a) THEN o ELSE None, IF a \in LevelPlaces THEN l ELSE None,
           IF a \in OrderPlaces THEN o ELSE None)

\* What thread t relies on at place a with order o, level l and index i.
Relies(t, a, o, l, i) ==
  /\ a # "dead"
  /\ a \in {"fill"} \cup OrderPlaces \/ TakesOut(t, a) => o \in mapped
  /\ a \in {"enter", "search", "forget", "check", "drop", "append"} => l \in Range(bids)
  /\ a \in {"pick", "fill", "unlist", "unmap", "pop"} \/ TakesOut(t, a)
       => bids # <<>> /\ l = bids[1]
  /\ TakesOut(t, a) => remaining[o] = 0
  /\ a \in {"pick", "fill"} => incoming.left > 0
  /\ a = "fill" => o \in Range(queue[l])
  /\ a \in {"drop", "pop"} => queue[l] = <<>>
  /\ a = "drop" => \A j \in DOMAIN bids : j < i => bids[j] # l
  /\ a = "place" => \A j \in DOMAIN bids : j < i => limit[bids[j]] # limit[o]
  /\ a = "position" => \A j \in DOMAIN bids : limit[bids[j]] # limit[o]
  /\ a = "insert" => /\ i <= Len(bids) + 1
                     /\ \A j \in DOMAIN bids : IF j < i THEN limit[bids[j]] > limit[o]
                                               ELSE limit[bids[j]] < limit[o]
  /\ a = "append" => limit[l] = limit[o]
  /\ a \in InsertPlaces => remaining[o] > 0
  /\ a = "index" => ~Unqueued(o)

\* Nobody but thread t is in the book, and the book is as t relies on it.
Lonely(t) ==
  /\ \A u \in Threads \ {t} : th[u].at = "idle"
  /\ th[t].at = "search" => th[t].fresh
  /\ MeanwhileBut(t, th[t].at, th[t].order, th[t].level)
  /\ Relies(t, th[t].at, th[t].order, th[t].level, th[t].index)

Serial == ~raced => ~raised /\ \E t \in Threads : Lonely(t)

\* The thread that has a call under way is the lonely one.
LEMMA WhoIsInside ==
  ASSUME Serial, ~raced, NEW t \in Threads, th[t].at # "idle"
  PROVE  ~raised /\ Lonely(t)
BY DEF Serial, Lonely

\* Between two calls the book is whole.
LEMMA WholeAtRest ==
  ASSUME Serial, ~raced, Quiet
  PROVE  ~raised /\ WholeBut(None, None, None) /\ \A t \in Threads : th[t].at = "idle"
<1>1. PICK u \in Threads : Lonely(u) /\ ~raised
  BY DEF Serial
<1>2. th[u].at = "idle" /\ \A t \in Threads : th[t].at = "idle"
  BY <1>1 DEF Lonely, Relies, Quiet
<1>3. MeanwhileBut(u, "idle", th[u].order, th[u].level)
  BY <1>1, <1>2 DEF Lonely
<1>. QED  BY <1>1, <1>2, <1>3 DEF MeanwhileBut, TakesOut, LevelPlaces, OrderPlaces

\* A step of the lonely thread leads to place a.
LEMMA Onward ==
  ASSUME NEW t \in Threads, NEW a, NEW o, NEW l, NEW i, Moved(t, a, o, l, i),
         \A u \in Threads \ {t} : th[u].at = "idle",
         ~raised', a = "search" => th'[t].fresh,
         NEW f, NEW k, NEW x, WholeBut(f, k, x)',
         f # None => TakesOut(t, a)' /\ f = o,
         k # None => a \in LevelPlaces /\ k = l,
         x # None => a \in OrderPlaces /\ x = o,
         TypeOK', Relies(t, a, o, l, i)'
  PROVE  Serial'
<1>1. /\ th'[t].at = a /\ th'[t].order = o /\ th'[t].level = l /\ th'[t].index = i
      /\ \A u \in Threads \ {t} : th'[u].at = "idle"
  BY DEF Moved
<1>2. None \notin Orders
  BY DEF None
<1>3. bids' \in Seq(Orders) /\ queue' \in [Orders -> Seq(Orders)] /\ mapped' \subseteq Orders
  BY DEF TypeOK
<1>4. Range(bids') \subseteq Orders /\ \A j \in Orders : Range(queue'[j]) \subseteq Orders
  BY <1>3, RangeOfSeq
<1>5. MeanwhileBut(t, a, o, l)'
  BY <1>2, <1>3, <1>4 DEF MeanwhileBut, WholeBut
<1>6. Lonely(t)'
  BY <1>1, <1>5 DEF Lonely
<1>. QED  BY <1>6 DEF Serial

\* What is known of the book lasts when it is left alone.
LEMMA StaysWhole ==
  ASSUME NEW f, NEW l, NEW o, WholeBut(f, l, o),
         UNCHANGED <<limit, remaining, bids, queue, total, mapped>>
  PROVE  WholeBut(f, l, o)'
BY DEF WholeBut, Unqueued

\* cancel_order returns.
LEMMA FinishAlone ==
  ASSUME TypeOK, TypeOK', NEW t \in Threads, NEW a \in Answers, Finish(t, a),
         \A u \in Threads \ {t} : th[u].at = "idle", ~raised', WholeBut(None, None, None)'
  PROVE  Serial'
<1>. DEFINE b == IF t = V THEN "idle" ELSE "close"
<1>1. Moved(t, b, None, None, 0)
  BY Finishing
<1>2. Relies(t, b, None, None, 0)' /\ b # "search"
  BY DEF Relies, OrderPlaces, TakesOut, InsertPlaces
<1>. HIDE DEF b
<1>. QED  BY <1>1, <1>2, Onward

\* A thread that is somewhere is alone there.
LEMMA Inside ==
  ASSUME Inv, Serial, ~raced, NEW t \in Threads, th[t].at # "idle"
  PROVE  /\ \A u \in Threads \ {t} : th[u].at = "idle"
         /\ ~raised /\ TypeOK /\ ElseTyped /\ th \in [Threads -> Thread]
         /\ th[t].index \in Nat /\ (th[t].at = "search" => th[t].fresh)
         /\ MeanwhileBut(t, th[t].at, th[t].order, th[t].level)
         /\ Relies(t, th[t].at, th[t].order, th[t].level, th[t].index)
         /\ Fits(t, closing, th[t].at, th[t].order, th[t].level, th[t].index)
BY WhoIsInside, Placed DEF Lonely, Thread

\* Looking for the level.
LEMMA SeekAlone ==
  ASSUME Inv, Serial, TypeOK', NEW t \in Threads, Seek(t)
  PROVE  Serial'
<1>. SUFFICES ASSUME ~raced' PROVE Serial'
  BY DEF Serial
<1>. PICK o, i : o = th[t].order /\ i = th[t].index
  OBVIOUS
<1>1. /\ th[t].at = "seek" /\ ~raced
      /\ UNCHANGED <<bookVars, incoming, toClose, closing, submitted, raised, raced>>
  BY DEF Seek, At
<1>2. /\ \A u \in Threads \ {t} : th[u].at = "idle"
      /\ ~raised /\ TypeOK /\ ElseTyped /\ th \in [Threads -> Thread] /\ i \in Nat
      /\ MeanwhileBut(t, "seek", o, th[t].level)
      /\ Fits(t, closing, "seek", o, th[t].level, i)
  BY <1>1, Inside
<1>3. i >= 1 /\ WholeBut(None, None, None)
  BY <1>2 DEF Fits, MeanwhileBut, TakesOut, LevelPlaces, OrderPlaces
<1>4. /\ WholeBut(None, None, None)' /\ limit' = limit /\ bids' = bids
      /\ closing' = closing /\ ~raised'
  BY <1>1, <1>2, <1>3, StaysWhole DEF bookVars
<1>5. CASE i > Len(bids)
  <2>1. Finish(t, "not_found")
    BY <1>5 DEF Seek
  <2>. QED  BY <1>2, <1>4, <2>1, FinishAlone DEF Answers
<1>6. CASE ~(i > Len(bids)) /\ limit[bids[i]] = limit[o]
  <2>1. PICK l : l = bids[i]
    OBVIOUS
  <2>2. l \in Range(bids) /\ l \in Orders
    BY <1>2, <1>3, <1>6, <2>1, ElementOfSeq, LenProperties, MemberHasPosition DEF ElseTyped
  <2>3. th' = [th EXCEPT ![t] = [@ EXCEPT !.at = "enter", !.level = l, !.index = 0]]
    BY <1>6, <2>1 DEF Seek
  <2>4. Moved(t, "enter", o, l, 0)
    <3>1. "enter" \in Places
      BY DEF Places
    <3>. QED  BY <1>1, <1>2, <2>2, <2>3, <3>1 DEF Moved, Thread
  <2>5. ~TakesOut(t, "enter")'
    <3>1. t = M => closing
      BY <1>1, Placed, ThreadsAreTwo DEF Fits
    <3>. QED  BY <1>4, <3>1 DEF TakesOut
  <2>6. Relies(t, "enter", o, l, 0)'
    BY <1>4, <2>2, <2>5 DEF Relies, OrderPlaces, InsertPlaces
  <2>. QED  BY <1>2, <1>4, <2>4, <2>6, Onward
<1>7. CASE ~(i > Len(bids)) /\ limit[bids[i]] # limit[o]
  <2>1. th' = [th EXCEPT ![t] = [@ EXCEPT !.index = i + 1]]
    BY <1>7 DEF Seek
  <2>2. PICK l : l = th[t].level
    OBVIOUS
  <2>3. Moved(t, "seek", o, l, i + 1)
    BY <1>1, <1>2, <2>1, <2>2 DEF Moved, Thread, Places
  <2>4. Relies(t, "seek", o, l, i + 1)'
    BY DEF Relies, OrderPlaces, InsertPlaces, TakesOut
  <2>. QED  BY <1>2, <1>4, <2>3, <2>4, Onward
<1>. QED  BY <1>5, <1>6, <1>7

\* remove_order makes its iterator.
LEMMA EnterAlone ==
  ASSUME Inv, Serial, TypeOK', NEW t \in Threads, Enter(t)
  PROVE  Serial'
<1>. SUFFICES ASSUME ~raced' PROVE Serial'
  BY DEF Serial
<1>. PICK o, l, i : o = th[t].order /\ l = th[t].level /\ i = th[t].index
  OBVIOUS
<1>1. /\ th[t].at = "enter" /\ ~raced /\ UNCHANGED <<bookVars, ctlVars>>
      /\ th' = [th EXCEPT ![t].at = "search", ![t].fresh = TRUE]
  BY DEF Enter, At, ctlVars
<1>2. /\ \A u \in Threads \ {t} : th[u].at = "idle"
      /\ ~raised' /\ th \in [Threads -> Thread]
      /\ MeanwhileBut(t, "enter", o, l) /\ Relies(t, "enter", o, l, i)
  BY <1>1, Inside DEF ctlVars
<1>3. PICK f : f = IF TakesOut(t, "enter") THEN o ELSE None
  OBVIOUS
<1>4. WholeBut(f, None, None)
  BY <1>2, <1>3 DEF MeanwhileBut, LevelPlaces, OrderPlaces
<1>5. WholeBut(f, None, None)' /\ UNCHANGED <<remaining, bids, mapped, closing>>
  BY <1>1, <1>4, StaysWhole DEF bookVars, ctlVars
<1>6. Moved(t, "search", o, l, i) /\ th'[t].fresh
  <2>. DEFINE r == [th[t] EXCEPT !.at = "search", !.fresh = TRUE]
  <2>1. /\ r \in Thread /\ r.at = "search" /\ r.order = o
        /\ r.level = l /\ r.index = i /\ r.fresh
    <3>1. "search" \in Places
      BY DEF Places
    <3>. QED  BY <1>2, <3>1 DEF Thread
  <2>2. th' = [th EXCEPT ![t] = r]
    BY <1>1, <1>2 DEF Thread
  <2>. HIDE DEF r
  <2>. QED  BY <1>2, <2>1, <2>2, Stepping
<1>7. TakesOut(t, "search")' <=> TakesOut(t, "enter")
  BY <1>5 DEF TakesOut
<1>8. Relies(t, "search", o, l, i)'
  BY <1>2, <1>5, <1>7 DEF Relies, OrderPlaces, InsertPlaces
<1>. QED  BY <1>2, <1>3, <1>5, <1>6, <1>7, <1>8, Onward

\* What taking an order out leaves of a book that is whole but for an order
\* with nothing left.
LEMMA TakenOutOfWhole ==
  ASSUME TypeOK, QueuedOnce, NEW f, WholeBut(f, None, None), NEW l \in Orders,
         NEW o \in Range(queue[l]), f # None => f = o,
         queue' = [queue EXCEPT ![l] = Without(l, o)],
         total' = [total EXCEPT ![l] = total[l] - remaining[o]],
         UNCHANGED <<limit, remaining, bids, mapped>>
  PROVE  WholeBut(None, l, o)'
<1>1. /\ queue \in [Orders -> Seq(Orders)] /\ total \in [Orders -> Int]
      /\ remaining \in [Orders -> Nat] /\ bids \in Seq(Orders)
  BY DEF TypeOK
<1>2. /\ queue' \in [Orders -> Seq(Orders)]
      /\ \A k \in Orders : Range(queue'[k]) = Range(queue[k]) \ {o}
      /\ \A k \in Orders \ {l} : queue'[k] = queue[k]
  BY <1>1, TakenOut
<1>3. o \in Orders /\ None \notin Orders
  BY <1>1, RangeOfSeq DEF None
<1>4. \A i, j \in DOMAIN bids' : i < j => limit'[bids'[i]] > limit'[bids'[j]]
  BY DEF WholeBut
<1>5. ASSUME NEW k \in Orders PROVE total'[k] = SumFunctionOnSet(remaining', Range(queue'[k]))
  <2>1. total[k] = SumFunctionOnSet(remaining, Range(queue[k]))
    BY DEF WholeBut
  <2>2. CASE k = l
    <3>. PICK S : S = Range(queue[l])
      OBVIOUS
    <3>1. IsFiniteSet(S) /\ IsFiniteSet(S \ {o}) /\ o \in S
      <4>1. queue[l] \in Seq(Orders)
        BY <1>1
      <4>. QED  BY <4>1, RangeIsFinite, FS_Subset
    <3>2. \A x \in S : remaining[x] \in Int
      <4>1. S \subseteq Orders
        BY <1>1, RangeOfSeq
      <4>. QED  BY <1>1, <4>1
    <3>3. SumFunctionOnSet(remaining, S) = remaining[o] + SumFunctionOnSet(remaining, S \ {o})
      BY <3>1, <3>2, SumRemove
    <3>4. SumFunctionOnSet(remaining, S \ {o}) \in Int
      BY <3>1, <3>2, SumType
    <3>5. total'[l] = total[l] - remaining[o] /\ remaining[o] \in Int /\ total[l] \in Int
      BY <1>1, <1>3
    <3>6. Range(queue'[l]) = S \ {o} /\ total[l] = SumFunctionOnSet(remaining, S)
      BY <1>2, <2>1, <2>2
    <3>7. total'[l] = SumFunctionOnSet(remaining, S \ {o})
      BY <3>3, <3>4, <3>5, <3>6
    <3>. QED  BY <2>2, <3>6, <3>7
  <2>3. CASE k # l
    BY <1>1, <1>2, <2>1, <2>3
  <2>. QED  BY <2>2, <2>3
<1>6. \A k \in Orders : queue'[k] # <<>> => k \in Range(bids')
  <2>1. queue[l] # <<>>
    BY DEF Range
  <2>. QED  BY <1>2, <2>1 DEF WholeBut
<1>7. \A k \in Range(bids') : queue'[k] = <<>> => k = l
  BY <1>1, <1>2, <1>3, RangeOfSeq DEF WholeBut
<1>8. \A k \in Orders : \A x \in Range(queue'[k]) :
        limit'[x] = limit'[k] /\ (remaining'[x] = 0 => x = None)
  <2>1. \A k \in Orders : \A x \in Range(queue[k]) : x \in Orders
    BY <1>1, RangeOfSeq
  <2>. QED  BY <1>2, <1>3, <2>1 DEF WholeBut
<1>9. \A x \in mapped' : Unqueued(x)' => x = o
  <2>1. mapped \subseteq Orders
    BY DEF TypeOK
  <2>. QED  BY <1>2, <1>3, <2>1 DEF WholeBut, Unqueued
<1>. QED  BY <1>4, <1>5, <1>6, <1>7, <1>8, <1>9 DEF WholeBut

\* Looking for the order and taking it out.
LEMMA SearchAlone ==
  ASSUME Inv, Serial, TypeOK', NEW t \in Threads, Search(t)
  PROVE  Serial'
<1>. SUFFICES ASSUME ~raced' PROVE Serial'
  BY DEF Serial
<1>. PICK o, l, i : o = th[t].order /\ l = th[t].level /\ i = th[t].index
  OBVIOUS
<1>1. /\ th[t].at = "search" /\ ~raced
      /\ UNCHANGED <<limit, remaining, bids, mapped, ids, toClose, closing, submitted, raced>>
  BY DEF Search, At
<1>2. /\ \A u \in Threads \ {t} : th[u].at = "idle"
      /\ ~raised /\ TypeOK /\ th \in [Threads -> Thread] /\ th[t].fresh
      /\ MeanwhileBut(t, "search", o, l) /\ Relies(t, "search", o, l, i)
      /\ Fits(t, closing, "search", o, l, i)
  BY <1>1, Inside
<1>3. PICK f : f = IF TakesOut(t, "search") THEN o ELSE None
  OBVIOUS
<1>4. WholeBut(f, None, None) /\ l \in Orders /\ o \in Orders /\ l \in Range(bids)
  BY <1>2, <1>3 DEF MeanwhileBut, LevelPlaces, OrderPlaces, Fits, Relies, CancelPlaces
<1>5. TakesOut(t, "search") <=> ~Cancelling(t)
  BY ThreadsAreTwo DEF TakesOut, Cancelling, V
<1>6. \A x \in Orders : x \in Range(queue[l]) => x \in mapped
  <2>1. th[M].at # "index"
    BY <1>1, <1>2, ThreadsAreTwo
  <2>. QED  BY <1>4, <2>1 DEF Inv, QueuedIsMapped
<1>7. ~raised'
  BY <1>2 DEF Search
<1>8. CASE o \in Range(queue[l])
  <2>. PICK a : a = IF Cancelling(t) THEN "forget" ELSE "unlist"
    OBVIOUS
  <2>1. /\ queue' = [queue EXCEPT ![l] = Without(l, o)]
        /\ total' = [total EXCEPT ![l] = total[l] - remaining[o]]
        /\ th' = Mutated(t, l, Goes(t, a))
    BY <1>2, <1>8 DEF Search
  <2>2. WholeBut(None, l, o)'
    BY <1>1, <1>2, <1>3, <1>4, <1>8, <2>1, TakenOutOfWhole DEF Inv
  <2>3. Moved(t, a, o, l, i)
    BY <1>2, <2>1, GoingAndMutating DEF Places
  <2>4. Relies(t, a, o, l, i)'
    BY <1>1, <1>2, <1>4, <1>5, <1>6, <1>8 DEF Relies, OrderPlaces, InsertPlaces, TakesOut
  <2>5. a \in LevelPlaces /\ a \in OrderPlaces /\ a # "search"
    BY DEF LevelPlaces, OrderPlaces
  <2>. QED  BY <1>2, <1>7, <2>2, <2>3, <2>4, <2>5, Onward
<1>9. CASE o \notin Range(queue[l]) /\ Cancelling(t)
  <2>1. Finish(t, "not_found") /\ UNCHANGED <<queue, total>>
    BY <1>2, <1>9 DEF Search
  <2>2. WholeBut(None, None, None)'
    BY <1>1, <1>3, <1>4, <1>5, <1>9, <2>1, StaysWhole
  <2>. QED  BY <1>2, <1>7, <2>1, <2>2, FinishAlone DEF Answers
<1>10. CASE o \notin Range(queue[l]) /\ ~Cancelling(t)
  <2>1. th' = Goes(t, "unlist") /\ UNCHANGED <<queue, total>>
    BY <1>2, <1>10 DEF Search
  <2>2. Moved(t, "unlist", o, l, i)
    BY <1>2, <2>1, Going DEF Places
  <2>3. Unqueued(o)
    BY <1>2, <1>5, <1>10 DEF Fits, TakesOut, Unqueued
  <2>4. WholeBut(None, None, None)
    BY <1>3, <1>4, <1>5, <1>10, <2>3 DEF WholeBut, Unqueued
  <2>5. WholeBut(None, None, None)'
    BY <1>1, <2>1, <2>4, StaysWhole
  <2>6. Relies(t, "unlist", o, l, i)'
    BY <1>1, <1>2, <1>5, <1>10 DEF Relies, OrderPlaces, InsertPlaces, TakesOut
  <2>. QED  BY <1>2, <1>7, <2>2, <2>5, <2>6, Onward
<1>. QED  BY <1>8, <1>9, <1>10

\* cancel_order deletes the order from the tables.
LEMMA ForgetAlone ==
  ASSUME Inv, Serial, TypeOK', NEW t \in Threads, Forget(t)
  PROVE  Serial'
<1>. SUFFICES ASSUME ~raced' PROVE Serial'
  BY DEF Serial
<1>. PICK o, l, i : o = th[t].order /\ l = th[t].level /\ i = th[t].index
  OBVIOUS
<1>1. /\ th[t].at = "forget" /\ ~raced /\ mapped' = mapped \ {o}
      /\ UNCHANGED <<limit, remaining, bids, queue, total, toClose, closing,
                     submitted, raced>>
  BY DEF Forget, At
<1>2. /\ \A u \in Threads \ {t} : th[u].at = "idle"
      /\ ~raised /\ TypeOK /\ th \in [Threads -> Thread]
      /\ MeanwhileBut(t, "forget", o, l) /\ Relies(t, "forget", o, l, i)
  BY <1>1, Inside
<1>3. WholeBut(None, l, o) /\ o \in mapped /\ l \in Range(bids)
  BY <1>2 DEF MeanwhileBut, TakesOut, LevelPlaces, OrderPlaces, Relies
<1>4. ids = mapped
  <2>1. th[M].at # "unmap"
    BY <1>1, <1>2, ThreadsAreTwo
  <2>. QED  BY <2>1 DEF Inv, TablesAgree
<1>5. th' = Goes(t, "check") /\ ~raised'
  BY <1>2, <1>3, <1>4 DEF Forget
<1>6. Moved(t, "check", o, l, i)
  BY <1>2, <1>5, Going DEF Places
<1>7. WholeBut(None, l, None)'
  BY <1>1, <1>3 DEF WholeBut, Unqueued
<1>8. Relies(t, "check", o, l, i)'
  BY <1>1, <1>3 DEF Relies, OrderPlaces, InsertPlaces, TakesOut
<1>. QED  BY <1>2, <1>5, <1>6, <1>7, <1>8, Onward DEF LevelPlaces

\* The look at the level's queue.
LEMMA CheckEmptyAlone ==
  ASSUME Inv, Serial, TypeOK', NEW t \in Threads, CheckEmpty(t)
  PROVE  Serial'
<1>. SUFFICES ASSUME ~raced' PROVE Serial'
  BY DEF Serial
<1>. PICK o, l : o = th[t].order /\ l = th[t].level
  OBVIOUS
<1>1. /\ th[t].at = "check" /\ ~raced
      /\ UNCHANGED <<bookVars, incoming, toClose, closing, submitted, raised, raced>>
  BY DEF CheckEmpty, At
<1>2. /\ \A u \in Threads \ {t} : th[u].at = "idle"
      /\ ~raised /\ TypeOK /\ th \in [Threads -> Thread] /\ bids \in Seq(Orders)
      /\ MeanwhileBut(t, "check", o, l) /\ Relies(t, "check", o, l, th[t].index)
  BY <1>1, Inside DEF ElseTyped
<1>3. WholeBut(None, l, None) /\ l \in Range(bids)
  BY <1>2 DEF MeanwhileBut, TakesOut, LevelPlaces, OrderPlaces, Relies
<1>4. /\ WholeBut(None, l, None)' /\ ~raised' /\ bids' = bids /\ queue' = queue
  BY <1>1, <1>2, <1>3, StaysWhole DEF bookVars
<1>5. CASE queue[l] = <<>>
  <2>1. th' = [th EXCEPT ![t].at = "drop", ![t].index = 1]
    BY <1>5 DEF CheckEmpty
  <2>2. Moved(t, "drop", o, l, 1)
    <3>. DEFINE r == [th[t] EXCEPT !.at = "drop", !.index = 1]
    <3>1. r \in Thread /\ r.at = "drop" /\ r.order = o /\ r.level = l /\ r.index = 1
      <4>1. "drop" \in Places
        BY DEF Places
      <4>. QED  BY <1>2, <4>1 DEF Thread
    <3>2. th' = [th EXCEPT ![t] = r]
      BY <1>2, <2>1 DEF Thread
    <3>. HIDE DEF r
    <3>. QED  BY <1>2, <3>1, <3>2, Stepping
  <2>3. Relies(t, "drop", o, l, 1)'
    <3>1. \A j \in DOMAIN bids : ~(j < 1)
      BY <1>2, LenProperties
    <3>. QED  BY <1>3, <1>4, <1>5, <3>1 DEF Relies, OrderPlaces, InsertPlaces, TakesOut
  <2>. QED  BY <1>2, <1>4, <2>2, <2>3, Onward DEF LevelPlaces
<1>6. CASE queue[l] # <<>>
  <2>1. Finish(t, "confirmed")
    BY <1>6 DEF CheckEmpty
  <2>2. WholeBut(None, None, None)'
    BY <1>4, <1>6 DEF WholeBut
  <2>. QED  BY <1>2, <1>4, <2>1, <2>2, FinishAlone DEF Answers
<1>. QED  BY <1>5, <1>6

\* No two levels of a sorted list are of one price.
LEMMA SortedApart ==
  ASSUME bids \in Seq(Orders), limit \in [Orders -> Prices \cup {0}], 
         NEW f, NEW l, NEW o, WholeBut(f, l, o)
  PROVE  /\ \A i, j \in DOMAIN bids : limit[bids[i]] = limit[bids[j]] => i = j
         /\ IsInjective(bids)
<1>1. DOMAIN bids = 1..Len(bids) /\ Len(bids) \in Nat
  BY LenProperties
<1>2. \A i \in DOMAIN bids : limit[bids[i]] \in Nat
  <2>1. \A i \in DOMAIN bids : bids[i] \in Orders
    BY <1>1, ElementOfSeq
  <2>2. \A x \in Orders : limit[x] \in Nat
    <3>1. Prices \cup {0} \subseteq Nat
      BY PricesAssumption
    <3>. QED  BY <3>1
  <2>. QED  BY <2>1, <2>2
<1>3. \A i, j \in DOMAIN bids : i < j => limit[bids[i]] > limit[bids[j]]
  BY DEF WholeBut
<1>4. ASSUME NEW i \in DOMAIN bids, NEW j \in DOMAIN bids, limit[bids[i]] = limit[bids[j]]
      PROVE  i = j
  <2>1. ~(i < j) /\ ~(j < i)
    BY <1>2, <1>3, <1>4
  <2>. QED  BY <1>1, <2>1
<1>. QED  BY <1>4 DEF IsInjective

\* An empty level leaves the list.
LEMMA LevelGone ==
  ASSUME TypeOK, NEW l, WholeBut(None, l, None), queue[l] = <<>>,
         UNCHANGED <<limit, remaining, queue, total, mapped>>,
         Range(bids') = Range(bids) \ {l},
         \A i, j \in DOMAIN bids' : i < j => limit[bids'[i]] > limit[bids'[j]]
  PROVE  WholeBut(None, None, None)'
BY DEF WholeBut, Unqueued

\* Taking out one element of a sorted list leaves it sorted.
LEMMA RemovedSorted ==
  ASSUME bids \in Seq(Orders), NEW i \in 1..Len(bids), bids' = RemoveAt(bids, i),
         NEW f, NEW l, NEW o, WholeBut(f, l, o), limit' = limit
  PROVE  \A j, k \in DOMAIN bids' : j < k => limit[bids'[j]] > limit[bids'[k]]
<1>1. /\ bids' \in Seq(Orders) /\ Len(bids') = Len(bids) - 1
      /\ \A j \in 1..(Len(bids) - 1) : bids'[j] = IF j < i THEN bids[j] ELSE bids[j + 1]
  BY RemoveFromQueue
<1>2. /\ DOMAIN bids' = 1..(Len(bids) - 1) /\ Len(bids) \in Nat
      /\ DOMAIN bids = 1..Len(bids)
  BY <1>1, LenProperties
<1>3. SUFFICES ASSUME NEW j \in DOMAIN bids', NEW k \in DOMAIN bids', j < k
               PROVE  limit[bids'[j]] > limit[bids'[k]]
  OBVIOUS
<1>4. PICK x, y : x = (IF j < i THEN j ELSE j + 1) /\ y = (IF k < i THEN k ELSE k + 1)
  OBVIOUS
<1>5. x \in DOMAIN bids /\ y \in DOMAIN bids /\ x < y
  BY <1>2, <1>3, <1>4
<1>6. bids'[j] = bids[x] /\ bids'[k] = bids[y]
  BY <1>1, <1>2, <1>4
<1>. QED  BY <1>5, <1>6 DEF WholeBut

\* order_list.remove(level) takes out the level and nothing else.
LEMMA DropAlone ==
  ASSUME Inv, Serial, TypeOK', NEW t \in Threads, Drop(t)
  PROVE  Serial'
<1>. SUFFICES ASSUME ~raced' PROVE Serial'
  BY DEF Serial
<1>. PICK o, l, i : o = th[t].order /\ l = th[t].level /\ i = th[t].index
  OBVIOUS
<1>1. /\ th[t].at = "drop" /\ ~raced
      /\ UNCHANGED <<limit, remaining, queue, total, mapped, ids, toClose, closing,
                     submitted, raced>>
  BY DEF Drop, At
<1>2. /\ \A u \in Threads \ {t} : th[u].at = "idle"
      /\ ~raised /\ TypeOK /\ th \in [Threads -> Thread] /\ bids \in Seq(Orders)
      /\ limit \in [Orders -> Prices \cup {0}] /\ i \in Nat
      /\ MeanwhileBut(t, "drop", o, l) /\ Relies(t, "drop", o, l, i)
      /\ Fits(t, closing, "drop", o, l, i)
  BY <1>1, Inside DEF ElseTyped
<1>3. WholeBut(None, l, None) /\ l \in Range(bids) /\ i >= 1 /\ queue[l] = <<>>
  BY <1>2 DEF MeanwhileBut, TakesOut, LevelPlaces, OrderPlaces, Relies, Fits
<1>4. \A j \in DOMAIN bids : j < i => bids[j] # l
  BY <1>2 DEF Relies
<1>5. PICK n \in 1..Len(bids) : bids[n] = l
  BY <1>2, <1>3, MemberHasPosition
<1>6. i <= n /\ i \in 1..Len(bids) /\ DOMAIN bids = 1..Len(bids)
  BY <1>2, <1>3, <1>4, <1>5, LenProperties
<1>7. CASE Equal(bids[i], l)
  <2>1. bids' = RemoveAt(bids, i) /\ Finish(t, "confirmed") /\ ~raised'
    BY <1>2, <1>6, <1>7 DEF Drop
  <2>2. bids[i] = l
    <3>1. limit[bids[i]] = limit[bids[n]]
      BY <1>5, <1>7 DEF Equal
    <3>2. i = n
      BY <1>2, <1>3, <1>6, <3>1, SortedApart
    <3>. QED  BY <1>5, <3>2
  <2>3. Range(bids') = Range(bids) \ {l}
    <3>1. IsInjective(bids)
      BY <1>2, <1>3, SortedApart
    <3>. QED  BY <1>2, <1>6, <2>1, <2>2, <3>1, RemoveFromQueue
  <2>4. \A j, k \in DOMAIN bids' : j < k => limit[bids'[j]] > limit[bids'[k]]
    BY <1>1, <1>2, <1>3, <1>6, <2>1, RemovedSorted
  <2>5. WholeBut(None, None, None)'
    BY <1>1, <1>2, <1>3, <2>3, <2>4, LevelGone
  <2>. QED  BY <1>2, <2>1, <2>5, FinishAlone DEF Answers
<1>8. CASE ~Equal(bids[i], l)
  <2>1. th' = [th EXCEPT ![t].index = i + 1] /\ ~raised' /\ bids' = bids
    BY <1>2, <1>6, <1>8 DEF Drop
  <2>2. Moved(t, "drop", o, l, i + 1)
    <3>. DEFINE r == [th[t] EXCEPT !.index = i + 1]
    <3>1. th[t] \in Thread /\ th[t].at = "drop" /\ i + 1 \in Nat
      BY <1>1, <1>2
    <3>2. r \in Thread /\ r.at = "drop" /\ r.order = o /\ r.level = l /\ r.index = i + 1
      BY <3>1 DEF Thread
    <3>3. th' = [th EXCEPT ![t] = r]
      BY <1>2, <2>1 DEF Thread
    <3>. HIDE DEF r
    <3>. QED  BY <1>2, <3>2, <3>3, Stepping
  <2>3. WholeBut(None, l, None)'
    BY <1>1, <1>3, <2>1, StaysWhole
  <2>4. \A j \in DOMAIN bids : j < i + 1 => bids[j] # l
    BY <1>2, <1>4, <1>6, <1>8 DEF Equal
  <2>5. Relies(t, "drop", o, l, i + 1)'
    BY <1>1, <1>3, <2>1, <2>4 DEF Relies, OrderPlaces, InsertPlaces, TakesOut
  <2>. QED  BY <1>2, <2>1, <2>2, <2>3, <2>5, Onward DEF LevelPlaces
<1>. QED  BY <1>7, <1>8

\* The head of the matching loop.
LEMMA LoopAlone ==
  ASSUME Inv, Serial, TypeOK', Loop
  PROVE  Serial'
<1>. SUFFICES ASSUME ~raced' PROVE Serial'
  BY DEF Serial
<1>1. /\ th[M].at = "match" /\ ~raced /\ M \in Threads
      /\ UNCHANGED <<bookVars, toClose, closing, answer, submitted, raised, raced>>
  BY ThreadsAreTwo DEF Loop, At
<1>2. /\ \A u \in Threads \ {M} : th[u].at = "idle"
      /\ ~raised /\ TypeOK /\ th \in [Threads -> Thread] /\ bids \in Seq(Orders)
      /\ incoming \in [left : Nat, price : Prices \cup {0}]
      /\ MeanwhileBut(M, "match", th[M].order, th[M].level)
  BY <1>1, Inside DEF ElseTyped
<1>3. WholeBut(None, None, None)
  BY <1>2 DEF MeanwhileBut, TakesOut, LevelPlaces, OrderPlaces
<1>4. WholeBut(None, None, None)' /\ ~raised' /\ bids' = bids /\ queue' = queue
  BY <1>1, <1>2, <1>3, StaysWhole DEF bookVars
<1>5. CASE incoming.left = 0 \/ bids = <<>> \/ limit[bids[1]] < incoming.price
  <2>1. th' = [th EXCEPT ![M] = Idle]
    BY <1>5 DEF Loop
  <2>2. Moved(M, "idle", None, None, 0)
    BY <1>1, <1>2, <2>1 DEF Moved, Thread, Places, Idle
  <2>3. Relies(M, "idle", None, None, 0)'
    BY DEF Relies, OrderPlaces, InsertPlaces, TakesOut
  <2>. QED  BY <1>1, <1>2, <1>4, <2>2, <2>3, Onward
<1>6. CASE ~(incoming.left = 0 \/ bids = <<>> \/ limit[bids[1]] < incoming.price)
  <2>. PICK l : l = bids[1]
    OBVIOUS
  <2>1. th' = [th EXCEPT ![M] = [Idle EXCEPT !.at = "pick", !.level = l]]
        /\ incoming' = incoming
    BY <1>6 DEF Loop
  <2>2. l \in Orders
    BY <1>2, <1>6, ElementOfSeq, LenProperties, EmptySeq
  <2>3. Moved(M, "pick", None, l, 0)
    BY <1>1, <1>2, <2>1, <2>2 DEF Moved, Thread, Places, Idle
  <2>4. Relies(M, "pick", None, l, 0)'
    <3>1. incoming.left > 0
      BY <1>2, <1>6
    <3>. QED  BY <1>4, <1>6, <2>1, <3>1 DEF Relies, OrderPlaces, InsertPlaces, TakesOut
  <2>. QED  BY <1>1, <1>2, <1>4, <2>3, <2>4, Onward
<1>. QED  BY <1>5, <1>6

\* The best level has a first order.
LEMMA PickAlone ==
  ASSUME Inv, Serial, TypeOK', Pick
  PROVE  Serial'
<1>. SUFFICES ASSUME ~raced' PROVE Serial'
  BY DEF Serial
<1>. PICK l, i : l = th[M].level /\ i = th[M].index
  OBVIOUS
<1>1. /\ th[M].at = "pick" /\ ~raced /\ M \in Threads
      /\ UNCHANGED <<bookVars, toClose, closing, submitted, raced>>
  BY ThreadsAreTwo DEF Pick, At
<1>2. /\ \A u \in Threads \ {M} : th[u].at = "idle"
      /\ ~raised /\ TypeOK /\ th \in [Threads -> Thread] /\ bids \in Seq(Orders)
      /\ queue \in [Orders -> Seq(Orders)]
      /\ MeanwhileBut(M, "pick", th[M].order, l) /\ Relies(M, "pick", th[M].order, l, i)
      /\ Fits(M, closing, "pick", th[M].order, l, i)
  BY <1>1, Inside DEF ElseTyped
<1>3. /\ WholeBut(None, None, None) /\ bids # <<>> /\ l = bids[1] /\ incoming.left > 0
      /\ l \in Orders
  BY <1>2 DEF MeanwhileBut, TakesOut, LevelPlaces, OrderPlaces, Relies, Fits
<1>4. WholeBut(None, None, None)' /\ bids' = bids /\ queue' = queue /\ mapped' = mapped
  BY <1>1, <1>2, <1>3, StaysWhole DEF bookVars
<1>5. queue[l] # <<>>
  <2>1. l \in Range(bids) /\ l # None
    BY <1>2, <1>3, MemberHasPosition, LenProperties, EmptySeq DEF None
  <2>. QED  BY <1>3, <2>1 DEF WholeBut
<1>6. PICK o : o = Head(queue[l])
  OBVIOUS
<1>7. /\ th' = [th EXCEPT ![M].at = "fill", ![M].order = o]
      /\ UNCHANGED <<incoming, raised>>
  BY <1>5, <1>6 DEF Pick
<1>8. o \in Range(queue[l]) /\ o \in Orders
  <2>1. queue[l] \in Seq(Orders)
    BY <1>2, <1>3
  <2>. QED  BY <1>5, <1>6, <2>1, TailOfQueue, RangeOfSeq
<1>9. o \in mapped
  BY <1>1, <1>3, <1>8 DEF Inv, QueuedIsMapped
<1>10. Moved(M, "fill", o, l, i)
  <2>. DEFINE r == [th[M] EXCEPT !.at = "fill", !.order = o]
  <2>1. r \in Thread /\ r.at = "fill" /\ r.order = o /\ r.level = l /\ r.index = i
    BY <1>1, <1>2, <1>8 DEF Thread, Places
  <2>2. th' = [th EXCEPT ![M] = r]
    BY <1>1, <1>2, <1>7 DEF Thread
  <2>. HIDE DEF r
  <2>. QED  BY <1>1, <1>2, <2>1, <2>2, Stepping
<1>11. Relies(M, "fill", o, l, i)'
  BY <1>3, <1>4, <1>7, <1>8, <1>9 DEF Relies, OrderPlaces, InsertPlaces, TakesOut
<1>. QED  BY <1>1, <1>2, <1>4, <1>7, <1>10, <1>11, Onward

\* order_ids.remove
LEMMA UnlistAlone ==
  ASSUME Inv, Serial, TypeOK', Unlist
  PROVE  Serial'
<1>. SUFFICES ASSUME ~raced' PROVE Serial'
  BY DEF Serial
<1>. PICK o, l, i : o = th[M].order /\ l = th[M].level /\ i = th[M].index
  OBVIOUS
<1>1. /\ th[M].at = "unlist" /\ ~raced /\ M \in Threads
      /\ UNCHANGED <<limit, remaining, bids, queue, total, mapped, toClose, closing,
                     submitted, raced>>
  BY ThreadsAreTwo DEF Unlist, At
<1>2. /\ \A u \in Threads \ {M} : th[u].at = "idle"
      /\ ~raised /\ TypeOK /\ th \in [Threads -> Thread]
      /\ MeanwhileBut(M, "unlist", o, l) /\ Relies(M, "unlist", o, l, i)
  BY <1>1, Inside
<1>3. WholeBut(None, l, o) /\ o \in mapped /\ bids # <<>> /\ l = bids[1]
  BY <1>2 DEF MeanwhileBut, TakesOut, LevelPlaces, OrderPlaces, Relies
<1>4. ids = mapped
  BY <1>1 DEF Inv, TablesAgree
<1>5. th' = Goes(M, "unmap") /\ ~raised'
  BY <1>2, <1>3, <1>4 DEF Unlist
<1>6. Moved(M, "unmap", o, l, i)
  BY <1>1, <1>2, <1>5, Going DEF Places
<1>7. WholeBut(None, l, o)'
  BY <1>1, <1>3, StaysWhole
<1>8. Relies(M, "unmap", o, l, i)'
  BY <1>1, <1>3 DEF Relies, OrderPlaces, InsertPlaces, TakesOut
<1>. QED  BY <1>1, <1>2, <1>5, <1>6, <1>7, <1>8, Onward DEF LevelPlaces, OrderPlaces

\* del order_price_map[...]
LEMMA UnmapAlone ==
  ASSUME Inv, Serial, TypeOK', Unmap
  PROVE  Serial'
<1>. SUFFICES ASSUME ~raced' PROVE Serial'
  BY DEF Serial
<1>. PICK o, l, i : o = th[M].order /\ l = th[M].level /\ i = th[M].index
  OBVIOUS
<1>1. /\ th[M].at = "unmap" /\ ~raced /\ M \in Threads /\ mapped' = mapped \ {o}
      /\ UNCHANGED <<limit, remaining, bids, queue, total, toClose, closing,
                     submitted, raced>>
  BY ThreadsAreTwo DEF Unmap, At
<1>2. /\ \A u \in Threads \ {M} : th[u].at = "idle"
      /\ ~raised /\ TypeOK /\ th \in [Threads -> Thread]
      /\ MeanwhileBut(M, "unmap", o, l) /\ Relies(M, "unmap", o, l, i)
  BY <1>1, Inside
<1>3. WholeBut(None, l, o) /\ o \in mapped /\ bids # <<>> /\ l = bids[1]
  BY <1>2 DEF MeanwhileBut, TakesOut, LevelPlaces, OrderPlaces, Relies
<1>4. WholeBut(None, l, None)'
  BY <1>1, <1>3 DEF WholeBut, Unqueued
<1>5. /\ th' = IF queue[l] = <<>> THEN Goes(M, "pop")
               ELSE [th EXCEPT ![M] = [Idle EXCEPT !.at = "match"]]
      /\ ~raised'
  BY <1>2, <1>3 DEF Unmap
<1>6. CASE queue[l] = <<>>
  <2>1. Moved(M, "pop", o, l, i)
    BY <1>1, <1>2, <1>5, <1>6, Going DEF Places
  <2>2. Relies(M, "pop", o, l, i)'
    BY <1>1, <1>3, <1>6 DEF Relies, OrderPlaces, InsertPlaces, TakesOut
  <2>. QED  BY <1>1, <1>2, <1>4, <1>5, <2>1, <2>2, Onward DEF LevelPlaces
<1>7. CASE queue[l] # <<>>
  <2>1. Moved(M, "match", None, None, 0)
    BY <1>1, <1>2, <1>5, <1>7 DEF Moved, Thread, Places, Idle, None
  <2>2. WholeBut(None, None, None)'
    BY <1>1, <1>4, <1>7 DEF WholeBut
  <2>3. Relies(M, "match", None, None, 0)'
    BY DEF Relies, OrderPlaces, InsertPlaces, TakesOut
  <2>. QED  BY <1>1, <1>2, <1>5, <2>1, <2>2, <2>3, Onward
<1>. QED  BY <1>6, <1>7

\* The first level is the one that has become empty.
LEMMA PopAlone ==
  ASSUME Inv, Serial, TypeOK', Pop
  PROVE  Serial'
<1>. SUFFICES ASSUME ~raced' PROVE Serial'
  BY DEF Serial
<1>. PICK o, l, i : o = th[M].order /\ l = th[M].level /\ i = th[M].index
  OBVIOUS
<1>1. /\ th[M].at = "pop" /\ ~raced /\ M \in Threads
      /\ UNCHANGED <<limit, remaining, queue, total, mapped, ids, toClose, closing,
                     submitted, raced>>
  BY ThreadsAreTwo DEF Pop, At
<1>2. /\ \A u \in Threads \ {M} : th[u].at = "idle"
      /\ ~raised /\ TypeOK /\ th \in [Threads -> Thread] /\ bids \in Seq(Orders)
      /\ limit \in [Orders -> Prices \cup {0}]
      /\ MeanwhileBut(M, "pop", o, l) /\ Relies(M, "pop", o, l, i)
  BY <1>1, Inside DEF ElseTyped
<1>3. WholeBut(None, l, None) /\ bids # <<>> /\ l = bids[1] /\ queue[l] = <<>>
  BY <1>2 DEF MeanwhileBut, TakesOut, LevelPlaces, OrderPlaces, Relies
<1>4. /\ bids' = Tail(bids) /\ ~raised'
      /\ th' = [th EXCEPT ![M] = [Idle EXCEPT !.at = "match"]]
  BY <1>2, <1>3 DEF Pop
<1>5. Range(bids') = Range(bids) \ {l}
  <2>1. IsInjective(bids) /\ Head(bids) = bids[1]
    BY <1>2, <1>3, SortedApart, HeadTailProperties
  <2>. QED  BY <1>2, <1>3, <1>4, <2>1, TailOfQueue
<1>6. \A j, k \in DOMAIN bids' : j < k => limit[bids'[j]] > limit[bids'[k]]
  <2>1. /\ DOMAIN bids' = 1..(Len(bids) - 1) /\ Len(bids) \in Nat
        /\ DOMAIN bids = 1..Len(bids) /\ \A j \in DOMAIN bids' : bids'[j] = bids[j + 1]
    BY <1>2, <1>3, <1>4, HeadTailProperties, LenProperties
  <2>2. \A j, k \in DOMAIN bids' : /\ j + 1 \in DOMAIN bids /\ k + 1 \in DOMAIN bids
                                   /\ j < k => j + 1 < k + 1
    BY <2>1
  <2>. QED  BY <1>3, <2>1, <2>2 DEF WholeBut
<1>7. WholeBut(None, None, None)'
  BY <1>1, <1>2, <1>3, <1>5, <1>6, LevelGone
<1>8. Moved(M, "match", None, None, 0)
  BY <1>1, <1>2, <1>4 DEF Moved, Thread, Places, Idle, None
<1>9. Relies(M, "match", None, None, 0)'
  BY DEF Relies, OrderPlaces, InsertPlaces, TakesOut
<1>. QED  BY <1>1, <1>2, <1>4, <1>7, <1>8, <1>9, Onward

\* A trade takes q from an order and from the total of its level.
LEMMA FilledInWhole ==
  ASSUME TypeOK, QueuedOnce, WholeBut(None, None, None), NEW l \in Orders,
         NEW m \in Range(queue[l]), NEW q \in Nat, q <= remaining[m],
         remaining' \in [Orders -> Nat], remaining'[m] = remaining[m] - q,
         \A x \in Orders \ {m} : remaining'[x] = remaining[x],
         total'[l] = total[l] - q, \A k \in Orders \ {l} : total'[k] = total[k],
         UNCHANGED <<limit, bids, queue, mapped>>,
         NEW f, remaining[m] = q => f = m
  PROVE  WholeBut(f, None, None)'
<1>1. /\ queue \in [Orders -> Seq(Orders)] /\ total \in [Orders -> Int]
      /\ remaining \in [Orders -> Nat] /\ bids \in Seq(Orders)
  BY DEF TypeOK
<1>2. m \in Orders /\ \A k \in Orders : Range(queue[k]) \subseteq Orders
  BY <1>1, RangeOfSeq
<1>3. \A k \in Orders : total'[k] = SumFunctionOnSet(remaining', Range(queue[k]))
  <2>1. \A k \in Orders : total[k] = SumFunctionOnSet(remaining, Range(queue[k]))
    BY DEF WholeBut
  <2>. QED  BY <1>1, <1>2, <2>1, TradedTotals
<1>4. \A k \in Orders : \A x \in Range(queue[k]) :
        limit[x] = limit[k] /\ (remaining'[x] = 0 => x = f)
  <2>1. \A k \in Orders : \A x \in Range(queue[k]) : limit[x] = limit[k] /\ x \in Orders
    BY <1>2 DEF WholeBut
  <2>2. \A k \in Orders : \A x \in Range(queue[k]) : remaining[x] # 0
    BY <1>2 DEF WholeBut, None
  <2>3. remaining'[m] = 0 => f = m
    BY <1>1, <1>2
  <2>. QED  BY <2>1, <2>2, <2>3
<1>. QED  BY <1>3, <1>4 DEF WholeBut, Unqueued

\* A trade.
LEMMA FillAlone ==
  ASSUME Inv, Serial, TypeOK', Fill
  PROVE  Serial'
<1>. SUFFICES ASSUME ~raced' PROVE Serial'
  BY DEF Serial
<1>. PICK m, l, i : m = th[M].order /\ l = th[M].level /\ i = th[M].index
  OBVIOUS
<1>1. /\ th[M].at = "fill" /\ ~raced /\ M \in Threads
      /\ UNCHANGED <<limit, bids, queue, mapped, ids, toClose, closing, submitted, raced>>
  BY ThreadsAreTwo DEF Fill, At
<1>2. /\ \A u \in Threads \ {M} : th[u].at = "idle"
      /\ ~raised /\ TypeOK /\ th \in [Threads -> Thread] /\ bids \in Seq(Orders)
      /\ remaining \in [Orders -> Nat] /\ incoming.left \in Nat
      /\ MeanwhileBut(M, "fill", m, l) /\ Relies(M, "fill", m, l, i)
      /\ Fits(M, closing, "fill", m, l, i)
  BY <1>1, Inside DEF ElseTyped
<1>3. /\ WholeBut(None, None, None) /\ bids # <<>> /\ l = bids[1] /\ incoming.left > 0
      /\ m \in mapped /\ m \in Range(queue[l]) /\ l \in Orders /\ m \in Orders /\ ~closing
  BY <1>2, ThreadsAreTwo
  DEF MeanwhileBut, TakesOut, LevelPlaces, OrderPlaces, Relies, Fits, MatchPlaces
<1>4. remaining[m] > 0
  <2>1. m # None /\ remaining[m] \in Nat
    BY <1>2, <1>3 DEF None
  <2>2. remaining[m] # 0
    BY <1>3, <2>1 DEF WholeBut
  <2>. QED  BY <2>1, <2>2
<1>5. PICK q : q = FillQuantity(m)
  OBVIOUS
<1>6. q \in Nat /\ q > 0 /\ q <= remaining[m]
  <2>1. \A x, y \in Nat : /\ Min({x, y}) \in Nat /\ Min({x, y}) <= y
                          /\ x > 0 /\ y > 0 => Min({x, y}) > 0
    BY SMT DEF Min
  <2>. QED  BY <1>2, <1>3, <1>4, <1>5, <2>1 DEF FillQuantity
<1>7. /\ remaining' = [remaining EXCEPT ![m] = remaining[m] - q]
      /\ total' = [total EXCEPT ![l] = total[l] - q]
      /\ th' = IF remaining[m] = q THEN Goes(M, "enter")
               ELSE [th EXCEPT ![M] = [Idle EXCEPT !.at = "match"]]
      /\ ~raised'
  BY <1>2, <1>5, <1>6 DEF Fill
<1>8. PICK f : f = IF remaining[m] = q THEN m ELSE None
  OBVIOUS
<1>9. WholeBut(f, None, None)'
  <2>1. remaining[m] - q \in Nat
    BY <1>2, <1>3, <1>6
  <2>2. /\ remaining' \in [Orders -> Nat] /\ remaining'[m] = remaining[m] - q
        /\ \A x \in Orders \ {m} : remaining'[x] = remaining[x]
    BY <1>2, <1>3, <1>7, <2>1
  <2>3. /\ TypeOK /\ QueuedOnce /\ WholeBut(None, None, None)
        /\ l \in Orders /\ m \in Range(queue[l]) /\ q \in Nat /\ q <= remaining[m]
        /\ total' = [total EXCEPT ![l] = total[l] - q]
        /\ UNCHANGED <<limit, bids, queue, mapped>>
    BY <1>1, <1>3, <1>6, <1>7 DEF Inv
  <2>4. remaining[m] = q => f = m
    BY <1>8
  <2>5. total'[l] = total[l] - q /\ \A k \in Orders \ {l} : total'[k] = total[k]
    <3>1. DOMAIN total = Orders
      BY <2>3 DEF TypeOK
    <3>2. l \in Orders /\ total' = [total EXCEPT ![l] = total[l] - q]
      BY <2>3
    <3>. QED  BY <3>1, <3>2
  <2>6. UNCHANGED <<limit, bids, queue, mapped>>
    BY <2>3
  <2>7. TypeOK /\ QueuedOnce /\ WholeBut(None, None, None) /\ q \in Nat
    BY <2>3
  <2>8. l \in Orders /\ m \in Range(queue[l]) /\ q <= remaining[m]
    BY <2>3
  <2>. QED  BY <2>2, <2>4, <2>5, <2>6, <2>7, <2>8, FilledInWhole
<1>10. CASE remaining[m] = q
  <2>1. Moved(M, "enter", m, l, i)
    BY <1>1, <1>2, <1>7, <1>10, Going DEF Places
  <2>2. remaining'[m] = 0
    <3>1. remaining'[m] = remaining[m] - q
      BY <1>2, <1>3, <1>7
    <3>. QED  BY <1>2, <1>3, <1>10, <3>1
  <2>3. l \in Range(bids) /\ TakesOut(M, "enter")'
    BY <1>1, <1>2, <1>3, MemberHasPosition, LenProperties, EmptySeq DEF TakesOut
  <2>4. Relies(M, "enter", m, l, i)'
    BY <1>1, <1>3, <2>2, <2>3 DEF Relies, OrderPlaces, InsertPlaces
  <2>. QED  BY <1>1, <1>2, <1>7, <1>8, <1>9, <1>10, <2>1, <2>3, <2>4, Onward
<1>11. CASE remaining[m] # q
  <2>1. Moved(M, "match", None, None, 0)
    BY <1>1, <1>2, <1>7, <1>11 DEF Moved, Thread, Places, Idle, None
  <2>2. Relies(M, "match", None, None, 0)'
    BY DEF Relies, OrderPlaces, InsertPlaces, TakesOut
  <2>. QED  BY <1>1, <1>2, <1>7, <1>8, <1>9, <1>11, <2>1, <2>2, Onward
<1>. QED  BY <1>10, <1>11

\* The loop over the levels in _insert_order.
LEMMA PlaceAlone ==
  ASSUME Inv, Serial, TypeOK', Place
  PROVE  Serial'
<1>. SUFFICES ASSUME ~raced' PROVE Serial'
  BY DEF Serial
<1>. PICK o, k, i : o = th[M].order /\ k = th[M].level /\ i = th[M].index
  OBVIOUS
<1>1. /\ th[M].at = "place" /\ ~raced /\ M \in Threads
      /\ UNCHANGED <<bookVars, ctlVars>>
  BY ThreadsAreTwo DEF Place, At, ctlVars
<1>2. /\ \A u \in Threads \ {M} : th[u].at = "idle"
      /\ ~raised /\ TypeOK /\ th \in [Threads -> Thread] /\ bids \in Seq(Orders)
      /\ MeanwhileBut(M, "place", o, k) /\ Relies(M, "place", o, k, i)
      /\ Fits(M, closing, "place", o, k, i) /\ i \in Nat
  BY <1>1, Inside DEF ElseTyped
<1>3. /\ WholeBut(None, None, None) /\ remaining[o] > 0 /\ o \in Orders /\ i >= 1
      /\ \A j \in DOMAIN bids : j < i => limit[bids[j]] # limit[o]
      /\ DOMAIN bids = 1..Len(bids) /\ Len(bids) \in Nat
  BY <1>2, LenProperties
  DEF MeanwhileBut, TakesOut, LevelPlaces, OrderPlaces, Relies, InsertPlaces, Fits
<1>4. WholeBut(None, None, None)' /\ ~raised' /\ UNCHANGED <<bids, limit, remaining>>
  BY <1>1, <1>2, <1>3, StaysWhole DEF bookVars, ctlVars
<1>5. CASE i > Len(bids)
  <2>1. th' = [th EXCEPT ![M] = [@ EXCEPT !.at = "position", !.index = 0]]
    BY <1>5 DEF Place
  <2>2. Moved(M, "position", o, k, 0)
    <3>1. "position" \in Places
      BY DEF Places
    <3>. QED  BY <1>1, <1>2, <2>1, <3>1 DEF Moved, Thread
  <2>3. Relies(M, "position", o, k, 0)'
    <3>1. \A j \in DOMAIN bids : limit[bids[j]] # limit[o]
      BY <1>2, <1>3, <1>5
    <3>. QED  BY <1>3, <1>4, <3>1 DEF Relies, OrderPlaces, TakesOut
  <2>. QED  BY <1>1, <1>2, <1>4, <2>2, <2>3, Onward
<1>6. CASE ~(i > Len(bids)) /\ limit[bids[i]] = limit[o]
  <2>. PICK l : l = bids[i]
    OBVIOUS
  <2>1. th' = [th EXCEPT ![M] = [@ EXCEPT !.at = "append", !.level = l, !.index = 0]]
    BY <1>6 DEF Place
  <2>2. l \in Range(bids) /\ l \in Orders
    BY <1>2, <1>3, <1>6, ElementOfSeq, MemberHasPosition
  <2>3. Moved(M, "append", o, l, 0)
    <3>. DEFINE r == [th[M] EXCEPT !.at = "append", !.level = l, !.index = 0]
    <3>1. th[M] \in Thread /\ "append" \in Places /\ l \in Orders
      BY <1>1, <1>2, <2>2 DEF Places
    <3>2. r \in Thread /\ r.at = "append" /\ r.order = o /\ r.level = l /\ r.index = 0
      BY <3>1 DEF Thread
    <3>3. th' = [th EXCEPT ![M] = r]
      BY <1>1, <1>2, <2>1 DEF Thread
    <3>. HIDE DEF r
    <3>. QED  BY <1>1, <1>2, <3>2, <3>3, Stepping
  <2>4. Relies(M, "append", o, l, 0)'
    BY <1>3, <1>4, <1>6, <2>2 DEF Relies, OrderPlaces, TakesOut
  <2>. QED  BY <1>1, <1>2, <1>4, <2>3, <2>4, Onward
<1>7. CASE ~(i > Len(bids)) /\ limit[bids[i]] # limit[o]
  <2>1. th' = [th EXCEPT ![M] = [@ EXCEPT !.index = i + 1]]
    BY <1>7 DEF Place
  <2>2. Moved(M, "place", o, k, i + 1)
    <3>. DEFINE r == [th[M] EXCEPT !.index = i + 1]
    <3>1. th[M] \in Thread /\ th[M].at = "place" /\ i + 1 \in Nat
      BY <1>1, <1>2
    <3>2. r \in Thread /\ r.at = "place" /\ r.order = o /\ r.level = k /\ r.index = i + 1
      BY <3>1 DEF Thread
    <3>3. th' = [th EXCEPT ![M] = r]
      BY <1>1, <1>2, <2>1 DEF Thread
    <3>. HIDE DEF r
    <3>. QED  BY <1>1, <1>2, <3>2, <3>3, Stepping
  <2>3. \A j \in DOMAIN bids : j < i + 1 => limit[bids[j]] # limit[o]
    BY <1>2, <1>3, <1>7
  <2>4. Relies(M, "place", o, k, i + 1)'
    BY <1>3, <1>4, <2>3 DEF Relies, OrderPlaces, TakesOut
  <2>. QED  BY <1>1, <1>2, <1>4, <2>2, <2>4, Onward
<1>. QED  BY <1>5, <1>6, <1>7

\* bisect_left finds the one place where the order's price fits.
LEMMA PositionAlone ==
  ASSUME Inv, Serial, TypeOK', Position
  PROVE  Serial'
<1>. SUFFICES ASSUME ~raced' PROVE Serial'
  BY DEF Serial
<1>. PICK o, l : o = th[M].order /\ l = th[M].level
  OBVIOUS
<1>1. /\ th[M].at = "position" /\ ~raced /\ M \in Threads
      /\ UNCHANGED <<bookVars, ctlVars>>
  BY ThreadsAreTwo DEF Position, At, ctlVars
<1>2. /\ \A u \in Threads \ {M} : th[u].at = "idle"
      /\ ~raised /\ TypeOK /\ th \in [Threads -> Thread] /\ bids \in Seq(Orders)
      /\ limit \in [Orders -> Prices \cup {0}]
      /\ MeanwhileBut(M, "position", o, l) /\ Relies(M, "position", o, l, th[M].index)
      /\ Fits(M, closing, "position", o, l, th[M].index)
  BY <1>1, Inside DEF ElseTyped
<1>3. /\ WholeBut(None, None, None) /\ remaining[o] > 0 /\ o \in Orders
      /\ \A j \in DOMAIN bids : limit[bids[j]] # limit[o]
      /\ DOMAIN bids = 1..Len(bids) /\ Len(bids) \in Nat
  BY <1>2, LenProperties
  DEF MeanwhileBut, TakesOut, LevelPlaces, OrderPlaces, Relies, InsertPlaces, Fits
<1>4. WholeBut(None, None, None)' /\ ~raised' /\ UNCHANGED <<bids, limit, remaining>>
  BY <1>1, <1>2, <1>3, StaysWhole DEF bookVars, ctlVars
<1>5. PICK k \in 1..Len(bids) + 1 :
        /\ k > 1 => limit[bids[k - 1]] > limit[o]
        /\ k <= Len(bids) => limit[bids[k]] <= limit[o]
        /\ th' = [th EXCEPT ![M].at = "insert", ![M].index = k]
  BY DEF Position
<1>6. Moved(M, "insert", o, l, k)
  <2>. DEFINE r == [th[M] EXCEPT !.at = "insert", !.index = k]
  <2>1. th[M] \in Thread /\ k \in Nat
    BY <1>1, <1>2, <1>3
  <2>2. r \in Thread /\ r.at = "insert" /\ r.order = o /\ r.level = l /\ r.index = k
    BY <2>1 DEF Thread, Places
  <2>3. th' = [th EXCEPT ![M] = r]
    BY <1>1, <1>2, <1>5 DEF Thread
  <2>. HIDE DEF r
  <2>. QED  BY <1>1, <1>2, <2>2, <2>3, Stepping
<1>7. ASSUME NEW j \in DOMAIN bids
      PROVE  IF j < k THEN limit[bids[j]] > limit[o] ELSE limit[bids[j]] < limit[o]
  <2>1. /\ \A x \in DOMAIN bids : limit[bids[x]] \in Nat
        /\ limit[o] \in Nat
    <3>1. Prices \cup {0} \subseteq Nat
      BY PricesAssumption
    <3>2. \A x \in DOMAIN bids : bids[x] \in Orders
      BY <1>2, <1>3, ElementOfSeq
    <3>. QED  BY <1>2, <1>3, <3>1, <3>2
  <2>2. \A x, y \in DOMAIN bids : x < y => limit[bids[x]] > limit[bids[y]]
    BY <1>3 DEF WholeBut
  <2>3. CASE j < k
    <3>1. k - 1 \in DOMAIN bids /\ k > 1 /\ (j = k - 1 \/ j < k - 1)
      BY <1>3, <2>3
    <3>2. j < k - 1 => limit[bids[j]] > limit[bids[k - 1]]
      BY <2>2, <3>1
    <3>3. limit[bids[k - 1]] > limit[o] /\ limit[bids[k - 1]] \in Nat
      BY <1>5, <2>1, <3>1
    <3>. QED  BY <2>1, <2>3, <3>1, <3>2, <3>3
  <2>4. CASE ~(j < k)
    <3>1. k \in DOMAIN bids /\ k <= Len(bids) /\ (j = k \/ k < j)
      BY <1>3, <2>4
    <3>2. k < j => limit[bids[k]] > limit[bids[j]]
      BY <2>2, <3>1
    <3>3. limit[bids[k]] <= limit[o] /\ limit[bids[k]] # limit[o] /\ limit[bids[k]] \in Nat
      BY <1>3, <1>5, <2>1, <3>1
    <3>. QED  BY <2>1, <2>4, <3>1, <3>2, <3>3
  <2>. QED  BY <2>3, <2>4
<1>8. Relies(M, "insert", o, l, k)'
  <2>1. k <= Len(bids) + 1
    BY <1>3
  <2>. QED  BY <1>3, <1>4, <1>7, <2>1 DEF Relies, OrderPlaces, TakesOut
<1>. QED  BY <1>1, <1>2, <1>4, <1>6, <1>8, Onward

\* A new level goes to its place in the sorted list.
LEMMA InsertLevelAlone ==
  ASSUME Inv, Serial, TypeOK', InsertLevel
  PROVE  Serial'
<1>. SUFFICES ASSUME ~raced' PROVE Serial'
  BY DEF Serial
<1>. PICK o, l, k : o = th[M].order /\ l = th[M].level /\ k = th[M].index
  OBVIOUS
<1>1. /\ th[M].at = "insert" /\ ~raced /\ M \in Threads
      /\ bids' = IF k > Len(bids) THEN Append(bids, o) ELSE InsertAt(bids, k, o)
      /\ th' = [th EXCEPT ![M].at = "append", ![M].level = o, ![M].index = 0]
      /\ UNCHANGED <<limit, remaining, queue, total, mapped, ids, ctlVars>>
  BY ThreadsAreTwo DEF InsertLevel, At, ctlVars
<1>2. /\ \A u \in Threads \ {M} : th[u].at = "idle"
      /\ ~raised /\ TypeOK /\ th \in [Threads -> Thread] /\ bids \in Seq(Orders)
      /\ MeanwhileBut(M, "insert", o, l) /\ Relies(M, "insert", o, l, k)
      /\ Fits(M, closing, "insert", o, l, k) /\ k \in Nat
  BY <1>1, Inside DEF ElseTyped
<1>3. /\ WholeBut(None, None, None) /\ remaining[o] > 0 /\ o \in Orders
      /\ k >= 1 /\ k <= Len(bids) + 1 /\ DOMAIN bids = 1..Len(bids) /\ Len(bids) \in Nat
      /\ \A j \in DOMAIN bids : IF j < k THEN limit[bids[j]] > limit[o]
                                ELSE limit[bids[j]] < limit[o]
  BY <1>2, LenProperties
  DEF MeanwhileBut, TakesOut, LevelPlaces, OrderPlaces, Relies, InsertPlaces, Fits
<1>4. PICK s, t : s = bids /\ t = bids'
  OBVIOUS
<1>5. /\ t \in Seq(Orders) /\ Len(t) = Len(s) + 1
      /\ \A j \in 1..(Len(s) + 1) :
           t[j] = IF j < k THEN s[j] ELSE IF j = k THEN o ELSE s[j - 1]
      /\ Range(t) = Range(s) \cup {o}
  <2>1. s \in Seq(Orders) /\ k \in 1..Len(s) + 1 /\ t = Inserted(s, k, o)
    BY <1>1, <1>2, <1>3, <1>4 DEF Inserted
  <2>2. o \in Orders
    BY <1>3
  <2>3. t \in Seq(Orders) /\ Len(t) = Len(s) + 1 /\ Range(t) = Range(s) \cup {o}
    BY <2>1, <2>2, OneMoreLevel
  <2>4. \A j \in 1..(Len(s) + 1) :
          t[j] = IF j < k THEN s[j] ELSE IF j = k THEN o ELSE s[j - 1]
    <3>1. Len(s) \in Nat
      BY <1>3, <1>4
    <3>. QED  BY <2>1, <2>2, <3>1, OneMoreLevel
  <2>. QED  BY <2>3, <2>4
<1>6. DOMAIN t = 1..(Len(s) + 1) /\ Len(s) \in Nat /\ DOMAIN s = 1..Len(s)
  BY <1>3, <1>4, <1>5, LenProperties
<1>7. ASSUME NEW i \in DOMAIN t, NEW j \in DOMAIN t, i < j
      PROVE  limit[t[i]] > limit[t[j]]
  <2>1. /\ \A x, y \in DOMAIN s : x < y => limit[s[x]] > limit[s[y]]
        /\ \A x \in DOMAIN s : IF x < k THEN limit[s[x]] > limit[o]
                                ELSE limit[s[x]] < limit[o]
    BY <1>3, <1>4 DEF WholeBut
  <2>2. /\ t[i] = IF i < k THEN s[i] ELSE IF i = k THEN o ELSE s[i - 1]
        /\ t[j] = IF j < k THEN s[j] ELSE IF j = k THEN o ELSE s[j - 1]
    BY <1>5, <1>6
  <2>3. CASE i = k
    <3>1. j - 1 \in DOMAIN s /\ ~(j - 1 < k) /\ ~(j < k) /\ j # k
      BY <1>6, <1>7, <2>3
    <3>2. t[i] = o /\ t[j] = s[j - 1]
      BY <1>2, <2>2, <2>3, <3>1
    <3>3. limit[s[j - 1]] < limit[o]
      BY <2>1, <3>1
    <3>. QED  BY <3>2, <3>3
  <2>4. CASE j = k
    <3>1. i \in DOMAIN s /\ i < k
      BY <1>3, <1>4, <1>6, <1>7, <2>4
    <3>2. t[i] = s[i] /\ t[j] = o
      BY <1>2, <2>2, <2>4, <3>1
    <3>. QED  BY <2>1, <3>1, <3>2
  <2>5. CASE i # k /\ j # k
    <3>. PICK x, y : x = (IF i < k THEN i ELSE i - 1) /\ y = (IF j < k THEN j ELSE j - 1)
      OBVIOUS
    <3>1. x \in DOMAIN s /\ y \in DOMAIN s /\ x < y
      BY <1>2, <1>3, <1>4, <1>6, <1>7, <2>5
    <3>2. t[i] = s[x] /\ t[j] = s[y]
      BY <2>2, <2>5
    <3>. QED  BY <2>1, <3>1, <3>2
  <2>. QED  BY <2>3, <2>4, <2>5
<1>8. WholeBut(None, o, None)'
  <2>1. \A i, j \in DOMAIN bids' : i < j => limit'[bids'[i]] > limit'[bids'[j]]
    BY <1>1, <1>4, <1>7
  <2>2. Range(bids') = Range(bids) \cup {o}
    BY <1>4, <1>5
  <2>3. \A k1 \in Range(bids') : queue'[k1] = <<>> => k1 = o
    <3>1. \A k1 \in Range(bids) : queue[k1] # <<>>
      BY <1>2, RangeOfSeq, <1>3 DEF WholeBut, None
    <3>. QED  BY <1>1, <2>2, <3>1
  <2>. QED  BY <1>1, <1>3, <2>1, <2>2, <2>3 DEF WholeBut, Unqueued
<1>9. Moved(M, "append", o, o, 0)
  BY <1>1, <1>2, <1>3 DEF Moved, Thread, Places
<1>10. Relies(M, "append", o, o, 0)'
  BY <1>1, <1>3, <1>4, <1>5 DEF Relies, OrderPlaces, TakesOut
<1>11. ~raised'
  BY <1>1, <1>2 DEF ctlVars
<1>. QED  BY <1>1, <1>2, <1>8, <1>9, <1>10, <1>11, Onward DEF LevelPlaces

\* The order joins the queue of its price.
LEMMA JoinedToWhole ==
  ASSUME TypeOK, NEW l \in Orders, WholeBut(None, l, None), l \in Range(bids),
         NEW o \in Orders, Unqueued(o), limit[o] = limit[l], remaining[o] > 0,
         queue' = [queue EXCEPT ![l] = Append(queue[l], o)],
         total' = [total EXCEPT ![l] = total[l] + remaining[o]],
         UNCHANGED <<limit, remaining, bids, mapped>>
  PROVE  WholeBut(None, None, None)' /\ ~Unqueued(o)'
<1>1. /\ queue \in [Orders -> Seq(Orders)] /\ total \in [Orders -> Int]
      /\ remaining \in [Orders -> Nat] /\ bids \in Seq(Orders) /\ mapped \subseteq Orders
  BY DEF TypeOK
<1>2. PICK s, t : s = queue[l] /\ t = Append(queue[l], o)
  OBVIOUS
<1>3. /\ s \in Seq(Orders) /\ t \in Seq(Orders) /\ Range(t) = Range(s) \cup {o} /\ t # <<>>
  <2>1. s \in Seq(Orders) /\ t = Append(s, o)
    BY <1>1, <1>2
  <2>2. Range(t) # {} => t # <<>>
    BY DEF Range
  <2>. QED  BY <2>1, <2>2, AppendToQueue
<1>4. /\ queue'[l] = t /\ \A k \in Orders \ {l} : queue'[k] = queue[k]
      /\ total'[l] = total[l] + remaining[o]
      /\ \A k \in Orders \ {l} : total'[k] = total[k]
  BY <1>1, <1>2
<1>5. total'[l] = SumFunctionOnSet(remaining, Range(t))
  <2>. PICK S : S = Range(s)
    OBVIOUS
  <2>1. IsFiniteSet(S) /\ S \subseteq Orders /\ o \notin S
    BY <1>2, <1>3, RangeIsFinite, RangeOfSeq DEF Unqueued
  <2>2. \A y \in S \cup {o} : remaining[y] \in Int
    BY <1>1, <2>1
  <2>3. SumFunctionOnSet(remaining, S \cup {o}) = SumFunctionOnSet(remaining, S) + remaining[o]
    BY <2>1, <2>2, SumAdd
  <2>4. total[l] = SumFunctionOnSet(remaining, S)
    BY <1>2 DEF WholeBut
  <2>. QED  BY <1>3, <1>4, <2>3, <2>4
<1>6. \A k \in Orders : total'[k] = SumFunctionOnSet(remaining', Range(queue'[k]))
  <2>1. \A k \in Orders : total[k] = SumFunctionOnSet(remaining, Range(queue[k]))
    BY DEF WholeBut
  <2>. QED  BY <1>4, <1>5, <2>1
<1>7. \A k \in Orders : queue'[k] # <<>> => k \in Range(bids')
  BY <1>4 DEF WholeBut
<1>8. \A k \in Range(bids') : queue'[k] = <<>> => k = None
  <2>1. \A k \in Range(bids) : k \in Orders
    BY <1>1, RangeOfSeq
  <2>. QED  BY <1>3, <1>4, <2>1 DEF WholeBut
<1>9. \A k \in Orders : \A x \in Range(queue'[k]) :
        limit'[x] = limit'[k] /\ (remaining'[x] = 0 => x = None)
  <2>1. ASSUME NEW k \in Orders, NEW x \in Range(queue'[k])
        PROVE  limit[x] = limit[k] /\ (remaining[x] = 0 => x = None)
    <3>1. CASE k # l
      BY <1>4, <3>1, <2>1 DEF WholeBut
    <3>2. CASE k = l /\ x # o
      BY <1>2, <1>3, <1>4, <3>2, <2>1 DEF WholeBut
    <3>3. CASE k = l /\ x = o
      BY <3>3
    <3>. QED  BY <3>1, <3>2, <3>3
  <2>. QED  BY <2>1
<1>10. \A k \in Orders : Range(queue[k]) \subseteq Range(queue'[k])
  BY <1>2, <1>3, <1>4
<1>11. \A x \in mapped' : Unqueued(x)' => x = None
  BY <1>1, <1>10 DEF WholeBut, Unqueued
<1>12. ~Unqueued(o)'
  BY <1>3, <1>4 DEF Unqueued
<1>13. \A i, j \in DOMAIN bids' : i < j => limit'[bids'[i]] > limit'[bids'[j]]
  BY DEF WholeBut
<1>. QED  BY <1>6, <1>7, <1>8, <1>9, <1>11, <1>12, <1>13 DEF WholeBut

\* add_order.
LEMMA AppendOrderAlone ==
  ASSUME Inv, Serial, TypeOK', AppendOrder
  PROVE  Serial'
<1>. SUFFICES ASSUME ~raced' PROVE Serial'
  BY DEF Serial
<1>. PICK o, l, i : o = th[M].order /\ l = th[M].level /\ i = th[M].index
  OBVIOUS
<1>1. /\ th[M].at = "append" /\ ~raced /\ M \in Threads
      /\ queue' = [queue EXCEPT ![l] = Append(queue[l], o)]
      /\ total' = [total EXCEPT ![l] = total[l] + remaining[o]]
      /\ th' = Mutated(M, l, Goes(M, "index"))
      /\ UNCHANGED <<limit, remaining, bids, mapped, ids, ctlVars>>
  BY ThreadsAreTwo DEF AppendOrder, At, ctlVars
<1>2. /\ \A u \in Threads \ {M} : th[u].at = "idle"
      /\ ~raised /\ TypeOK /\ th \in [Threads -> Thread]
      /\ MeanwhileBut(M, "append", o, l) /\ Relies(M, "append", o, l, i)
      /\ Fits(M, closing, "append", o, l, i)
  BY <1>1, Inside
<1>3. /\ WholeBut(None, l, None) /\ l \in Range(bids) /\ limit[l] = limit[o]
      /\ remaining[o] > 0 /\ o \in Orders /\ l \in Orders /\ Unqueued(o)
  BY <1>2 DEF MeanwhileBut, TakesOut, LevelPlaces, OrderPlaces, Relies, InsertPlaces, Fits
<1>4. WholeBut(None, None, None)' /\ ~Unqueued(o)'
  BY <1>1, <1>2, <1>3, JoinedToWhole
<1>5. Moved(M, "index", o, l, i) /\ ~raised'
  <2>1. Moved(M, "index", o, l, i)
    BY <1>1, <1>2, GoingAndMutating DEF Places
  <2>. QED  BY <1>1, <1>2, <2>1 DEF ctlVars
<1>6. Relies(M, "index", o, l, i)'
  BY <1>1, <1>3, <1>4 DEF Relies, OrderPlaces, TakesOut
<1>. QED  BY <1>1, <1>2, <1>4, <1>5, <1>6, Onward

\* The tables learn of the order.
LEMMA IndexAlone ==
  ASSUME Inv, Serial, TypeOK', Index
  PROVE  Serial'
<1>. SUFFICES ASSUME ~raced' PROVE Serial'
  BY DEF Serial
<1>. PICK o, l, i : o = th[M].order /\ l = th[M].level /\ i = th[M].index
  OBVIOUS
<1>1. /\ th[M].at = "index" /\ ~raced /\ M \in Threads /\ mapped' = mapped \cup {o}
      /\ th' = [th EXCEPT ![M] = Idle]
      /\ UNCHANGED <<limit, remaining, bids, queue, total, ctlVars>>
  BY ThreadsAreTwo DEF Index, At, ctlVars
<1>2. /\ \A u \in Threads \ {M} : th[u].at = "idle"
      /\ ~raised /\ TypeOK /\ th \in [Threads -> Thread]
      /\ MeanwhileBut(M, "index", o, l) /\ Relies(M, "index", o, l, i)
  BY <1>1, Inside
<1>3. WholeBut(None, None, None) /\ ~Unqueued(o)
  BY <1>2 DEF MeanwhileBut, TakesOut, LevelPlaces, OrderPlaces, Relies
<1>4. WholeBut(None, None, None)'
  BY <1>1, <1>3 DEF WholeBut, Unqueued
<1>5. Moved(M, "idle", None, None, 0) /\ ~raised'
  <2>1. Moved(M, "idle", None, None, 0)
    BY <1>1, <1>2 DEF Moved, Thread, Places, Idle
  <2>. QED  BY <1>1, <1>2, <2>1 DEF ctlVars
<1>6. Relies(M, "idle", None, None, 0)'
  BY DEF Relies, OrderPlaces, InsertPlaces, TakesOut
<1>. QED  BY <1>1, <1>2, <1>4, <1>5, <1>6, Onward

\* A call that begins in a book that stays without a race finds nobody in it.
LEMMA BeginsAlone ==
  ASSUME Inv, Serial, NEW t \in Threads, th[t].at = "idle", NEW a \in Places,
         NEW o \in Orders \cup {None}, Begins(t, a, o), ~raced'
  PROVE  /\ \A u \in Threads : th[u].at = "idle"
         /\ ~raised /\ ~raced /\ WholeBut(None, None, None)
         /\ Moved(t, a, o, None, 1)
<1>1. ~raced /\ th[Other(t)].at \in {"idle", "dead"}
  BY DEF Begins
<1>2. Quiet
  BY <1>1, ThreadsAreTwo DEF Quiet, Other, M, V
<1>3. Moved(t, a, o, None, 1)
  BY Beginning DEF Inv
<1>. QED  BY <1>1, <1>2, <1>3, WholeAtRest

\* The validator begins a cancellation.
LEMMA StartCancelAlone ==
  ASSUME Inv, Serial, TypeOK', NEW o \in Orders, StartCancel(o)
  PROVE  Serial'
<1>1. /\ th[V].at = "idle" /\ V \in Threads
      /\ UNCHANGED <<bookVars, incoming, toClose, closing, submitted, raised>>
  BY ThreadsAreTwo DEF StartCancel, At, V
<1>2. CASE o \in mapped
  <2>. SUFFICES ASSUME ~raced' PROVE Serial'
    BY DEF Serial
  <2>1. Begins(V, "seek", o)
    BY <1>2 DEF StartCancel, V
  <2>2. /\ \A u \in Threads : th[u].at = "idle"
        /\ ~raised /\ WholeBut(None, None, None) /\ Moved(V, "seek", o, None, 1)
    BY <1>1, <2>1, BeginsAlone DEF Places
  <2>3. WholeBut(None, None, None)' /\ ~raised'
    BY <1>1, <2>2, StaysWhole DEF bookVars
  <2>4. Relies(V, "seek", o, None, 1)'
    BY DEF Relies, OrderPlaces, InsertPlaces, TakesOut
  <2>. QED  BY <1>1, <2>2, <2>3, <2>4, Onward
<1>3. CASE o \notin mapped
  <2>1. UNCHANGED <<th, raced>>
    BY <1>3 DEF StartCancel
  <2>. QED  BY <1>1, <2>1
       DEF Serial, Lonely, MeanwhileBut, WholeBut, Relies, TakesOut, Unqueued, bookVars
<1>. QED  BY <1>2, <1>3

\* A sell order comes.
LEMMA StartMatchAlone ==
  ASSUME Inv, Serial, TypeOK', NEW p \in Prices, NEW q \in SellQuantities, StartMatch(p, q)
  PROVE  Serial'
<1>. SUFFICES ASSUME ~raced' PROVE Serial'
  BY DEF Serial
<1>1. /\ th[M].at = "idle" /\ M \in Threads /\ Begins(M, "match", None)
      /\ UNCHANGED <<bookVars, toClose, closing, answer, raised>>
  BY ThreadsAreTwo DEF StartMatch, At
<1>2. /\ \A u \in Threads : th[u].at = "idle"
      /\ ~raised /\ WholeBut(None, None, None) /\ Moved(M, "match", None, None, 1)
  BY <1>1, BeginsAlone DEF Places
<1>3. WholeBut(None, None, None)' /\ ~raised'
  BY <1>1, <1>2, StaysWhole DEF bookVars
<1>4. Relies(M, "match", None, None, 1)'
  BY DEF Relies, OrderPlaces, InsertPlaces, TakesOut
<1>. QED  BY <1>1, <1>2, <1>3, <1>4, Onward

\* The market closes.
LEMMA StartCloseAlone ==
  ASSUME Inv, Serial, TypeOK', StartClose
  PROVE  Serial'
<1>. SUFFICES ASSUME ~raced' PROVE Serial'
  BY DEF Serial
<1>1. /\ th[M].at = "idle" /\ M \in Threads /\ Begins(M, "collect", None)
      /\ UNCHANGED <<bookVars, incoming, toClose, answer, raised>>
  BY ThreadsAreTwo DEF StartClose, At
<1>2. /\ \A u \in Threads : th[u].at = "idle"
      /\ ~raised /\ WholeBut(None, None, None) /\ Moved(M, "collect", None, None, 1)
  BY <1>1, BeginsAlone DEF Places
<1>3. WholeBut(None, None, None)' /\ ~raised'
  BY <1>1, <1>2, StaysWhole DEF bookVars
<1>4. Relies(M, "collect", None, None, 1)'
  BY DEF Relies, OrderPlaces, InsertPlaces, TakesOut
<1>. QED  BY <1>1, <1>2, <1>3, <1>4, Onward

\* all_orders grows.
LEMMA CollectAlone ==
  ASSUME Inv, Serial, TypeOK', Collect
  PROVE  Serial'
<1>. SUFFICES ASSUME ~raced' PROVE Serial'
  BY DEF Serial
<1>. PICK o, l, i : o = th[M].order /\ l = th[M].level /\ i = th[M].index
  OBVIOUS
<1>1. /\ th[M].at = "collect" /\ ~raced /\ M \in Threads
      /\ UNCHANGED <<bookVars, incoming, closing, answer, submitted, raised, raced>>
  BY ThreadsAreTwo DEF Collect, At
<1>2. /\ \A u \in Threads \ {M} : th[u].at = "idle"
      /\ ~raised /\ th \in [Threads -> Thread] /\ i \in Nat
      /\ MeanwhileBut(M, "collect", o, l)
  BY <1>1, Inside
<1>3. WholeBut(None, None, None)
  BY <1>2 DEF MeanwhileBut, TakesOut, LevelPlaces, OrderPlaces
<1>4. WholeBut(None, None, None)' /\ ~raised'
  BY <1>1, <1>2, <1>3, StaysWhole DEF bookVars
<1>5. CASE i > Len(bids)
  <2>1. th' = [th EXCEPT ![M] = [Idle EXCEPT !.at = "close"]]
    BY <1>5 DEF Collect
  <2>2. Moved(M, "close", None, None, 0)
    BY <1>1, <1>2, <2>1 DEF Moved, Thread, Places, Idle, None
  <2>3. Relies(M, "close", None, None, 0)'
    BY DEF Relies, OrderPlaces, InsertPlaces, TakesOut
  <2>. QED  BY <1>1, <1>2, <1>4, <2>2, <2>3, Onward
<1>6. CASE ~(i > Len(bids))
  <2>1. th' = [th EXCEPT ![M].index = i + 1]
    BY <1>6 DEF Collect
  <2>2. Moved(M, "collect", o, l, i + 1)
    <3>. DEFINE r == [th[M] EXCEPT !.index = i + 1]
    <3>1. th[M] \in Thread /\ th[M].at = "collect" /\ i + 1 \in Nat
      BY <1>1, <1>2
    <3>2. r \in Thread /\ r.at = "collect" /\ r.order = o /\ r.level = l /\ r.index = i + 1
      BY <3>1 DEF Thread
    <3>3. th' = [th EXCEPT ![M] = r]
      BY <1>1, <1>2, <2>1 DEF Thread
    <3>. HIDE DEF r
    <3>. QED  BY <1>1, <1>2, <3>2, <3>3, Stepping
  <2>3. Relies(M, "collect", o, l, i + 1)'
    BY DEF Relies, OrderPlaces, InsertPlaces, TakesOut
  <2>. QED  BY <1>1, <1>2, <1>4, <2>2, <2>3, Onward
<1>. QED  BY <1>5, <1>6

\* The next collected order.
LEMMA CloseNextAlone ==
  ASSUME Inv, Serial, TypeOK', CloseNext
  PROVE  Serial'
<1>. SUFFICES ASSUME ~raced' PROVE Serial'
  BY DEF Serial
<1>. PICK o, l, i : o = th[M].order /\ l = th[M].level /\ i = th[M].index
  OBVIOUS
<1>1. /\ th[M].at = "close" /\ ~raced /\ M \in Threads
      /\ UNCHANGED <<bookVars, incoming, answer, submitted, raised, raced>>
  BY ThreadsAreTwo DEF CloseNext, At
<1>2. /\ \A u \in Threads \ {M} : th[u].at = "idle"
      /\ ~raised /\ th \in [Threads -> Thread] /\ toClose \in Seq(Orders)
      /\ MeanwhileBut(M, "close", o, l)
  BY <1>1, Inside DEF ElseTyped
<1>3. WholeBut(None, None, None)
  BY <1>2 DEF MeanwhileBut, TakesOut, LevelPlaces, OrderPlaces
<1>4. WholeBut(None, None, None)' /\ ~raised'
  BY <1>1, <1>2, <1>3, StaysWhole DEF bookVars
<1>5. CASE toClose = <<>>
  <2>1. th' = [th EXCEPT ![M] = Idle]
    BY <1>5 DEF CloseNext
  <2>2. Moved(M, "idle", None, None, 0)
    BY <1>1, <1>2, <2>1 DEF Moved, Thread, Places, Idle
  <2>3. Relies(M, "idle", None, None, 0)'
    BY DEF Relies, OrderPlaces, InsertPlaces, TakesOut
  <2>. QED  BY <1>1, <1>2, <1>4, <2>2, <2>3, Onward
<1>6. CASE toClose # <<>> /\ Head(toClose) \in mapped
  <2>. PICK x : x = Head(toClose)
    OBVIOUS
  <2>1. th' = [th EXCEPT ![M] = [Idle EXCEPT !.at = "seek", !.order = x, !.index = 1]]
    BY <1>6 DEF CloseNext
  <2>2. x \in Orders
    BY <1>2, <1>6, HeadTailProperties
  <2>3. Moved(M, "seek", x, None, 1)
    BY <1>1, <1>2, <2>1, <2>2 DEF Moved, Thread, Places, Idle
  <2>4. Relies(M, "seek", x, None, 1)'
    BY DEF Relies, OrderPlaces, InsertPlaces, TakesOut
  <2>. QED  BY <1>1, <1>2, <1>4, <2>3, <2>4, Onward
<1>7. CASE toClose # <<>> /\ Head(toClose) \notin mapped
  <2>1. th' = th
    BY <1>7 DEF CloseNext
  <2>2. Moved(M, "close", o, l, i)
    BY <1>1, <1>2, <2>1 DEF Moved
  <2>3. Relies(M, "close", o, l, i)'
    BY DEF Relies, OrderPlaces, InsertPlaces, TakesOut
  <2>. QED  BY <1>1, <1>2, <1>4, <2>2, <2>3, Onward
<1>. QED  BY <1>5, <1>6, <1>7

\* A new order comes to rest.
LEMMA StartInsertAlone ==
  ASSUME Inv, Serial, TypeOK', NEW o \in Orders, NEW p \in Prices, NEW q \in Quantities,
         StartInsert(o, p, q)
  PROVE  Serial'
<1>. SUFFICES ASSUME ~raced' PROVE Serial'
  BY DEF Serial
<1>1. /\ th[M].at = "idle" /\ M \in Threads /\ limit[o] = 0 /\ TypeOK /\ ElseTyped
      /\ limit' = [limit EXCEPT ![o] = p] /\ remaining' = [remaining EXCEPT ![o] = q]
      /\ Begins(M, "place", o)
      /\ UNCHANGED <<bids, queue, total, mapped, ids, incoming, toClose, closing, raised>>
  BY Placed, ThreadsAreTwo DEF StartInsert, At, matcherOnly
<1>2. /\ \A u \in Threads : th[u].at = "idle"
      /\ ~raised /\ WholeBut(None, None, None) /\ Moved(M, "place", o, None, 1)
  BY <1>1, BeginsAlone DEF Places
<1>3. /\ limit'[o] = p /\ remaining'[o] = q /\ q > 0
      /\ \A x \in Orders \ {o} : limit'[x] = limit[x] /\ remaining'[x] = remaining[x]
  BY <1>1 DEF ElseTyped
<1>4. /\ bids \in Seq(Orders) /\ queue \in [Orders -> Seq(Orders)] /\ mapped \subseteq Orders
      /\ Range(bids) \subseteq Orders /\ \A k \in Orders : Range(queue[k]) \subseteq Orders
      /\ \A j \in DOMAIN bids : bids[j] \in Range(bids)
  <2>1. \A j \in DOMAIN bids : bids[j] \in Range(bids)
    BY DEF Range
  <2>. QED  BY <1>1, <2>1, RangeOfSeq DEF ElseTyped
<1>5. o \notin mapped /\ Unqueued(o)
  BY <1>1, <1>2, ThreadsAreTwo DEF Inv, Submitted, QueuedIsMapped, Unqueued
<1>6. \A k \in Orders : queue[k] # <<>> => k # o
  <2>1. ASSUME queue[o] # <<>> PROVE FALSE
    <3>1. PICK x \in Range(queue[o]) : TRUE
      <4>1. queue[o] \in Seq(Orders)
        BY <1>4
      <4>2. Len(queue[o]) \in Nat \ {0}
        BY <2>1, <4>1, EmptySeq, LenProperties
      <4>3. 1 \in 1..Len(queue[o])
        BY <4>2
      <4>. QED  BY <4>1, <4>3, MemberHasPosition
    <3>2. x \in Orders /\ limit[x] = limit[o]
      BY <1>2, <1>4, <3>1 DEF WholeBut
    <3>3. x \in mapped
      BY <1>1, <3>1 DEF Inv, QueuedIsMapped
    <3>. QED  BY <1>1, <3>2, <3>3 DEF Inv, Submitted
  <2>. QED  BY <2>1
<1>7. o \notin Range(bids)
  BY <1>2, <1>4, <1>6 DEF WholeBut, None
<1>8. WholeBut(None, None, None)'
  <2>1. \A i, j \in DOMAIN bids' : i < j => limit'[bids'[i]] > limit'[bids'[j]]
    <3>1. \A j \in DOMAIN bids : bids[j] \in Orders \ {o}
      BY <1>4, <1>7
    <3>. QED  BY <1>1, <1>2, <1>3, <3>1 DEF WholeBut
  <2>2. \A k \in Orders : total'[k] = SumFunctionOnSet(remaining', Range(queue'[k]))
    <3>1. \A k \in Orders :
            SumFunctionOnSet(remaining', Range(queue[k]))
            = SumFunctionOnSet(remaining, Range(queue[k]))
      BY <1>3, <1>4, <1>5, SameTotals DEF Unqueued
    <3>. QED  BY <1>1, <1>2, <3>1 DEF WholeBut
  <2>3. \A k \in Orders : \A x \in Range(queue'[k]) :
           limit'[x] = limit'[k] /\ (remaining'[x] = 0 => x = None)
    <3>. SUFFICES ASSUME NEW k \in Orders, NEW x \in Range(queue[k])
                  PROVE  limit'[x] = limit'[k] /\ (remaining'[x] = 0 => x = None)
      BY <1>1
    <3>1. x \in Orders \ {o} /\ k \in Orders \ {o}
      <4>1. queue[k] # <<>>
        BY EmptySeq, LenProperties, MemberHasPosition, <1>4
      <4>. QED  BY <1>4, <1>5, <1>6, <4>1 DEF Unqueued
    <3>. QED  BY <1>2, <1>3, <3>1 DEF WholeBut
  <2>4. /\ \A k \in Orders : queue'[k] # <<>> => k \in Range(bids')
        /\ \A k \in Range(bids') : queue'[k] = <<>> => k = None
        /\ \A x \in mapped' : Unqueued(x)' => x = None
    BY <1>1, <1>2 DEF WholeBut, Unqueued
  <2>. QED  BY <2>1, <2>2, <2>3, <2>4 DEF WholeBut
<1>9. Relies(M, "place", o, None, 1)'
  <2>1. \A j \in DOMAIN bids : ~(j < 1)
    BY <1>4, LenProperties
  <2>. QED  BY <1>1, <1>3, <2>1 DEF Relies, OrderPlaces, InsertPlaces, TakesOut
<1>. QED  BY <1>1, <1>2, <1>8, <1>9, Onward

-----------------------------------------------------------------------------
(* The theorems. *)

\* The empty side.
LEMMA InitInv == Init => Inv
<1>. SUFFICES ASSUME Init PROVE Inv
  OBVIOUS
<1>1. /\ limit = Cleared /\ remaining = Cleared /\ total = Cleared
      /\ bids = <<>> /\ queue = [l \in Orders |-> <<>>]
      /\ mapped = {} /\ ids = {} /\ incoming = NoSell
      /\ toClose = <<>> /\ closing = FALSE
      /\ answer = [o \in Orders |-> "none"]
      /\ submitted = [sells |-> 0, closes |-> 0]
      /\ raised = FALSE /\ raced = FALSE
      /\ th = [t \in Threads |-> Idle]
  BY DEF Init
<1>2. \A l \in Orders : queue[l] = <<>> /\ queue[l] \in Seq(Orders) /\ Range(queue[l]) = {}
  BY <1>1 DEF Range
<1>3. \A t \in Threads : th[t].at = "idle" /\ th[t].order = None
  BY <1>1 DEF Idle
<1>4. ElseTyped
  <2>1. queue \in [Orders -> Seq(Orders)] /\ bids \in Seq(Orders) /\ toClose \in Seq(Orders)
    BY <1>1
  <2>2. 0 \in 0..MaxIncoming /\ 0 \in 0..MaxCloses
    BY BoundsAssumption
  <2>3. /\ limit \in [Orders -> Prices \cup {0}] /\ remaining \in [Orders -> Nat]
        /\ total \in [Orders -> Int]
    BY <1>1 DEF Cleared
  <2>4. /\ incoming \in [left : Nat, price : Prices \cup {0}]
        /\ submitted \in [sells : 0..MaxIncoming, closes : 0..MaxCloses]
    BY <1>1, <2>2 DEF NoSell
  <2>. QED  BY <1>1, <2>1, <2>3, <2>4 DEF ElseTyped
<1>5. TypeOK
  <2>1. th \in [Threads -> Thread]
    BY <1>1 DEF Thread, Idle, Places, None
  <2>. QED  BY <1>1, <1>4, <2>1, Types DEF Answers
<1>6. Located
  <2>1. \A t \in Threads : \A l, i : Fits(t, FALSE, "idle", None, l, i)
    BY ThreadsAreTwo DEF Fits, InsertPlaces, MatchPlaces, CancelPlaces
  <2>. QED  BY <1>1, <1>3, <2>1 DEF Located
<1>7. QueuedOnce /\ QueuedIsMapped
  <2>1. IsInjective(<<>>)
    BY EmptySeq DEF IsInjective
  <2>. QED  BY <1>2, <2>1 DEF QueuedOnce, QueuedIsMapped
<1>8. Apart /\ TablesAgree
  BY <1>1, <1>3, ThreadsAreTwo DEF Apart, TablesAgree
<1>9. Submitted
  BY <1>1 DEF Submitted
<1>. QED  BY <1>5, <1>6, <1>7, <1>8, <1>9 DEF Inv

\* The operations that both threads perform.
LEMMA StepKeeps ==
  ASSUME Inv, NEW t \in Threads, Step(t)
  PROVE  Inv'
BY SeekKeeps, EnterKeeps, SearchKeeps, ForgetKeeps, CheckEmptyKeeps, DropKeeps DEF Step

\* Every step keeps the invariant.
LEMMA NextKeepsInv == Inv /\ [Next]_vars => Inv'
<1>. SUFFICES ASSUME Inv, [Next]_vars PROVE Inv'
  OBVIOUS
<1>1. CASE Next
  <2>1. ASSUME NEW o \in Orders, StartCancel(o) PROVE Inv'
    BY <2>1, StartCancelKeeps
  <2>2. ASSUME NEW o \in Orders, NEW p \in Prices, NEW q \in Quantities,
               StartInsert(o, p, q)
        PROVE  Inv'
    BY <2>2, StartInsertKeeps
  <2>3. ASSUME NEW p \in Prices, NEW q \in SellQuantities, StartMatch(p, q)
        PROVE  Inv'
    BY <2>3, StartMatchKeeps
  <2>4. CASE MatcherStep
    BY <2>4, StepKeeps, ThreadsAreTwo, PlaceKeeps, PositionKeeps, InsertLevelKeeps,
       AppendOrderKeeps, IndexKeeps, LoopKeeps, PickKeeps, FillKeeps, UnlistKeeps,
       UnmapKeeps, PopKeeps, CollectKeeps, CloseNextKeeps
    DEF MatcherStep
  <2>5. CASE Step("validator")
    BY <2>5, StepKeeps, ThreadsAreTwo DEF V
  <2>. QED  BY <1>1, <2>1, <2>2, <2>3, <2>4, <2>5, StartCloseKeeps DEF Next
<1>2. CASE UNCHANGED vars
  <2>1. UNCHANGED <<limit, remaining, bids, queue, total, mapped, ids, th, incoming,
                    toClose, closing, answer, submitted, raised, raced>>
    BY <1>2 DEF vars, bookVars, ctlVars
  <2>2. TypeOK'
    BY <2>1 DEF Inv, TypeOK
  <2>3. Located'
    BY <2>1 DEF Inv, Located, Fits, Unqueued
  <2>4. Apart' /\ QueuedOnce' /\ QueuedIsMapped' /\ TablesAgree'
    BY <2>1 DEF Inv, Apart, QueuedOnce, QueuedIsMapped, TablesAgree
  <2>5. Submitted'
    BY <2>1 DEF Inv, Submitted, Unqueued
  <2>. QED  BY <2>2, <2>3, <2>4, <2>5 DEF Inv
<1>. QED  BY <1>1, <1>2

\* The invariant holds in every reachable state.
LEMMA Invariance == Spec => []Inv
BY InitInv, NextKeepsInv, PTL DEF Spec

\* Every variable keeps its type: indices stay within what the list operations
\* take, and every local variable that is used names an order.
THEOREM TypeCorrect == Spec => []TypeOK
<1>1. Inv => TypeOK
  BY DEF Inv
<1>. QED  BY <1>1, Invariance, PTL

\* No race between insert, match, cancel and close puts an order into two
\* places or hides a queued order from cancel_order, and the two tables agree
\* whenever no call is under way.
THEOREM NoOrderIsLost == Spec => []QueuedOnceAndMapped
<1>1. Inv => QueuedOnceAndMapped
  BY ThreadsAreTwo
  DEF Inv, QueuedOnce, QueuedIsMapped, TablesAgree, QueuedOnceAndMapped, At, Quiet
<1>. QED  BY <1>1, Invariance, PTL

\* An order whose cancellation cancel_order has confirmed is in no queue and no
\* table, whatever the matching thread did meanwhile: nothing picks it again.
\* (A fill for which it had been picked before can still be made.)
THEOREM ConfirmedOrdersHaveLeft == Spec => []ConfirmedHasLeft
<1>1. Inv => ConfirmedHasLeft
  BY DEF Inv, Submitted, Unqueued, ConfirmedHasLeft
<1>. QED  BY <1>1, Invariance, PTL

\* The empty side is whole.
LEMMA InitSerial == Init => Serial
<1>. SUFFICES ASSUME Init PROVE Serial
  OBVIOUS
<1>1. /\ total = Cleared /\ bids = <<>> /\ queue = [l \in Orders |-> <<>>]
      /\ mapped = {} /\ raised = FALSE
      /\ th = [t \in Threads |-> Idle]
  BY DEF Init
<1>2. /\ \A l \in Orders : queue[l] = <<>> /\ Range(queue[l]) = {} /\ total[l] = 0
      /\ DOMAIN bids = {} /\ Range(bids) = {}
  BY <1>1 DEF Range, Cleared
<1>3. WholeBut(None, None, None)
  <2>1. \A k \in Orders : total[k] = SumFunctionOnSet(remaining, Range(queue[k]))
    BY <1>2, SumEmpty
  <2>. QED  BY <1>1, <1>2, <2>1 DEF WholeBut
<1>4. /\ \A t \in Threads : th[t].at = "idle"
      /\ M \in Threads
  BY <1>1, ThreadsAreTwo DEF Idle
<1>5. MeanwhileBut(M, "idle", th[M].order, th[M].level)
  BY <1>3 DEF MeanwhileBut, TakesOut, LevelPlaces, OrderPlaces
<1>6. Relies(M, "idle", th[M].order, th[M].level, th[M].index)
  BY DEF Relies, TakesOut, OrderPlaces, InsertPlaces
<1>7. Lonely(M)
  BY <1>4, <1>5, <1>6 DEF Lonely
<1>. QED  BY <1>1, <1>4, <1>7 DEF Serial

\* The operations that both threads perform.
LEMMA StepAlone ==
  ASSUME Inv, Serial, TypeOK', NEW t \in Threads, Step(t)
  PROVE  Serial'
BY SeekAlone, EnterAlone, SearchAlone, ForgetAlone, CheckEmptyAlone, DropAlone DEF Step

\* Every step keeps the invariant of a book without a race.
LEMMA NextKeepsSerial == Inv /\ Serial /\ [Next]_vars => Serial'
<1>. SUFFICES ASSUME Inv, Serial, [Next]_vars PROVE Serial'
  OBVIOUS
<1>1. TypeOK'
  <2>1. Inv'
    BY NextKeepsInv
  <2>. QED  BY <2>1 DEF Inv
<1>2. CASE Next
  <2>1. ASSUME NEW o \in Orders, StartCancel(o) PROVE Serial'
    BY <1>1, <2>1, StartCancelAlone
  <2>2. ASSUME NEW o \in Orders, NEW p \in Prices, NEW q \in Quantities,
               StartInsert(o, p, q)
        PROVE  Serial'
    BY <1>1, <2>2, StartInsertAlone
  <2>3. ASSUME NEW p \in Prices, NEW q \in SellQuantities, StartMatch(p, q)
        PROVE  Serial'
    BY <1>1, <2>3, StartMatchAlone
  <2>4. CASE MatcherStep
    BY <1>1, <2>4, StepAlone, ThreadsAreTwo, PlaceAlone, PositionAlone, InsertLevelAlone,
       AppendOrderAlone, IndexAlone, LoopAlone, PickAlone, FillAlone, UnlistAlone,
       UnmapAlone, PopAlone, CollectAlone, CloseNextAlone
    DEF MatcherStep
  <2>5. CASE Step("validator")
    BY <1>1, <2>5, StepAlone, ThreadsAreTwo DEF V
  <2>. QED  BY <1>1, <1>2, <2>1, <2>2, <2>3, <2>4, <2>5, StartCloseAlone DEF Next
<1>3. CASE UNCHANGED vars
  <2>1. UNCHANGED <<limit, remaining, bids, queue, total, mapped, ids, th, incoming,
                    closing, raised, raced>>
    BY <1>3 DEF vars, bookVars, ctlVars
  <2>. QED  BY <2>1
       DEF Serial, Lonely, MeanwhileBut, WholeBut, Relies, TakesOut, Unqueued
<1>. QED  BY <1>2, <1>3

\* Both invariants hold in every reachable state.
LEMMA SerialInvariance == Spec => [](Inv /\ Serial)
<1>1. Init => Inv /\ Serial
  BY InitInv, InitSerial
<1>2. Inv /\ Serial /\ [Next]_vars => (Inv /\ Serial)'
  BY NextKeepsInv, NextKeepsSerial
<1>. QED  BY <1>1, <1>2, PTL DEF Spec

\* Calls that do not overlap leave the book that OrderBook describes: sorted
\* levels, none of them empty, exact totals, the two tables and the queues in
\* agreement; and no list, deque or dictionary operation of insert, match,
\* cancel and close raises.
THEOREM SerialCallsKeepTheBook == Spec => []SerialCallsAgree
<1>1. Inv /\ Serial => SerialCallsAgree
  <2>. SUFFICES ASSUME Inv, Serial, ~raced PROVE ~raised /\ (Quiet => Agrees)
    BY DEF SerialCallsAgree
  <2>1. ~raised
    BY DEF Serial
  <2>2. ASSUME Quiet PROVE Agrees
    <3>1. WholeBut(None, None, None) /\ \A t \in Threads : th[t].at = "idle"
      BY <2>2, WholeAtRest
    <3>2. /\ bids \in Seq(Orders) /\ queue \in [Orders -> Seq(Orders)]
          /\ mapped \subseteq Orders /\ remaining \in [Orders -> Nat]
          /\ Range(bids) \subseteq Orders /\ \A k \in Orders : Range(queue[k]) \subseteq Orders
      BY RangeOfSeq DEF Inv, TypeOK
    <3>3. mapped = ids
      BY <3>1, ThreadsAreTwo DEF Inv, TablesAgree
    <3>4. ASSUME NEW l \in Range(bids)
          PROVE  /\ queue[l] # <<>>
                 /\ total[l] = SumFunctionOnSet(remaining, Range(queue[l]))
                 /\ \A o \in Range(queue[l]) : limit[o] = limit[l] /\ remaining[o] > 0
      <4>1. queue[l] # <<>> /\ total[l] = SumFunctionOnSet(remaining, Range(queue[l]))
        BY <3>1, <3>2 DEF WholeBut, None
      <4>2. ASSUME NEW o \in Range(queue[l]) PROVE limit[o] = limit[l] /\ remaining[o] > 0
        <5>1. o \in Orders /\ l \in Orders
          BY <3>2
        <5>2. o # None /\ remaining[o] \in Nat
          BY <3>2, <5>1 DEF None
        <5>3. limit[o] = limit[l] /\ remaining[o] # 0
          BY <3>1, <5>1, <5>2 DEF WholeBut
        <5>. QED  BY <5>2, <5>3
      <4>. QED  BY <4>1, <4>2
    <3>5. ids = UNION {Range(queue[l]) : l \in Range(bids)}
      <4>1. ASSUME NEW x \in ids PROVE x \in UNION {Range(queue[l]) : l \in Range(bids)}
        <5>1. x \in mapped /\ x # None /\ x \in Orders
          BY <3>2, <3>3, <4>1 DEF None
        <5>2. PICK l \in Orders : x \in Range(queue[l])
          BY <3>1, <5>1 DEF WholeBut, Unqueued
        <5>3. queue[l] # <<>>
          BY <3>2, <5>2, EmptySeq, LenProperties, MemberHasPosition
        <5>. QED  BY <3>1, <5>2, <5>3 DEF WholeBut
      <4>2. ASSUME NEW l \in Range(bids), NEW x \in Range(queue[l]) PROVE x \in ids
        <5>1. l \in Orders /\ th[M].at = "idle"
          BY <3>1, <3>2, ThreadsAreTwo
        <5>. QED  BY <3>3, <5>1 DEF Inv, QueuedIsMapped
      <4>. QED  BY <4>1, <4>2
    <3>6. \A i, j \in DOMAIN bids : i < j => limit[bids[i]] > limit[bids[j]]
      BY <3>1 DEF WholeBut
    <3>. QED  BY <3>3, <3>4, <3>5, <3>6 DEF Agrees
  <2>. QED  BY <2>1, <2>2
<1>. QED  BY <1>1, SerialInvariance, PTL

====
