---- MODULE OrderValidation ----
(***************************************************************************)
(* Validation of new orders: OrderValidationService, with its rate-limit   *)
(* windows, and ConstraintBasedOrderValidator, with the constraints of a   *)
(* role.  One validator thread works on one order at a time; the clock,    *)
(* and the position tracker that books what accepted orders trade, go on   *)
(* while it does.                                                          *)
(***************************************************************************)
EXTENDS Integers, FiniteSets, FiniteSetsExt, Functions, Sequences

CONSTANTS
  Teams,
  Orders,
  Instruments,
  Shapes,    \* orders a client may send: [instrument, side, quantity, type, price]
  Rules,     \* the constraints of the teams' role, in their configured order
  MaxTime    \* bound: the last second of the clock

RuleTypes == {"position_limit", "portfolio_limit", "order_size", "order_rate",
              "order_type_allowed", "instrument_allowed", "price_range"}

ASSUME NamesAssumption == "none" \notin Orders \cup Teams
ASSUME InstrumentsAssumption == IsFiniteSet(Instruments)
ASSUME MaxTimeAssumption == MaxTime \in Nat

\* Order refuses to be made with a quantity that is not positive.
ASSUME ShapesAssumption ==
  \A x \in Shapes : x.instrument \in Instruments /\ x.quantity \in Nat \ {0}

ASSUME RulesAssumption ==
  /\ Rules \in Seq(Range(Rules))
  /\ \A i \in DOMAIN Rules :
       /\ Rules[i].type \in RuleTypes
       /\ Rules[i].type \in {"position_limit", "portfolio_limit", "order_rate"} =>
            Rules[i].max \in Nat

VARIABLES
  clock,       \* the current second
  window,      \* rate_limit_windows: [count, second], count 0 for no window
  position,    \* the positions of a team by instrument
  owner,       \* the team of an order, "none" before it is sent
  shape,       \* what the order asks for
  verdict,     \* "accepted", or the type of the constraint it violates
  unbooked,    \* what an accepted order may still trade and book
  current,     \* the order in validation, "none" between two orders
  step,        \* where its validation is
  seen,        \* its ValidationContext: positions and orders_this_second
  counted,     \* history: orders counted for a team in a second
  passed,      \* history: orders accepted for a team, by the second they saw
  refused,     \* history: <<team, second>> of orders refused for their rate
  overlapped   \* history: teams that sent an order while another was unbooked

orderVars == <<owner, shape>>
history == <<counted, passed, refused, overlapped>>
vars == <<clock, window, position, orderVars, verdict, unbooked, current, step, seen,
          history>>

Seconds == 0..MaxTime
NoShape == [instrument |-> "none", side |-> "none", quantity |-> 0, type |-> "none",
            price |-> 0]
NoContext == [positions |-> [i \in Instruments |-> 0], count |-> 0, at |-> 0]

TypeOK ==
  /\ clock \in Seconds
  /\ window \in [Teams -> [count : Nat, second : Seconds]]
  /\ position \in [Teams -> [Instruments -> Int]]
  /\ owner \in [Orders -> Teams \cup {"none"}]
  /\ shape \in [Orders -> Shapes \cup {NoShape}]
  /\ verdict \in [Orders -> RuleTypes \cup {"none", "accepted"}]
  /\ unbooked \in [Orders -> Nat]
  /\ current \in Orders \cup {"none"}
  /\ step \in {"idle", "positions", "checking", "accepted"}
  /\ seen \in [positions : [Instruments -> Int], count : Nat, at : Seconds]
  /\ counted \in [Teams -> [Seconds -> Nat]]
  /\ passed \in [Teams -> [Seconds -> Nat]]
  /\ refused \subseteq Teams \X Seconds
  /\ overlapped \subseteq Teams

Init ==
  /\ clock = 0
  /\ window = [t \in Teams |-> [count |-> 0, second |-> 0]]
  /\ position = [t \in Teams |-> [i \in Instruments |-> 0]]
  /\ owner = [o \in Orders |-> "none"]
  /\ shape = [o \in Orders |-> NoShape]
  /\ verdict = [o \in Orders |-> "none"]
  /\ unbooked = [o \in Orders |-> 0]
  /\ current = "none"
  /\ step = "idle"
  /\ seen = NoContext
  /\ counted = [t \in Teams |-> [s \in Seconds |-> 0]]
  /\ passed = [t \in Teams |-> [s \in Seconds |-> 0]]
  /\ refused = {}
  /\ overlapped = {}

-----------------------------------------------------------------------------
(* The constraints.  x is the order, c the context it is checked in. *)

Abs(n) == IF n < 0 THEN -n ELSE n

Delta(x) == IF x.side = "buy" THEN x.quantity ELSE -x.quantity

NewPosition(x, c) == c.positions[x.instrument] + Delta(x)

\* Mutant: the position before the order is checked.
PositionLimitBefore(r, x, c) == Abs(c.positions[x.instrument]) <= r.max

PositionLimit(r, x, c) ==
  IF r.symmetric
  THEN -r.max <= NewPosition(x, c) /\ NewPosition(x, c) <= r.max
  ELSE Abs(NewPosition(x, c)) <= r.max

Total(p) == SumFunctionOnSet([i \in Instruments |-> Abs(p[i])], Instruments)

\* Mutant: the instrument of the order is taken out and not put back.
PortfolioLimitOfOthers(r, x, c) ==
  Total(c.positions) - Abs(c.positions[x.instrument]) <= r.max

PortfolioLimit(r, x, c) ==
  Total(c.positions) - Abs(c.positions[x.instrument]) + Abs(NewPosition(x, c)) <= r.max

OrderSize(r, x) == r.min <= x.quantity /\ x.quantity <= r.max

OrderRate(r, c) == c.count < r.max

OrderType(r, x) == x.type \in r.allowed

InstrumentAllowed(r, x) == x.instrument \in r.allowed

PriceRange(r, x) == x.type = "market" \/ (r.min <= x.price /\ x.price <= r.max)

Check(r, x, c) ==
  CASE r.type = "position_limit"     -> PositionLimit(r, x, c)
    [] r.type = "portfolio_limit"    -> PortfolioLimit(r, x, c)
    [] r.type = "order_size"         -> OrderSize(r, x)
    [] r.type = "order_rate"         -> OrderRate(r, c)
    [] r.type = "order_type_allowed" -> OrderType(r, x)
    [] r.type = "instrument_allowed" -> InstrumentAllowed(r, x)
    [] r.type = "price_range"        -> PriceRange(r, x)

Violated(x, c) == {i \in DOMAIN Rules : ~Check(Rules[i], x, c)}

\* validate_order stops at the first constraint that is violated.
Result(x, c) ==
  IF Violated(x, c) = {} THEN "accepted" ELSE Rules[Min(Violated(x, c))].type

-----------------------------------------------------------------------------
(* The rate-limit windows. *)

\* Mutants: the count of an earlier second is used as well, the order in
\* validation is taken off the count.
StaleCount(t) == window[t].count
OffByOne(t) == StaleCount(t) - 1

GetOrderCount(t) ==
  IF window[t].count > 0 /\ window[t].second = clock THEN window[t].count ELSE 0

\* Mutant: every order starts a window of its own.
AlwaysNewWindow(t) == [count |-> 1, second |-> clock]

NextWindow(t) ==
  IF window[t].count > 0 /\ window[t].second = clock
  THEN [window[t] EXCEPT !.count = @ + 1]
  ELSE [count |-> 1, second |-> clock]

-----------------------------------------------------------------------------
(* The validator thread. *)

\* A team that has another order whose trades are not all booked yet.
Busy(t) == \E o \in Orders : owner[o] = t /\ unbooked[o] > 0

ReadPositions(o, t, x) ==
  /\ step = "idle"
  /\ owner[o] = "none"
  /\ owner' = [owner EXCEPT ![o] = t]
  /\ shape' = [shape EXCEPT ![o] = x]
  /\ current' = o
  /\ step' = "positions"
  /\ seen' = [seen EXCEPT !.positions = position[t]]
  /\ overlapped' = IF Busy(t) THEN overlapped \cup {t} ELSE overlapped
  /\ UNCHANGED <<clock, window, position, verdict, unbooked, counted, passed, refused>>

ReadOrderCount ==
  /\ step = "positions"
  /\ step' = "checking"
  /\ seen' = [seen EXCEPT !.count = GetOrderCount(owner[current]), !.at = clock]
  /\ UNCHANGED <<clock, window, position, orderVars, verdict, unbooked, current, history>>

Reject ==
  LET result == Result(shape[current], seen)
  IN /\ step = "checking"
     /\ result # "accepted"
     /\ verdict' = [verdict EXCEPT ![current] = result]
     /\ refused' = IF result = "order_rate"
                   THEN refused \cup {<<owner[current], seen.at>>} ELSE refused
     /\ step' = "idle"
     /\ current' = "none"
     /\ seen' = NoContext
     /\ UNCHANGED <<clock, window, position, orderVars, unbooked, counted, passed,
                    overlapped>>

\* The order is put on the match queue, and may trade from here on.
Accept ==
  /\ step = "checking"
  /\ Result(shape[current], seen) = "accepted"
  /\ verdict' = [verdict EXCEPT ![current] = "accepted"]
  /\ unbooked' = [unbooked EXCEPT ![current] = shape[current].quantity]
  /\ passed' = [passed EXCEPT ![owner[current]][seen.at] = @ + 1]
  /\ step' = "accepted"
  /\ UNCHANGED <<clock, window, position, orderVars, current, seen, counted, refused,
                 overlapped>>

IncrementOrderCount ==
  /\ step = "accepted"
  /\ window' = [window EXCEPT ![owner[current]] = NextWindow(owner[current])]
  /\ counted' = [counted EXCEPT ![owner[current]][clock] = @ + 1]
  /\ step' = "idle"
  /\ current' = "none"
  /\ seen' = NoContext
  /\ UNCHANGED <<clock, position, orderVars, verdict, unbooked, passed, refused,
                 overlapped>>

-----------------------------------------------------------------------------
(* Around it. *)

\* The position tracker books n contracts of order o.
UpdatePosition(o, n) ==
  /\ n \in 1..unbooked[o]
  /\ unbooked' = [unbooked EXCEPT ![o] = @ - n]
  /\ position' = [position EXCEPT ![owner[o]][shape[o].instrument] =
                    IF shape[o].side = "buy" THEN @ + n ELSE @ - n]
  /\ UNCHANGED <<clock, window, orderVars, verdict, current, step, seen, history>>

\* What is left of the order is cancelled or dropped.
Ends(o) ==
  /\ unbooked[o] > 0
  /\ unbooked' = [unbooked EXCEPT ![o] = 0]
  /\ UNCHANGED <<clock, window, position, orderVars, verdict, current, step, seen,
                 history>>

Tick ==
  /\ clock < MaxTime
  /\ clock' = clock + 1
  /\ UNCHANGED <<window, position, orderVars, verdict, unbooked, current, step, seen,
                 history>>

Next ==
  \/ \E o \in Orders, t \in Teams, x \in Shapes : ReadPositions(o, t, x)
  \/ ReadOrderCount \/ Reject \/ Accept \/ IncrementOrderCount
  \/ \E o \in Orders : Ends(o) \/ \E n \in 1..unbooked[o] : UpdatePosition(o, n)
  \/ Tick

Spec == Init /\ [][Next]_vars

-----------------------------------------------------------------------------
(* Safety. *)

Limit(type) == {Rules[i].max : i \in {j \in DOMAIN Rules : Rules[j].type = type}}

\* In no second are more orders of a team accepted than max_orders_per_second,
\* neither by the time the validator looked at the clock first, nor by the time
\* it looked again to count the order.
RateNeverExceeded ==
  \A t \in Teams, s \in Seconds, n \in Limit("order_rate") :
    passed[t][s] <= n /\ counted[t][s] <= n

\* An order is refused for its rate only if as many orders as some rule allows
\* were counted for its team in that very second.
RefusedOnlyAtLimit ==
  \A r \in refused : \E n \in Limit("order_rate") : counted[r[1]][r[2]] >= n

\* A team that waits until its order is booked before it sends the next one
\* stays within both limits, however its orders are filled in parts.
LimitsKeptInTurn ==
  \A t \in Teams \ overlapped :
    /\ \A n \in Limit("position_limit"), i \in Instruments : Abs(position[t][i]) <= n
    /\ \A n \in Limit("portfolio_limit") : Total(position[t]) <= n
====
