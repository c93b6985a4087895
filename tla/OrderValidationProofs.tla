---- MODULE OrderValidationProofs ----
(***************************************************************************)
(* Proofs about the validation of orders, for all rules, orders, teams and *)
(* seconds: the variables keep their types, no rate limit is exceeded and  *)
(* none is applied too early, and a team that sends one order at a time    *)
(* stays within its position limits.                                       *)
(*                                                                         *)
(* The rate: the window of a team agrees with the orders counted in the    *)
(* current second (WindowsCount), the count in the validator's hands with  *)
(* those of the second it was read in (CountIsRead), and at most the order *)
(* in validation is accepted and not counted (PassedAreCounted).  The      *)
(* clock may tick between the reading and the counting.                    *)
(*                                                                         *)
(* The positions: those of a team are within the limits now and will be    *)
(* when its order is filled (InTurn), and the positions between two that   *)
(* are within the limits are within them too (WithinIsConvex).             *)
(***************************************************************************)
EXTENDS OrderValidation, DataLemmas

-----------------------------------------------------------------------------
(* The invariant. *)

\* What the validator works on, and what may still trade.
Working ==
  /\ step = "idle" <=> current = "none"
  /\ current # "none" => owner[current] \in Teams /\ shape[current] \in Shapes
  /\ step \in {"positions", "checking"} => unbooked[current] = 0
  /\ \A o \in Orders : unbooked[o] > 0 => owner[o] \in Teams /\ shape[o] \in Shapes
  /\ \A o \in Orders : owner[o] = "none" => unbooked[o] = 0

\* The window of a team counts the orders of the current second; nothing has
\* been counted for a second to come.
WindowsCount ==
  \A t \in Teams :
    /\ window[t].second <= clock
    /\ counted[t][clock] = GetOrderCount(t)
    /\ \A s \in Seconds : s > clock => counted[t][s] = 0 /\ passed[t][s] = 0

\* The count in the validator's hands is the count of the second it was read in.
CountIsRead ==
  step \in {"checking", "accepted"} =>
    /\ seen.at <= clock
    /\ counted[owner[current]][seen.at] = seen.count
    /\ seen.at < clock => counted[owner[current]][clock] = 0
    /\ step = "accepted" => \A n \in Limit("order_rate") : seen.count < n

\* The orders accepted in the current second are those that are counted in it,
\* and the one that is about to be.
PassedAreCounted ==
  /\ \A t \in Teams :
       passed[t][clock] <=
         counted[t][clock] + (IF step = "accepted" /\ owner[current] = t /\ seen.at = clock
                              THEN 1 ELSE 0)
  /\ step = "checking" => passed[owner[current]][seen.at] <= seen.count

RateInv == WindowsCount /\ CountIsRead /\ PassedAreCounted /\ RateNeverExceeded

\* Positions p within the limits of the rules.
Within(p) ==
  /\ \A n \in Limit("position_limit"), i \in Instruments : Abs(p[i]) <= n
  /\ \A n \in Limit("portfolio_limit") : Total(p) <= n

Moved(p, i, d) == [p EXCEPT ![i] = @ + d]

Signed(o, n) == IF shape[o].side = "buy" THEN n ELSE -n

\* A team whose orders come one at a time is within its limits now, and will be
\* when its order is filled; the positions the validator looks at are current.
InTurn(t) ==
  /\ Within(position[t])
  /\ \A o, p \in Orders :
       owner[o] = t /\ owner[p] = t /\ unbooked[o] > 0 /\ unbooked[p] > 0 => o = p
  /\ \A o \in Orders : owner[o] = t /\ unbooked[o] > 0 =>
       Within(Moved(position[t], shape[o].instrument, Signed(o, unbooked[o])))
  /\ step \in {"positions", "checking"} /\ owner[current] = t =>
       seen.positions = position[t] /\ ~Busy(t)

TurnInv == \A t \in Teams \ overlapped : InTurn(t)

Inv == TypeOK /\ Working /\ RateInv /\ RefusedOnlyAtLimit /\ TurnInv

-----------------------------------------------------------------------------
(* The constraints. *)

\* The limits of the rules are natural numbers.
LEMMA LimitsAreNumbers ==
  ASSUME NEW type \in {"position_limit", "portfolio_limit", "order_rate"},
         NEW n \in Limit(type)
  PROVE  n \in Nat
BY RulesAssumption DEF Limit

\* The answer of validate_order: the type of a rule that is violated, or
\* "accepted" when no rule is.
LEMMA ResultIsOfAViolatedRule ==
  ASSUME NEW x, NEW c
  PROVE  /\ Result(x, c) \in RuleTypes \cup {"accepted"}
         /\ Result(x, c) = "accepted" => \A i \in DOMAIN Rules : Check(Rules[i], x, c)
         /\ Result(x, c) # "accepted" =>
              \E i \in DOMAIN Rules : Result(x, c) = Rules[i].type /\ ~Check(Rules[i], x, c)
<1>1. DOMAIN Rules \subseteq Nat
  BY RulesAssumption, LenProperties
<1>2. CASE Violated(x, c) = {}
  BY <1>2 DEF Result, Violated
<1>3. CASE Violated(x, c) # {}
  <2>1. PICK i \in Violated(x, c) : Result(x, c) = Rules[i].type
    BY <1>1, <1>3, SmallestMember DEF Result, Violated
  <2>2. i \in DOMAIN Rules /\ ~Check(Rules[i], x, c)
    BY <2>1 DEF Violated
  <2>3. Rules[i].type \in RuleTypes /\ Rules[i].type # "accepted"
    BY <2>2, RulesAssumption DEF RuleTypes
  <2>. QED  BY <2>1, <2>2, <2>3
<1>. QED  BY <1>2, <1>3

\* An order is refused for its rate at the limit of a rule, and accepted below
\* the limits of all rules.
LEMMA RateIsChecked ==
  ASSUME NEW x, NEW c
  PROVE  /\ Result(x, c) = "accepted" => \A n \in Limit("order_rate") : c.count < n
         /\ Result(x, c) = "order_rate" => \E n \in Limit("order_rate") : ~(c.count < n)
<1>1. ASSUME NEW i \in DOMAIN Rules, Rules[i].type = "order_rate"
      PROVE  Check(Rules[i], x, c) <=> c.count < Rules[i].max
  BY <1>1 DEF Check, OrderRate
<1>2. \A n : n \in Limit("order_rate") <=>
               \E i \in DOMAIN Rules : Rules[i].type = "order_rate" /\ Rules[i].max = n
  BY DEF Limit
<1>3. ASSUME Result(x, c) = "accepted", NEW n \in Limit("order_rate") PROVE c.count < n
  BY <1>1, <1>2, <1>3, ResultIsOfAViolatedRule
<1>4. ASSUME Result(x, c) = "order_rate"
      PROVE  \E n \in Limit("order_rate") : ~(c.count < n)
  <2>1. PICK i \in DOMAIN Rules : "order_rate" = Rules[i].type /\ ~Check(Rules[i], x, c)
    BY <1>4, ResultIsOfAViolatedRule
  <2>. QED  BY <1>1, <1>2, <2>1
<1>. QED  BY <1>3, <1>4

\* The total when the position of one instrument changes.
LEMMA TotalMoves ==
  ASSUME NEW p \in [Instruments -> Int], NEW i \in Instruments, NEW d \in Int
  PROVE  /\ Moved(p, i, d) \in [Instruments -> Int]
         /\ Total(p) \in Int
         /\ Total(Moved(p, i, d)) = Total(p) - Abs(p[i]) + Abs(p[i] + d)
<1> DEFINE q == Moved(p, i, d)
           f == [j \in Instruments |-> Abs(p[j])]
           g == [j \in Instruments |-> Abs(q[j])]
<1>1. /\ q \in [Instruments -> Int] /\ q[i] = p[i] + d
      /\ \A j \in Instruments \ {i} : q[j] = p[j]
  BY DEF Moved
<1>2. /\ \A j \in Instruments : f[j] \in Int /\ g[j] \in Int
      /\ \A j \in Instruments \ {i} : g[j] = f[j]
      /\ f[i] = Abs(p[i]) /\ g[i] = Abs(p[i] + d)
  BY <1>1 DEF Abs
<1>3. /\ Total(p) = SumFunctionOnSet(f, Instruments)
      /\ Total(q) = SumFunctionOnSet(g, Instruments)
  BY DEF Total
<1> HIDE DEF q, f, g
<1>4. SumFunctionOnSet(f, Instruments) \in Int
  BY <1>2, SumType, InstrumentsAssumption
<1>5. SumFunctionOnSet(g, Instruments) = SumFunctionOnSet(f, Instruments) + (g[i] - f[i])
  BY <1>2, SumUpdate, InstrumentsAssumption
<1>6. Abs(p[i]) \in Int /\ Abs(p[i] + d) \in Int
  BY DEF Abs
<1>7. Total(q) = Total(p) - Abs(p[i]) + Abs(p[i] + d)
  BY <1>2, <1>3, <1>4, <1>5, <1>6
<1>. QED  BY <1>1, <1>3, <1>4, <1>7 DEF q

\* An accepted order keeps the positions within the limits when it is filled.
LEMMA AcceptedStaysWithin ==
  ASSUME NEW p \in [Instruments -> Int], Within(p), NEW x \in Shapes,
         NEW c, c.positions = p, Result(x, c) = "accepted"
  PROVE  Within(Moved(p, x.instrument, Delta(x)))
<1>1. PICK i, d : i = x.instrument /\ d = Delta(x)
  OBVIOUS
<1>2. i \in Instruments /\ d \in Int
  BY <1>1, ShapesAssumption DEF Delta
<1>3. PICK q : q = Moved(p, i, d)
  OBVIOUS
<1>4. q[i] = p[i] + d /\ \A j \in Instruments \ {i} : q[j] = p[j]
  BY <1>2, <1>3 DEF Moved
<1>5. NewPosition(x, c) = p[i] + d /\ p[i] + d \in Int
  BY <1>1, <1>2 DEF NewPosition
<1>6. ASSUME NEW n \in Limit("position_limit") PROVE Abs(p[i] + d) <= n
  <2>1. PICK k \in DOMAIN Rules : Rules[k].type = "position_limit" /\ Rules[k].max = n
    BY DEF Limit
  <2>2. PositionLimit(Rules[k], x, c)
    <3>1. Check(Rules[k], x, c)
      BY <2>1, ResultIsOfAViolatedRule
    <3>. QED  BY <2>1, <3>1 DEF Check
  <2>3. n \in Nat
    BY LimitsAreNumbers
  <2>. QED  BY <1>5, <2>1, <2>2, <2>3 DEF PositionLimit, Abs
<1>7. ASSUME NEW n \in Limit("portfolio_limit") PROVE Total(q) <= n
  <2>1. PICK k \in DOMAIN Rules : Rules[k].type = "portfolio_limit" /\ Rules[k].max = n
    BY DEF Limit
  <2>2. PortfolioLimit(Rules[k], x, c)
    <3>1. Check(Rules[k], x, c)
      BY <2>1, ResultIsOfAViolatedRule
    <3>. QED  BY <2>1, <3>1 DEF Check
  <2>. QED  BY <1>1, <1>2, <1>3, <1>5, <2>1, <2>2, TotalMoves DEF PortfolioLimit
<1>8. \A n \in Limit("position_limit"), j \in Instruments : Abs(q[j]) <= n
  BY <1>4, <1>6 DEF Within
<1>. QED  BY <1>1, <1>3, <1>7, <1>8 DEF Within

\* Between two positions within the limits there are only such positions.
LEMMA WithinIsConvex ==
  ASSUME NEW p \in [Instruments -> Int], NEW i \in Instruments,
         NEW d \in Int, NEW e \in Int, (0 <= d /\ d <= e) \/ (e <= d /\ d <= 0),
         Within(p), Within(Moved(p, i, e))
  PROVE  Within(Moved(p, i, d))
<1>1. PICK q, r : q = Moved(p, i, d) /\ r = Moved(p, i, e)
  OBVIOUS
<1>2. /\ q[i] = p[i] + d /\ \A j \in Instruments \ {i} : q[j] = p[j]
      /\ r[i] = p[i] + e /\ p[i] \in Int
  BY <1>1 DEF Moved
<1>3. Abs(p[i] + d) <= Abs(p[i]) \/ Abs(p[i] + d) <= Abs(p[i] + e)
  BY <1>2 DEF Abs
<1>4. /\ Abs(p[i]) \in Int /\ Abs(p[i] + d) \in Int /\ Abs(p[i] + e) \in Int
  BY <1>2 DEF Abs
<1>5. ASSUME NEW n \in Limit("position_limit"), NEW j \in Instruments PROVE Abs(q[j]) <= n
  <2>1. n \in Nat /\ Abs(p[j]) <= n /\ Abs(r[i]) <= n /\ Abs(p[i]) <= n
    BY <1>1, LimitsAreNumbers DEF Within
  <2>. QED  BY <1>2, <1>3, <1>4, <2>1
<1>6. /\ Total(q) = Total(p) - Abs(p[i]) + Abs(p[i] + d)
      /\ Total(r) = Total(p) - Abs(p[i]) + Abs(p[i] + e)
      /\ Total(p) \in Int
  BY <1>1, TotalMoves
<1>7. ASSUME NEW n \in Limit("portfolio_limit") PROVE Total(q) <= n
  <2>1. n \in Nat /\ Total(p) <= n /\ Total(r) <= n
    BY <1>1, LimitsAreNumbers DEF Within
  <2>. QED  BY <1>3, <1>4, <1>6, <2>1
<1>. QED  BY <1>1, <1>5, <1>7 DEF Within

-----------------------------------------------------------------------------
(* The steps of the validator. *)

\* The order is taken and the positions of its team are read.
LEMMA ReadPositionsKeeps ==
  ASSUME Inv, NEW o \in Orders, NEW t \in Teams, NEW x \in Shapes, ReadPositions(o, t, x)
  PROVE  Inv'
<1>1. /\ step = "idle" /\ step' = "positions" /\ current' = o /\ owner[o] = "none"
      /\ owner' = [owner EXCEPT ![o] = t] /\ shape' = [shape EXCEPT ![o] = x]
      /\ overlapped' = IF Busy(t) THEN overlapped \cup {t} ELSE overlapped
      /\ UNCHANGED <<clock, window, position, verdict, unbooked, counted, passed, refused>>
  BY DEF ReadPositions
<1>2. /\ seen' = [seen EXCEPT !.positions = position[t]]
      /\ owner \in [Orders -> Teams \cup {"none"}]
      /\ shape \in [Orders -> Shapes \cup {NoShape}]
      /\ position[t] \in [Instruments -> Int] /\ unbooked \in [Orders -> Nat]
      /\ seen \in [positions : [Instruments -> Int], count : Nat, at : Seconds]
  BY DEF ReadPositions, Inv, TypeOK
<1>3. /\ seen' \in [positions : [Instruments -> Int], count : Nat, at : Seconds]
      /\ seen'.positions = position[t]
  BY <1>2
<1>4. /\ owner' \in [Orders -> Teams \cup {"none"}] /\ owner'[o] = t
      /\ shape' \in [Orders -> Shapes \cup {NoShape}] /\ shape'[o] = x
      /\ \A p \in Orders \ {o} : owner'[p] = owner[p] /\ shape'[p] = shape[p]
      /\ unbooked[o] = 0
  BY <1>1, <1>2 DEF Inv, Working
<1>5. TypeOK'
  BY <1>1, <1>3, <1>4 DEF Inv, TypeOK
<1>6. Working'
  BY <1>1, <1>4, NamesAssumption DEF Inv, Working
<1>7. RateInv' /\ RefusedOnlyAtLimit'
  BY <1>1 DEF Inv, RateInv, WindowsCount, GetOrderCount, CountIsRead, PassedAreCounted,
              RateNeverExceeded, RefusedOnlyAtLimit
<1>8. ASSUME NEW u \in Teams \ overlapped' PROVE InTurn(u)'
  <2>1. /\ u \notin overlapped /\ (u = t => ~Busy(t)) /\ InTurn(u)
    BY <1>1, <1>8 DEF Inv, TurnInv
  <2>2. \A p \in Orders : owner'[p] = u /\ unbooked[p] > 0 =>
             /\ owner[p] = u /\ shape'[p] = shape[p]
             /\ Signed(p, unbooked[p])' = Signed(p, unbooked[p])
    BY <1>1, <1>2, <1>4 DEF Signed
  <2>3. Busy(u)' => Busy(u)
    BY <1>1, <2>2 DEF Busy
  <2>4. Within(position[u])' /\ position' = position
    BY <1>1, <2>1 DEF InTurn, Within, Limit, Total
  <2>5. \A p, q \in Orders :
          owner'[p] = u /\ owner'[q] = u /\ unbooked'[p] > 0 /\ unbooked'[q] > 0 => p = q
    BY <1>1, <2>1, <2>2 DEF InTurn
  <2>6. ASSUME NEW p \in Orders, owner'[p] = u, unbooked'[p] > 0
        PROVE  Within(Moved(position[u], shape[p].instrument, Signed(p, unbooked[p])))'
    <3>1. Within(Moved(position[u], shape[p].instrument, Signed(p, unbooked[p])))
      BY <1>1, <2>1, <2>2, <2>6 DEF InTurn
    <3>. QED  BY <1>1, <2>2, <2>6, <3>1 DEF Within, Moved, Limit, Total
  <2>7. step' \in {"positions", "checking"} /\ owner'[current'] = u =>
          seen'.positions = position'[u] /\ ~Busy(u)'
    BY <1>1, <1>3, <1>4, <2>1, <2>3
  <2>. QED  BY <2>4, <2>5, <2>6, <2>7 DEF InTurn
<1>9. TurnInv'
  BY <1>1, <1>8 DEF TurnInv
<1>. QED  BY <1>5, <1>6, <1>7, <1>9 DEF Inv

\* A step that changes no position and no order keeps the teams within limits.
LEMMA TurnInvStays ==
  ASSUME TurnInv, UNCHANGED <<position, owner, shape, unbooked, overlapped>>,
         step' \in {"positions", "checking"} =>
           step \in {"positions", "checking"} /\ current' = current
             /\ seen'.positions = seen.positions
  PROVE  TurnInv'
<1>1. ASSUME NEW t \in Teams \ overlapped PROVE InTurn(t)'
  <2>1. InTurn(t)
    BY DEF TurnInv
  <2>2. Within(position[t])'
    BY <2>1 DEF InTurn, Within, Limit, Total
  <2>3. \A p, q \in Orders :
          owner'[p] = t /\ owner'[q] = t /\ unbooked'[p] > 0 /\ unbooked'[q] > 0 => p = q
    BY <2>1 DEF InTurn
  <2>4. \A p \in Orders : owner'[p] = t /\ unbooked'[p] > 0 =>
          Within(Moved(position[t], shape[p].instrument, Signed(p, unbooked[p])))'
    BY <2>1 DEF InTurn, Within, Moved, Signed, Limit, Total
  <2>5. step' \in {"positions", "checking"} /\ owner'[current'] = t =>
          seen'.positions = position'[t] /\ ~Busy(t)'
    BY <2>1 DEF InTurn, Busy
  <2>. QED  BY <2>2, <2>3, <2>4, <2>5 DEF InTurn
<1>. QED  BY <1>1 DEF TurnInv

\* Nor does a step that leaves the windows and the validator alone exceed a rate.
LEMMA RateInvStays ==
  ASSUME RateInv, RefusedOnlyAtLimit,
         UNCHANGED <<clock, window, owner, step, current, seen, counted, passed, refused>>
  PROVE  RateInv' /\ RefusedOnlyAtLimit'
BY DEF RateInv, WindowsCount, GetOrderCount, CountIsRead, PassedAreCounted,
       RateNeverExceeded, RefusedOnlyAtLimit

\* The count of the window is the count of the second that the clock shows.
LEMMA ReadOrderCountKeeps ==
  ASSUME Inv, ReadOrderCount
  PROVE  Inv'
<1>1. /\ step = "positions" /\ step' = "checking" /\ owner[current] \in Teams
      /\ current \in Orders
      /\ UNCHANGED <<clock, window, position, owner, shape, verdict, unbooked, current,
                     counted, passed, refused, overlapped>>
  BY NamesAssumption DEF ReadOrderCount, orderVars, history, Inv, Working, TypeOK
<1>2. PICK t, n : t = owner[current] /\ n = GetOrderCount(t)
  OBVIOUS
<1>3. /\ seen' = [seen EXCEPT !.count = n, !.at = clock]
      /\ seen \in [positions : [Instruments -> Int], count : Nat, at : Seconds]
      /\ window[t].count \in Nat /\ clock \in Seconds
  BY <1>1, <1>2 DEF ReadOrderCount, Inv, TypeOK
<1>4. n \in Nat
  BY <1>2, <1>3 DEF GetOrderCount
<1>5. /\ seen' \in [positions : [Instruments -> Int], count : Nat, at : Seconds]
      /\ seen'.positions = seen.positions /\ seen'.count = n /\ seen'.at = clock
  BY <1>3, <1>4
<1>6. TypeOK'
  BY <1>1, <1>5 DEF Inv, TypeOK
<1>7. Working'
  BY <1>1 DEF Inv, Working
<1>8. clock \in Nat /\ counted[t][clock] = n
  BY <1>1, <1>2, <1>3, MaxTimeAssumption DEF Inv, RateInv, WindowsCount, Seconds
<1>9. WindowsCount' /\ RateNeverExceeded' /\ RefusedOnlyAtLimit'
  BY <1>1 DEF Inv, RateInv, WindowsCount, GetOrderCount, RateNeverExceeded,
              RefusedOnlyAtLimit
<1>10. CountIsRead'
  BY <1>1, <1>2, <1>5, <1>8 DEF CountIsRead
<1>11. \A u \in Teams : counted[u][clock] \in Nat /\ passed[u][clock] \in Nat
  BY <1>3 DEF Inv, TypeOK
<1>12. PassedAreCounted'
  <2>1. \A u \in Teams : passed[u][clock] <= counted[u][clock]
    BY <1>1, <1>11 DEF Inv, RateInv, PassedAreCounted
  <2>2. ASSUME NEW u \in Teams
        PROVE  passed'[u][clock'] <= counted'[u][clock']
                 + (IF step' = "accepted" /\ owner'[current'] = u /\ seen'.at = clock'
                    THEN 1 ELSE 0)
    BY <1>1, <1>11, <2>1
  <2>3. passed'[owner'[current']][seen'.at] <= seen'.count
    BY <1>1, <1>2, <1>5, <1>8, <2>1
  <2>. QED  BY <2>2, <2>3 DEF PassedAreCounted
<1>13. TurnInv'
  BY <1>1, <1>5, TurnInvStays DEF Inv
<1>. QED  BY <1>6, <1>7, <1>9, <1>10, <1>12, <1>13 DEF Inv, RateInv

\* A refusal for the rate is at the limit, in the second the count was read.
LEMMA RejectKeeps ==
  ASSUME Inv, Reject
  PROVE  Inv'
<1>1. PICK r, s, t : r = Result(shape[current], seen) /\ s = seen.at /\ t = owner[current]
  OBVIOUS
<1>2. /\ step = "checking" /\ r # "accepted"
      /\ verdict' = [verdict EXCEPT ![current] = r]
      /\ refused' = IF r = "order_rate" THEN refused \cup {<<t, s>>} ELSE refused
      /\ step' = "idle" /\ current' = "none" /\ seen' = NoContext
      /\ UNCHANGED <<clock, window, position, owner, shape, unbooked, counted, passed,
                     overlapped>>
  BY <1>1 DEF Reject, orderVars
<1>3. /\ current \in Orders /\ t \in Teams /\ s \in Seconds
      /\ counted[t][s] = seen.count /\ seen.count \in Nat
  BY <1>1, <1>2, NamesAssumption DEF Inv, Working, TypeOK, RateInv, CountIsRead
<1>4. NoContext \in [positions : [Instruments -> Int], count : Nat, at : Seconds]
  BY MaxTimeAssumption DEF NoContext, Seconds
<1>5. TypeOK'
  <2>1. verdict' \in [Orders -> RuleTypes \cup {"none", "accepted"}]
    BY <1>1, <1>2, <1>3, ResultIsOfAViolatedRule DEF Inv, TypeOK
  <2>2. refused' \subseteq Teams \X Seconds
    BY <1>2, <1>3 DEF Inv, TypeOK
  <2>. QED  BY <1>2, <1>4, <2>1, <2>2 DEF Inv, TypeOK
<1>6. Working'
  BY <1>2 DEF Inv, Working
<1>7. RateInv'
  BY <1>2 DEF Inv, RateInv, WindowsCount, GetOrderCount, CountIsRead, PassedAreCounted,
              RateNeverExceeded
<1>8. RefusedOnlyAtLimit'
  <2>1. ASSUME r = "order_rate" PROVE \E n \in Limit("order_rate") : counted[t][s] >= n
    <3>1. PICK n \in Limit("order_rate") : ~(seen.count < n)
      BY <1>1, <2>1, RateIsChecked
    <3>. QED  BY <1>3, <3>1, LimitsAreNumbers
  <2>. QED  BY <1>2, <2>1 DEF Inv, RefusedOnlyAtLimit
<1>9. TurnInv'
  BY <1>2, TurnInvStays DEF Inv
<1>. QED  BY <1>5, <1>6, <1>7, <1>8, <1>9 DEF Inv

\* An order is accepted below the limit of the count that was read, and the
\* positions that were read are those of the team unless it sent two at a time.
LEMMA AcceptKeeps ==
  ASSUME Inv, Accept
  PROVE  Inv'
<1>1. PICK o, x, s, t : o = current /\ x = shape[o] /\ s = seen.at /\ t = owner[o]
  OBVIOUS
<1>2. /\ step = "checking" /\ Result(x, seen) = "accepted"
      /\ verdict' = [verdict EXCEPT ![o] = "accepted"]
      /\ unbooked' = [unbooked EXCEPT ![o] = x.quantity]
      /\ passed' = [passed EXCEPT ![t][s] = @ + 1]
      /\ step' = "accepted"
      /\ UNCHANGED <<clock, window, position, owner, shape, current, seen, counted, refused,
                     overlapped>>
  BY <1>1 DEF Accept, orderVars
<1>3. /\ o \in Orders /\ t \in Teams /\ x \in Shapes /\ s \in Seconds /\ unbooked[o] = 0
      /\ counted[t][s] = seen.count /\ seen.count \in Nat /\ s <= clock
      /\ passed[t][s] <= seen.count /\ passed \in [Teams -> [Seconds -> Nat]]
      /\ counted \in [Teams -> [Seconds -> Nat]] /\ clock \in Seconds
      /\ unbooked \in [Orders -> Nat]
  BY <1>1, <1>2, NamesAssumption
  DEF Inv, Working, TypeOK, RateInv, CountIsRead, PassedAreCounted
<1>4. /\ passed' \in [Teams -> [Seconds -> Nat]]
      /\ \A u \in Teams, r \in Seconds :
           passed'[u][r] = IF u = t /\ r = s THEN passed[t][s] + 1 ELSE passed[u][r]
  <2>1. passed[t][s] + 1 \in Nat
    BY <1>3
  <2>2. passed' = [passed EXCEPT ![t][s] = passed[t][s] + 1]
    BY <1>2
  <2>3. passed \in [Teams -> [Seconds -> Nat]] /\ t \in Teams /\ s \in Seconds
    BY <1>3
  <2>. QED  BY <2>1, <2>2, <2>3, UpdateEntry
<1>5. /\ x.quantity \in Nat \ {0} /\ unbooked' \in [Orders -> Nat]
      /\ unbooked'[o] = x.quantity /\ \A p \in Orders \ {o} : unbooked'[p] = unbooked[p]
  BY <1>2, <1>3, ShapesAssumption
<1>6. \A n \in Limit("order_rate") : seen.count < n /\ n \in Nat
  BY <1>2, RateIsChecked, LimitsAreNumbers
<1>7. TypeOK'
  BY <1>2, <1>3, <1>4, <1>5 DEF Inv, TypeOK
<1>8. Working'
  BY <1>1, <1>2, <1>3, <1>5, NamesAssumption DEF Inv, Working
<1>9. RateInv'
  <2>1. \A r \in Seconds : r \in Nat
    BY MaxTimeAssumption DEF Seconds
  <2>2. WindowsCount'
    BY <1>2, <1>3, <1>4, <2>1 DEF Inv, RateInv, WindowsCount, GetOrderCount
  <2>3. CountIsRead'
    BY <1>2, <1>6 DEF Inv, RateInv, CountIsRead
  <2>4. ASSUME NEW u \in Teams
        PROVE  passed'[u][clock'] <= counted'[u][clock']
                 + (IF step' = "accepted" /\ owner'[current'] = u /\ seen'.at = clock'
                    THEN 1 ELSE 0)
    <3>1. /\ passed[u][clock] <= counted[u][clock] /\ passed[u][clock] \in Nat
          /\ counted[u][clock] \in Nat
      BY <1>2, <1>3 DEF Inv, RateInv, PassedAreCounted
    <3>. QED  BY <1>1, <1>2, <1>3, <1>4, <3>1
  <2>5. PassedAreCounted'
    BY <1>2, <2>4 DEF PassedAreCounted
  <2>6. RateNeverExceeded'
    <3>1. ASSUME NEW u \in Teams, NEW r \in Seconds, NEW n \in Limit("order_rate")
          PROVE  passed'[u][r] <= n /\ counted[u][r] <= n
      <4>1. passed[u][r] <= n /\ counted[u][r] <= n
        BY DEF Inv, RateInv, RateNeverExceeded
      <4>. QED  BY <1>3, <1>4, <1>6, <4>1
    <3>. QED  BY <1>2, <3>1 DEF RateNeverExceeded, Limit
  <2>. QED  BY <2>2, <2>3, <2>5, <2>6 DEF RateInv
<1>10. RefusedOnlyAtLimit'
  BY <1>2 DEF Inv, RefusedOnlyAtLimit
<1>11. ASSUME NEW u \in Teams \ overlapped PROVE InTurn(u)'
  <2>1. InTurn(u)
    BY <1>11 DEF Inv, TurnInv
  <2>3. Within(position[u])' /\ position' = position
    BY <1>2, <2>1 DEF InTurn, Within, Limit, Total
  <2>4. CASE u # t
    <3>1. \A p \in Orders : owner[p] = u => p # o
      BY <1>1, <2>4
    <3>2. \A p, q \in Orders :
            owner'[p] = u /\ owner'[q] = u /\ unbooked'[p] > 0 /\ unbooked'[q] > 0 => p = q
      BY <1>2, <1>5, <2>1, <3>1 DEF InTurn
    <3>3. \A p \in Orders : owner'[p] = u /\ unbooked'[p] > 0 =>
            Within(Moved(position[u], shape[p].instrument, Signed(p, unbooked[p])))'
      BY <1>2, <1>5, <2>1, <3>1 DEF InTurn, Within, Moved, Signed, Limit, Total
    <3>. QED  BY <1>2, <2>3, <3>2, <3>3 DEF InTurn
  <2>5. CASE u = t
    <3>1. seen.positions = position[t] /\ ~Busy(t) /\ Within(position[t])
      BY <1>1, <1>2, <2>1, <2>5 DEF InTurn
    <3>2. \A p \in Orders : owner'[p] = u /\ unbooked'[p] > 0 => p = o
      BY <1>2, <1>5, <2>5, <3>1 DEF Busy
    <3>3. position[t] \in [Instruments -> Int]
      BY <1>3 DEF Inv, TypeOK
    <3>4. Within(Moved(position[t], x.instrument, Delta(x)))
      BY <1>2, <1>3, <3>1, <3>3, AcceptedStaysWithin
    <3>5. Delta(x) = Signed(o, x.quantity)
      BY <1>1 DEF Delta, Signed
    <3>6. Within(Moved(position[u], shape[o].instrument, Signed(o, unbooked[o])))'
      BY <1>1, <1>2, <1>5, <2>5, <3>4, <3>5 DEF Within, Moved, Signed, Limit, Total
    <3>. QED  BY <1>2, <2>3, <3>2, <3>6 DEF InTurn
  <2>. QED  BY <2>4, <2>5
<1>12. TurnInv'
  BY <1>2, <1>11 DEF TurnInv
<1>. QED  BY <1>7, <1>8, <1>9, <1>10, <1>12 DEF Inv

\* The order is counted in the second the clock shows now, which may be later
\* than the second it was accepted in; then it is the first of that second.
LEMMA IncrementOrderCountKeeps ==
  ASSUME Inv, IncrementOrderCount
  PROVE  Inv'
<1>1. PICK t : t = owner[current]
  OBVIOUS
<1>2. /\ step = "accepted" /\ step' = "idle" /\ current' = "none" /\ seen' = NoContext
      /\ window' = [window EXCEPT ![t] = NextWindow(t)]
      /\ counted' = [counted EXCEPT ![t][clock] = @ + 1]
      /\ UNCHANGED <<clock, position, owner, shape, verdict, unbooked, passed, refused,
                     overlapped>>
  BY <1>1 DEF IncrementOrderCount, orderVars
<1>3. /\ t \in Teams /\ clock \in Seconds /\ clock \in Nat
      /\ counted \in [Teams -> [Seconds -> Nat]] /\ passed \in [Teams -> [Seconds -> Nat]]
      /\ window \in [Teams -> [count : Nat, second : Seconds]]
      /\ seen.count \in Nat /\ seen.at \in Nat /\ seen.at <= clock
  <2>1. \A s \in Seconds : s \in Nat
    BY MaxTimeAssumption DEF Seconds
  <2>2. t \in Teams /\ clock \in Seconds /\ seen.at \in Seconds /\ seen.count \in Nat
    BY <1>1, <1>2 DEF Inv, Working, TypeOK
  <2>3. seen.at <= clock
    BY <1>2 DEF Inv, RateInv, CountIsRead
  <2>. QED  BY <2>1, <2>2, <2>3 DEF Inv, TypeOK
<1>4. /\ counted' \in [Teams -> [Seconds -> Nat]]
      /\ \A u \in Teams, r \in Seconds :
           counted'[u][r] =
             IF u = t /\ r = clock THEN counted[t][clock] + 1 ELSE counted[u][r]
  <2>1. counted[t][clock] + 1 \in Nat
    BY <1>3
  <2>2. counted' = [counted EXCEPT ![t][clock] = counted[t][clock] + 1]
    BY <1>2
  <2>3. counted \in [Teams -> [Seconds -> Nat]] /\ t \in Teams /\ clock \in Seconds
    BY <1>3
  <2>. QED  BY <2>1, <2>2, <2>3, UpdateEntry
<1>5. PICK w : w = NextWindow(t)
  OBVIOUS
<1>6. /\ w \in [count : Nat, second : Seconds] /\ w.count = GetOrderCount(t) + 1
      /\ w.second = clock
  <2>1. window[t] \in [count : Nat, second : Seconds]
    BY <1>3
  <2>2. CASE window[t].count > 0 /\ window[t].second = clock
    <3>1. w = [window[t] EXCEPT !.count = @ + 1]
      BY <1>5, <2>2 DEF NextWindow
    <3>. QED  BY <2>1, <2>2, <3>1 DEF GetOrderCount
  <2>3. CASE ~(window[t].count > 0 /\ window[t].second = clock)
    <3>1. w = [count |-> 1, second |-> clock]
      BY <1>5, <2>3 DEF NextWindow
    <3>. QED  BY <1>3, <2>3, <3>1 DEF GetOrderCount
  <2>. QED  BY <2>2, <2>3
<1>7. /\ window' \in [Teams -> [count : Nat, second : Seconds]]
      /\ window'[t] = w /\ \A u \in Teams \ {t} : window'[u] = window[u]
  BY <1>2, <1>3, <1>5, <1>6
<1>8. TypeOK'
  <2>1. NoContext \in [positions : [Instruments -> Int], count : Nat, at : Seconds]
    BY MaxTimeAssumption DEF NoContext, Seconds
  <2>. QED  BY <1>2, <1>4, <1>7, <2>1 DEF Inv, TypeOK
<1>9. Working'
  BY <1>2 DEF Inv, Working
<1>10. RateInv'
  <2>1. WindowsCount'
    <3>1. \A r \in Seconds : r \in Nat
      BY MaxTimeAssumption DEF Seconds
    <3>2. ASSUME NEW u \in Teams
          PROVE  /\ window'[u].second <= clock'
                 /\ counted'[u][clock'] = GetOrderCount(u)'
                 /\ \A s \in Seconds : s > clock' => counted'[u][s] = 0 /\ passed'[u][s] = 0
      <4>1. /\ window[u].second <= clock /\ counted[u][clock] = GetOrderCount(u)
            /\ \A s \in Seconds : s > clock => counted[u][s] = 0 /\ passed[u][s] = 0
        BY DEF Inv, RateInv, WindowsCount
      <4>2. CASE u = t
        <5>1. GetOrderCount(u)' = counted[u][clock] + 1
          BY <1>2, <1>3, <1>6, <1>7, <4>1, <4>2 DEF GetOrderCount
        <5>. QED  BY <1>2, <1>3, <1>4, <1>6, <1>7, <3>1, <4>1, <4>2, <5>1
      <4>3. CASE u # t
        <5>1. GetOrderCount(u)' = GetOrderCount(u)
          BY <1>2, <1>7, <4>3 DEF GetOrderCount
        <5>. QED  BY <1>2, <1>3, <1>4, <1>7, <3>1, <4>1, <4>3, <5>1
      <4>. QED  BY <4>2, <4>3
    <3>. QED  BY <3>2 DEF WindowsCount
  <2>2. CountIsRead'
    BY <1>2 DEF CountIsRead
  <2>3. PassedAreCounted'
    <3>1. ASSUME NEW u \in Teams PROVE passed[u][clock] <= counted'[u][clock] + 0
      <4>1. /\ passed[u][clock] <= counted[u][clock] \/ u = t
            /\ passed[u][clock] <= counted[u][clock] + 1
            /\ passed[u][clock] \in Nat /\ counted[u][clock] \in Nat
        BY <1>1, <1>3 DEF Inv, RateInv, PassedAreCounted
      <4>. QED  BY <1>3, <1>4, <4>1
    <3>. QED  BY <1>2, <3>1 DEF PassedAreCounted
  <2>4. RateNeverExceeded'
    <3>1. ASSUME NEW n \in Limit("order_rate") PROVE counted[t][clock] + 1 <= n
      <4>1. n \in Nat /\ seen.count < n
        BY <1>2, LimitsAreNumbers DEF Inv, RateInv, CountIsRead
      <4>2. counted[t][clock] = seen.count \/ counted[t][clock] = 0
        <5>1. /\ counted[t][seen.at] = seen.count
              /\ seen.at < clock => counted[t][clock] = 0
          BY <1>1, <1>2 DEF Inv, RateInv, CountIsRead
        <5>2. ASSUME NEW a \in Nat, NEW c \in Nat, a <= c PROVE a < c \/ a = c
          BY <5>2
        <5>3. seen.at < clock \/ seen.at = clock
          BY <1>3, <5>2
        <5>. QED  BY <5>1, <5>3
      <4>. QED  BY <1>3, <4>1, <4>2
    <3>2. ASSUME NEW u \in Teams, NEW r \in Seconds, NEW n \in Limit("order_rate")
          PROVE  passed[u][r] <= n /\ counted'[u][r] <= n
      <4>1. passed[u][r] <= n /\ counted[u][r] <= n
        BY DEF Inv, RateInv, RateNeverExceeded
      <4>. QED  BY <1>4, <3>1, <4>1
    <3>. QED  BY <1>2, <3>2 DEF RateNeverExceeded, Limit
  <2>. QED  BY <2>1, <2>2, <2>3, <2>4 DEF RateInv
<1>11. RefusedOnlyAtLimit'
  <2>1. ASSUME NEW r \in refused
        PROVE  \E n \in Limit("order_rate") : counted'[r[1]][r[2]] >= n
    <3>1. PICK n \in Limit("order_rate") : counted[r[1]][r[2]] >= n
      BY DEF Inv, RefusedOnlyAtLimit
    <3>2. r[1] \in Teams /\ r[2] \in Seconds
      BY DEF Inv, TypeOK
    <3>3. n \in Nat
      BY LimitsAreNumbers
    <3>4. counted[r[1]][r[2]] \in Nat
      BY <1>3, <3>2
    <3>5. counted'[r[1]][r[2]] \in {counted[r[1]][r[2]], counted[r[1]][r[2]] + 1}
      BY <1>4, <3>2
    <3>6. counted'[r[1]][r[2]] >= n
      BY <3>1, <3>3, <3>4, <3>5
    <3>. QED  BY <3>6
  <2>. QED  BY <1>2, <2>1 DEF RefusedOnlyAtLimit, Limit
<1>12. TurnInv'
  BY <1>2, TurnInvStays DEF Inv
<1>. QED  BY <1>8, <1>9, <1>10, <1>11, <1>12 DEF Inv

-----------------------------------------------------------------------------
(* The steps around it. *)

\* The position moves towards what the order was validated for.
LEMMA UpdatePositionKeeps ==
  ASSUME Inv, NEW o \in Orders, NEW n \in 1..unbooked[o], UpdatePosition(o, n)
  PROVE  Inv'
<1>1. PICK t, i, d : t = owner[o] /\ i = shape[o].instrument /\ d = Signed(o, n)
  OBVIOUS
<1>2. /\ unbooked \in [Orders -> Nat] /\ unbooked[o] \in Nat /\ n \in Nat /\ n > 0
      /\ n <= unbooked[o] /\ position \in [Teams -> [Instruments -> Int]]
  BY DEF Inv, TypeOK
<1>3. t \in Teams /\ i \in Instruments /\ d \in Int
  BY <1>1, <1>2, ShapesAssumption DEF Inv, Working, Signed
<1>4. /\ unbooked' = [unbooked EXCEPT ![o] = unbooked[o] - n]
      /\ UNCHANGED <<clock, window, owner, shape, verdict, current, step, seen, counted,
                     passed, refused, overlapped>>
  BY DEF UpdatePosition, orderVars, history
<1>5. PICK q : q = Moved(position[t], i, d)
  OBVIOUS
<1>6. q \in [Instruments -> Int] /\ position[t] \in [Instruments -> Int]
  BY <1>2, <1>3, <1>5 DEF Moved
<1>7. position' = [position EXCEPT ![t] = q]
  <2>1. position' = [position EXCEPT ![t][i] =
                       IF shape[o].side = "buy" THEN @ + n ELSE @ - n]
    BY <1>1 DEF UpdatePosition
  <2>2. position[t][i] \in Int
    BY <1>3, <1>6
  <2>3. (IF shape[o].side = "buy" THEN position[t][i] + n ELSE position[t][i] - n)
          = position[t][i] + d
    BY <1>1, <1>2, <2>2 DEF Signed
  <2>4. position' = [position EXCEPT ![t][i] = position[t][i] + d]
    BY <2>1, <2>3
  <2>. QED  BY <1>5, <2>4 DEF Moved
<1>8. /\ position' \in [Teams -> [Instruments -> Int]] /\ position'[t] = q
      /\ \A u \in Teams \ {t} : position'[u] = position[u]
  BY <1>2, <1>3, <1>6, <1>7
<1>9. /\ unbooked' \in [Orders -> Nat] /\ unbooked'[o] = unbooked[o] - n
      /\ \A p \in Orders \ {o} : unbooked'[p] = unbooked[p]
      /\ \A p \in Orders : unbooked'[p] > 0 => unbooked[p] > 0
  <2>1. unbooked[o] - n \in Nat
    BY <1>2
  <2>. QED  BY <1>2, <1>4, <2>1
<1>10. TypeOK'
  BY <1>4, <1>8, <1>9 DEF Inv, TypeOK
<1>11. Working'
  BY <1>2, <1>4, <1>9 DEF Inv, Working
<1>12. RateInv' /\ RefusedOnlyAtLimit'
  BY <1>4, RateInvStays DEF Inv
<1>13. ASSUME NEW u \in Teams \ overlapped PROVE InTurn(u)'
  <2>1. InTurn(u)
    BY <1>13 DEF Inv, TurnInv
  <2>2. \A p, r \in Orders :
          owner'[p] = u /\ owner'[r] = u /\ unbooked'[p] > 0 /\ unbooked'[r] > 0 => p = r
    BY <1>4, <1>9, <2>1 DEF InTurn
  <2>3. CASE u # t
    <3>1. Within(position[u])'
      BY <1>8, <2>1, <2>3 DEF InTurn, Within, Limit, Total
    <3>2. \A p \in Orders : owner[p] = u => p # o
      BY <1>1, <2>3
    <3>3. \A p \in Orders : owner'[p] = u /\ unbooked'[p] > 0 =>
            Within(Moved(position[u], shape[p].instrument, Signed(p, unbooked[p])))'
      <4>1. ASSUME NEW p \in Orders, owner'[p] = u, unbooked'[p] > 0
            PROVE  Within(Moved(position[u], shape[p].instrument, Signed(p, unbooked[p])))'
        <5>1. /\ unbooked'[p] = unbooked[p] /\ shape'[p] = shape[p]
              /\ position'[u] = position[u]
          BY <1>4, <1>8, <1>9, <2>3, <3>2, <4>1
        <5>2. Within(Moved(position[u], shape[p].instrument, Signed(p, unbooked[p])))
          BY <1>4, <2>1, <4>1, <5>1 DEF InTurn
        <5>3. Moved(position[u], shape[p].instrument, Signed(p, unbooked[p]))'
                = Moved(position[u], shape[p].instrument, Signed(p, unbooked[p]))
          BY <5>1 DEF Moved, Signed
        <5>. QED  BY <5>2, <5>3 DEF Within, Limit, Total
      <4>. QED  BY <4>1
    <3>4. Busy(u)' => Busy(u)
      BY <1>4, <1>9 DEF Busy
    <3>5. step' \in {"positions", "checking"} /\ owner'[current'] = u =>
            seen'.positions = position'[u] /\ ~Busy(u)'
      BY <1>4, <1>8, <2>1, <2>3, <3>4 DEF InTurn
    <3>. QED  BY <2>2, <3>1, <3>3, <3>5 DEF InTurn
  <2>4. CASE u = t
    <3>1. PICK e, m, f :
            e = Signed(o, unbooked[o]) /\ m = unbooked[o] - n /\ f = Signed(o, m)
      OBVIOUS
    <3>2. /\ e \in Int /\ m \in Nat /\ f \in Int /\ d + f = e
          /\ (0 <= d /\ d <= e) \/ (e <= d /\ d <= 0)
      BY <1>1, <1>2, <3>1 DEF Signed
    <3>3. Within(position[t]) /\ Within(Moved(position[t], i, e))
      BY <1>1, <1>2, <2>1, <2>4, <3>1 DEF InTurn
    <3>4. Within(q)
      BY <1>3, <1>5, <1>6, <3>2, <3>3, WithinIsConvex
    <3>5. Within(position[u])'
      BY <1>8, <2>4, <3>4 DEF Within, Limit, Total
    <3>6. Moved(q, i, f) = Moved(position[t], i, e)
      BY <1>3, <1>5, <1>6, <3>2 DEF Moved
    <3>7. Within(Moved(position[u], shape[o].instrument, Signed(o, unbooked[o])))'
      <4>1. Signed(o, unbooked[o])' = f
        BY <1>4, <1>9, <3>1 DEF Signed
      <4>2. Moved(position[u], shape[o].instrument, Signed(o, unbooked[o]))'
              = Moved(position[t], i, e)
        BY <1>1, <1>4, <1>8, <2>4, <3>6, <4>1 DEF Moved
      <4>. QED  BY <3>3, <4>2 DEF Within, Limit, Total
    <3>8. \A p \in Orders : owner'[p] = u /\ unbooked'[p] > 0 => p = o
      BY <1>1, <1>2, <1>4, <1>9, <2>1, <2>4 DEF InTurn
    <3>9. Busy(t) /\ (step \in {"positions", "checking"} /\ owner[current] = u => ~Busy(u))
      BY <1>1, <1>2, <2>1 DEF InTurn, Busy
    <3>. QED  BY <1>4, <2>2, <2>4, <3>5, <3>7, <3>8, <3>9 DEF InTurn
  <2>. QED  BY <2>3, <2>4
<1>14. TurnInv'
  BY <1>4, <1>13 DEF TurnInv
<1>. QED  BY <1>10, <1>11, <1>12, <1>14 DEF Inv

\* An order ends before it is filled.
LEMMA EndsKeeps ==
  ASSUME Inv, NEW o \in Orders, Ends(o)
  PROVE  Inv'
<1>1. /\ unbooked' = [unbooked EXCEPT ![o] = 0] /\ unbooked \in [Orders -> Nat]
      /\ UNCHANGED <<clock, window, position, owner, shape, verdict, current, step, seen,
                     counted, passed, refused, overlapped>>
  BY DEF Ends, orderVars, history, Inv, TypeOK
<1>2. /\ unbooked' \in [Orders -> Nat] /\ unbooked'[o] = 0
      /\ \A p \in Orders : unbooked'[p] > 0 => unbooked'[p] = unbooked[p]
  BY <1>1
<1>3. TypeOK'
  BY <1>1, <1>2 DEF Inv, TypeOK
<1>4. Working'
  BY <1>1, <1>2 DEF Inv, Working
<1>5. RateInv' /\ RefusedOnlyAtLimit'
  BY <1>1, RateInvStays DEF Inv
<1>6. ASSUME NEW u \in Teams \ overlapped PROVE InTurn(u)'
  <2>1. InTurn(u)
    BY <1>6 DEF Inv, TurnInv
  <2>2. Within(position[u])'
    BY <1>1, <2>1 DEF InTurn, Within, Limit, Total
  <2>3. \A p, r \in Orders :
          owner'[p] = u /\ owner'[r] = u /\ unbooked'[p] > 0 /\ unbooked'[r] > 0 => p = r
    BY <1>1, <1>2, <2>1 DEF InTurn
  <2>4. \A p \in Orders : owner'[p] = u /\ unbooked'[p] > 0 =>
          Within(Moved(position[u], shape[p].instrument, Signed(p, unbooked[p])))'
    BY <1>1, <1>2, <2>1 DEF InTurn, Within, Moved, Signed, Limit, Total
  <2>5. step' \in {"positions", "checking"} /\ owner'[current'] = u =>
          seen'.positions = position'[u] /\ ~Busy(u)'
    BY <1>1, <1>2, <2>1 DEF InTurn, Busy
  <2>. QED  BY <2>2, <2>3, <2>4, <2>5 DEF InTurn
<1>7. TurnInv'
  BY <1>1, <1>6 DEF TurnInv
<1>. QED  BY <1>3, <1>4, <1>5, <1>7 DEF Inv

\* A new second: nothing has been counted for it yet.
LEMMA TickKeeps ==
  ASSUME Inv, Tick
  PROVE  Inv'
<1>1. /\ clock < MaxTime /\ clock' = clock + 1
      /\ UNCHANGED <<window, position, owner, shape, verdict, unbooked, current, step, seen,
                     counted, passed, refused, overlapped>>
  BY DEF Tick, orderVars, history
<1>2. clock \in Nat /\ clock' \in Seconds /\ \A s \in Seconds : s \in Nat
  BY <1>1, MaxTimeAssumption DEF Inv, TypeOK, Seconds
<1>3. TypeOK'
  BY <1>1, <1>2 DEF Inv, TypeOK
<1>4. Working'
  BY <1>1 DEF Inv, Working
<1>5. ASSUME NEW t \in Teams
      PROVE  /\ window[t].second \in Nat /\ window[t].second <= clock
             /\ counted[t][clock'] = 0 /\ passed[t][clock'] = 0
             /\ \A s \in Seconds : s > clock => counted[t][s] = 0 /\ passed[t][s] = 0
  <2>1. window[t].second \in Seconds
    BY DEF Inv, TypeOK
  <2>2. clock' \in Nat /\ clock' > clock
    BY <1>1, <1>2
  <2>3. /\ window[t].second <= clock
        /\ \A s \in Seconds : s > clock => counted[t][s] = 0 /\ passed[t][s] = 0
    BY DEF Inv, RateInv, WindowsCount
  <2>. QED  BY <1>2, <2>1, <2>2, <2>3
<1>6. WindowsCount'
  <2>1. ASSUME NEW t \in Teams PROVE GetOrderCount(t)' = 0
    BY <1>1, <1>2, <1>5 DEF GetOrderCount
  <2>2. ASSUME NEW t \in Teams
        PROVE  /\ window'[t].second <= clock'
               /\ counted'[t][clock'] = GetOrderCount(t)'
               /\ \A s \in Seconds : s > clock' => counted'[t][s] = 0 /\ passed'[t][s] = 0
    <3>1. window[t].second <= clock'
      BY <1>1, <1>2, <1>5
    <3>2. \A s \in Seconds : s > clock' => s > clock
      BY <1>1, <1>2
    <3>. QED  BY <1>1, <1>5, <2>1, <3>1, <3>2
  <2>. QED  BY <2>2 DEF WindowsCount
<1>7. CountIsRead'
  <2>1. ASSUME step \in {"checking", "accepted"}
        PROVE  seen.at <= clock' /\ counted[owner[current]][clock'] = 0
    <3>1. seen.at <= clock /\ seen.at \in Nat
      BY <1>2, <2>1 DEF Inv, RateInv, CountIsRead, TypeOK
    <3>2. owner[current] \in Teams
      BY <2>1 DEF Inv, Working
    <3>. QED  BY <1>1, <1>2, <1>5, <3>1, <3>2
  <2>. QED  BY <1>1, <2>1 DEF Inv, RateInv, CountIsRead, Limit
<1>8. PassedAreCounted'
  <2>1. ASSUME NEW t \in Teams
        PROVE  passed'[t][clock'] <= counted'[t][clock']
                 + (IF step' = "accepted" /\ owner'[current'] = t /\ seen'.at = clock'
                    THEN 1 ELSE 0)
    BY <1>1, <1>5
  <2>2. step' = "checking" => passed'[owner'[current']][seen'.at] <= seen'.count
    BY <1>1 DEF Inv, RateInv, PassedAreCounted
  <2>. QED  BY <2>1, <2>2 DEF PassedAreCounted
<1>9. RateNeverExceeded' /\ RefusedOnlyAtLimit'
  BY <1>1 DEF Inv, RateInv, RateNeverExceeded, RefusedOnlyAtLimit
<1>10. TurnInv'
  BY <1>1, TurnInvStays DEF Inv
<1>. QED  BY <1>3, <1>4, <1>6, <1>7, <1>8, <1>9, <1>10 DEF Inv, RateInv

-----------------------------------------------------------------------------
(* The theorems. *)

\* Nothing has been sent, counted or traded.
LEMMA InitInv == Init => Inv
<1>. SUFFICES ASSUME Init PROVE Inv
  OBVIOUS
<1>1. 0 \in Seconds /\ \A s \in Seconds : s \in Nat
  BY MaxTimeAssumption DEF Seconds
<1>2. NoContext \in [positions : [Instruments -> Int], count : Nat, at : Seconds]
  BY <1>1 DEF NoContext
<1>3. TypeOK
  BY <1>1, <1>2 DEF Init, TypeOK
<1>4. Working
  BY DEF Init, Working
<1>5. RateInv
  <2>1. \A n \in Limit("order_rate") : n \in Nat
    BY LimitsAreNumbers
  <2>. QED  BY <1>1, <2>1 DEF Init, RateInv, WindowsCount, GetOrderCount, CountIsRead,
                PassedAreCounted, RateNeverExceeded
<1>6. RefusedOnlyAtLimit
  BY DEF Init, RefusedOnlyAtLimit
<1>7. ASSUME NEW t \in Teams PROVE InTurn(t)
  <2>1. PICK f : f = [i \in Instruments |-> Abs(position[t][i])]
    OBVIOUS
  <2>2. \A i \in Instruments : position[t][i] = 0 /\ f[i] = 0
    BY <2>1 DEF Init, Abs
  <2>3. Total(position[t]) = 0
    <3>1. SumFunctionOnSet(f, Instruments) = 0
      BY <2>2, InstrumentsAssumption, SumOfZeros
    <3>. QED  BY <2>1, <3>1 DEF Total
  <2>4. Within(position[t])
    BY <2>2, <2>3, LimitsAreNumbers DEF Within, Abs
  <2>. QED  BY <2>4 DEF Init, InTurn
<1>. QED  BY <1>3, <1>4, <1>5, <1>6, <1>7 DEF Inv, TurnInv

\* Every step keeps the invariant.
LEMMA NextKeepsInv == Inv /\ [Next]_vars => Inv'
<1>. SUFFICES ASSUME Inv, [Next]_vars PROVE Inv'
  OBVIOUS
<1>1. CASE UNCHANGED vars
  <2>1. UNCHANGED <<clock, window, position, owner, shape, verdict, unbooked, current,
                    step, seen, counted, passed, refused, overlapped>>
    BY <1>1 DEF vars, orderVars, history
  <2>2. TypeOK' /\ Working'
    BY <2>1 DEF Inv, TypeOK, Working
  <2>. QED  BY <2>1, <2>2, RateInvStays, TurnInvStays DEF Inv
<1>2. ASSUME NEW o \in Orders,
             Ends(o) \/ \E n \in 1..unbooked[o] : UpdatePosition(o, n)
      PROVE  Inv'
  BY <1>2, EndsKeeps, UpdatePositionKeeps
<1>. QED  BY <1>1, <1>2, ReadPositionsKeeps, ReadOrderCountKeeps, RejectKeeps, AcceptKeeps,
             IncrementOrderCountKeeps, TickKeeps DEF Next

\* The invariant holds in every reachable state.
LEMMA Invariance == Spec => []Inv
BY InitInv, NextKeepsInv, PTL DEF Spec

\* Every variable keeps its type: the validator's order is one that was sent,
\* counts are natural numbers of seconds that have come.
THEOREM TypeCorrect == Spec => []TypeOK
<1>1. Inv => TypeOK
  BY DEF Inv
<1>. QED  BY <1>1, Invariance, PTL

\* Whatever the rules and their order, and however the clock goes on between
\* the check of an order and its count, no team has more orders accepted in a
\* second, or counted in it, than any rate rule allows.
THEOREM RateIsKept == Spec => []RateNeverExceeded
<1>1. Inv => RateNeverExceeded
  BY DEF Inv, RateInv
<1>. QED  BY <1>1, Invariance, PTL

\* A team is never refused for orders of an earlier second.
THEOREM RefusalsAreDue == Spec => []RefusedOnlyAtLimit
<1>1. Inv => RefusedOnlyAtLimit
  BY DEF Inv
<1>. QED  BY <1>1, Invariance, PTL

\* A team with one order at a time stays within every position and portfolio
\* limit while that order is filled part by part.
THEOREM OneAtATimeIsWithinLimits == Spec => []LimitsKeptInTurn
<1>1. Inv => LimitsKeptInTurn
  BY DEF Inv, TurnInv, InTurn, Within, LimitsKeptInTurn
<1>. QED  BY <1>1, Invariance, PTL
====
