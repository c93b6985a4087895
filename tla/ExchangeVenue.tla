---- MODULE ExchangeVenue ----
(***************************************************************************)
(* ExchangeVenue for one instrument: the order book of OrderBook, the      *)
(* market phases, the batch engine that collects pre-open orders, the      *)
(* opening auction and the cancellation of all orders at the close.        *)
(*                                                                         *)
(* The phase that the clock gives and the phase the venue acts on differ:  *)
(* submissions and cancellations consult a state cached by the last        *)
(* check_phase_transitions, which the matching thread calls between        *)
(* orders.  Venue calls are atomic here, except that the matching thread   *)
(* works through the matching loop and the auction in steps.               *)
(***************************************************************************)
EXTENDS OrderBook

CONSTANT
  Prompt     \* TRUE: the matching thread checks at least once in every phase

ASSUME PromptAssumption == Prompt \in BOOLEAN

VARIABLES
  phase,      \* the phase the schedule gives for the current time
  cached,     \* _current_phase_state
  last,       \* _last_phase of the transition handler
  known,      \* all_order_ids
  batch,      \* pending_orders of the batch engine
  task,       \* what the matching thread is doing in execute_opening_auction
  buys, sells,\* the batch in the order in which the auction takes it
  published   \* indices of the trades that were put on the trade queue

venueVars == <<phase, cached, last, known, batch, task, buys, sells, published>>
allVars == <<vars, venueVars>>

-----------------------------------------------------------------------------
(* The phases and their rules, from the default configuration. *)

Phases == {"closed", "pre_open", "opening_auction", "continuous"}

\* Mutant: the name the documentation uses.
NextPhaseByDocs == [closed          |-> "pre_market",
                    pre_open        |-> "opening_auction",
                    opening_auction |-> "continuous",
                    continuous      |-> "closed"]

NextPhase == [closed          |-> "pre_open",
              pre_open        |-> "opening_auction",
              opening_auction |-> "continuous",
              continuous      |-> "closed"]

SubmissionAllowed(f)   == f \in {"pre_open", "continuous"}
CancellationAllowed(f) == f \in {"pre_open", "continuous"}
MatchingEnabled(f)     == f \in {"opening_auction", "continuous"}
BatchStyle(f)          == f = "opening_auction"

ShouldUseBatchEngine(f) == BatchStyle(f) \/ ~MatchingEnabled(f)

VenueTypeOK ==
  /\ {phase, cached, last} \subseteq Phases
  /\ known \subseteq Orders
  /\ batch \subseteq Orders
  /\ task \in {"idle", "crossing", "adding"}
  /\ buys \in Seq(Orders)
  /\ sells \in Seq(Orders)
  /\ published \subseteq DOMAIN trades

\* Venue and transition handler are made in one phase and begin with it.
VenueInit ==
  /\ Init
  /\ phase \in Phases
  /\ cached = phase
  /\ last = phase
  /\ known = {}
  /\ batch = {}
  /\ task = "idle"
  /\ buys = <<>>
  /\ sells = <<>>
  /\ published = {}

\* The matching thread is between two calls.
Idle == task = "idle" /\ incoming = NoOrder

-----------------------------------------------------------------------------
(* submit_order and cancel_order. *)

SubmitRejected(o, s, p, q) ==
  /\ Idle
  /\ ~SubmissionAllowed(cached)
  /\ NewOrder(o, s, p, q)
  /\ status' = [status EXCEPT ![o] = "rejected"]
  /\ UNCHANGED <<arrived, bookVars, incoming, trades, venueVars>>

SubmitToBatch(o, s, p, q) ==
  /\ Idle
  /\ SubmissionAllowed(cached)
  /\ ShouldUseBatchEngine(cached)
  /\ NewOrder(o, s, p, q)
  /\ known' = known \cup {o}
  /\ batch' = batch \cup {o}
  /\ status' = [status EXCEPT ![o] = "pending_new"]
  /\ UNCHANGED <<arrived, bookVars, incoming, trades, phase, cached, last, task,
                 buys, sells, published>>

SubmitContinuous(o, s, p, q) ==
  /\ Idle
  /\ SubmissionAllowed(cached)
  /\ ~ShouldUseBatchEngine(cached)
  /\ Submit(o, s, p, q)
  /\ known' = known \cup {o}
  /\ UNCHANGED <<phase, cached, last, batch, task, buys, sells, published>>

\* Only the books are searched, so an order that waits in the batch engine is
\* not found; where nothing is found nothing changes.
CancelOrder(o) ==
  /\ Idle
  /\ CancellationAllowed(cached)
  /\ o \in known
  /\ Cancel(o)
  /\ known' = known \ {o}
  /\ UNCHANGED <<phase, cached, last, batch, task, buys, sells, published>>

-----------------------------------------------------------------------------
(* The opening auction. *)

\* _randomize_same_price_orders: by price, in any order within a price.  The
\* sort key of a market order is 0 on both sides.
\* Mutant: both sides are sorted by rising price.
RisingPrice(o) == limit[o]

SortKey(o) == IF side[o] = "buy" THEN -limit[o] ELSE limit[o]

Sorted(S) ==
  {f \in SetToSeqs(S) : \A i, j \in DOMAIN f : i < j => SortKey(f[i]) <= SortKey(f[j])}

OfSide(s) == {o \in batch : side[o] = s}

StartAuction ==
  /\ buys' \in Sorted(OfSide("buy"))
  /\ sells' \in Sorted(OfSide("sell"))
  /\ task' = "crossing"

Crossing ==
  /\ buys # <<>> /\ sells # <<>>
  /\ limit[Head(buys)] # Market /\ limit[Head(sells)] # Market
  /\ limit[Head(buys)] >= limit[Head(sells)]

\* Mutant: both orders leave the auction after a trade.
CrossBoth ==
  LET b == Head(buys)
      s == Head(sells)
      q == FillQuantity(b, s)
  IN /\ task = "crossing"
     /\ Crossing
     /\ trades' = Append(trades, Trade(b, s, limit[s], q))
     /\ remaining' = [remaining EXCEPT ![b] = @ - q, ![s] = @ - q]
     /\ buys' = Tail(buys) /\ sells' = Tail(sells)
     /\ UNCHANGED <<orderVars, status, bookVars, incoming, phase, cached, last,
                    known, batch, task, published>>

\* One iteration of match_batch_orders: a trade at the sell price.
CrossStep ==
  LET b == Head(buys)
      s == Head(sells)
      q == FillQuantity(b, s)
  IN /\ task = "crossing"
     /\ Crossing
     /\ trades' = Append(trades, Trade(b, s, limit[s], q))
     /\ remaining' = [remaining EXCEPT ![b] = @ - q, ![s] = @ - q]
     /\ buys' = IF remaining[b] = q THEN Tail(buys) ELSE buys
     /\ sells' = IF remaining[s] = q THEN Tail(sells) ELSE sells
     /\ UNCHANGED <<orderVars, status, bookVars, incoming, phase, cached, last,
                    known, batch, task, published>>

CrossDone ==
  /\ task = "crossing"
  /\ ~Crossing
  /\ task' = "adding"
  /\ UNCHANGED <<vars, phase, cached, last, known, batch, buys, sells, published>>

\* What is left goes through the continuous matching of the book, the buy
\* orders first.
AddLeftover ==
  /\ task = "adding"
  /\ buys # <<>> \/ sells # <<>>
  /\ AddOrder(IF buys # <<>> THEN Head(buys) ELSE Head(sells))
  /\ buys' = IF buys # <<>> THEN Tail(buys) ELSE buys
  /\ sells' = IF buys # <<>> THEN sells ELSE Tail(sells)
  /\ UNCHANGED <<side, limit, quantity, remaining, status, bookVars, trades, phase,
                 cached, last, known, batch, task, published>>

\* finalize_results computes every order's result; the caller drops them.
FinishAuction ==
  /\ task = "adding"
  /\ incoming = NoOrder
  /\ buys = <<>> /\ sells = <<>>
  /\ task' = "idle"
  /\ batch' = {}
  /\ status' = [o \in Orders |-> IF o \in batch THEN Outcome(o) ELSE status[o]]
  /\ UNCHANGED <<orderVars, remaining, bookVars, incoming, trades, phase, cached,
                 last, known, buys, sells, published>>

-----------------------------------------------------------------------------
(* Phases. *)

TimePasses ==
  /\ Prompt => last = phase
  /\ phase' = NextPhase[phase]
  /\ UNCHANGED <<vars, cached, last, known, batch, task, buys, sells, published>>

\* cancel_all_orders: every order in the two lists is cancelled.
CancelAll ==
  /\ level' = [s \in Sides |-> {}]
  /\ queue' = [s \in Sides |-> [p \in Prices |-> <<>>]]
  /\ total' = [s \in Sides |-> [p \in Prices |-> 0]]
  /\ priceMap' = [o \in Orders |-> Market]
  /\ ids' = {}
  /\ known' = known \ ids

\* Mutants: the transitions are looked for one phase later or earlier, or the
\* auction phase is forgotten.
EnterContinuous == last = "opening_auction" /\ phase = "continuous"
LeavePreOpen == last = "pre_open" /\ phase = "continuous"
CloseFromAuction == last = "opening_auction" /\ phase = "closed"

EnterAuction == last = "pre_open" /\ phase = "opening_auction"
MarketClose  == last = "continuous" /\ phase = "closed"

CheckPhaseTransitions ==
  /\ Idle
  /\ last # phase
  /\ cached' = phase
  /\ last' = phase
  /\ IF EnterAuction THEN StartAuction ELSE UNCHANGED <<task, buys, sells>>
  /\ IF MarketClose THEN CancelAll ELSE UNCHANGED <<bookVars, known>>
  /\ UNCHANGED <<orderVars, remaining, status, incoming, trades, phase, batch,
                 published>>

\* The trades of which o was the incoming order.
TradesOf(o) ==
  {i \in DOMAIN trades :
     o = IF trades[i].aggressor = "buy" THEN trades[i].buyer ELSE trades[i].seller}

\* The book's own steps for the order that is being matched.  When it came
\* from the match queue, the matching thread puts its result on the trade queue.
Matching ==
  \/ /\ \E o \in Orders, p \in Prices : MatchStep(o, p)
     /\ UNCHANGED venueVars
  \/ \E o \in Orders :
       /\ MatchDone(o)
       /\ published' = IF task = "idle" THEN published \cup TradesOf(o)
                                        ELSE published
       /\ UNCHANGED <<phase, cached, last, known, batch, task, buys, sells>>

AuctionStep == CrossStep \/ CrossDone \/ AddLeftover \/ FinishAuction

VenueNext ==
  \/ \E o \in Orders, s \in Sides, p \in Prices \cup {Market}, q \in Quantities :
       \/ SubmitRejected(o, s, p, q)
       \/ SubmitToBatch(o, s, p, q)
       \/ SubmitContinuous(o, s, p, q)
  \/ \E o \in Orders : CancelOrder(o)
  \/ Matching \/ AuctionStep
  \/ CheckPhaseTransitions \/ TimePasses

VenueSafeSpec == VenueInit /\ [][VenueNext]_allVars

\* The clock runs, and the matching thread, which does not block, keeps
\* working on its current order, on the auction and on phase checks.
VenueSpec ==
  /\ VenueSafeSpec
  /\ WF_allVars(TimePasses)
  /\ WF_allVars(Matching)
  /\ WF_allVars(AuctionStep)
  /\ WF_allVars(CheckPhaseTransitions)

-----------------------------------------------------------------------------
(* Safety. *)

\* Orders wait in the batch engine only while the venue acts on pre-open or is
\* running the auction.
BatchOnlyBeforeAuction ==
  batch # {} => last = "pre_open" \/ task # "idle"

\* When the venue acts on the closed phase, book and batch engine are empty.
ClosedIsClean == last = "closed" /\ Idle => ids \cup batch = {}

\* No order is left for another day, whatever phase the clock had reached when
\* the matching thread looked.
NothingCarriedOver == BatchOnlyBeforeAuction /\ ClosedIsClean

\* Price priority among limit orders: one that traded leaves no limit order of
\* the same side with a better price unfilled.
AuctionPricePriority ==
  \A a, b \in batch :
    /\ side[a] = side[b]
    /\ limit[a] # Market /\ limit[b] # Market
    /\ IF side[a] = "buy" THEN limit[a] > limit[b] ELSE limit[a] < limit[b]
    /\ remaining[b] < quantity[b]
    => remaining[a] = 0

Pricing == INSTANCE AuctionPricing
BatchOf(s) == {[id |-> o, price |-> limit[o], quantity |-> quantity[o]] : o \in OfSide(s)}

Traded(s) == SumFunctionOnSet([o \in Orders |-> quantity[o] - remaining[o]], OfSide(s))

\* The volume is that of MaximumVolumePricingStrategy for the same batch, or
\* more where market orders take part; no price, between the orders' prices
\* either, would trade more, and the price the strategy names trades it all.
AuctionTradesMaximum ==
  LET bids == BatchOf("buy")
      asks == BatchOf("sell")
      result == Pricing!ClearingPrice(bids, asks)
  IN ~Pricing!RaisesValueError(bids, asks) =>
       /\ Traded("buy") >= result.volume
       /\ (\A o \in batch : limit[o] # Market) => Traded("buy") = result.volume
       /\ \A p \in 2 * Min(Prices) .. 2 * Max(Prices) :
            Pricing!VolumeAtPrice(bids, asks, p) <= result.volume
       /\ result.volume > 0 =>
            Pricing!VolumeAtPrice(bids, asks, result.price) = result.volume

\* match_orders_batch crosses the fronts of the sorted sides and hands what is left
\* to continuous matching: no order trades while a better one of its side stays open.
AuctionKeepsPriority == [][FinishAuction => AuctionPricePriority]_allVars

\* The same pairwise crossing, with partial fills, trades the volume that any single
\* clearing price could.
AuctionTradesAll == [][FinishAuction => AuctionTradesMaximum]_allVars

\* An order with something left that the venue knows between two calls either
\* waits for the auction or rests where cancel_order finds it; the venue still
\* knows, but cannot find, only market orders that met no match.
OpenOrdersHaveAPlace ==
  Idle => \A o \in known : remaining[o] > 0 =>
    IF o \in batch THEN o \notin ids
    ELSE limit[o] # Market => o \in ids /\ SideOfPrice(priceMap[o]) = side[o]

\* The auction hands over an uncrossed book and loses no order, nor does any
\* later step: in phases that allow it, a client can cancel every order that is
\* open, those in the batch engine excepted.
OpenOrdersAreKept == Uncrossed /\ OpenOrdersHaveAPlace

-----------------------------------------------------------------------------
(* Liveness. *)

\* Every order that waits in the batch engine is taken out by an auction.
BatchIsExecuted == \A o \in Orders : o \in batch ~> o \notin batch

-----------------------------------------------------------------------------
(* A statement of the documentation that the code does not keep. *)

\* trading-phases.md: "Trades are generated and published before continuous
\* trading begins": outside the matching of an order nothing is unpublished.
TradesPublished ==
  Idle /\ cached = "continuous" => published = DOMAIN trades
====
