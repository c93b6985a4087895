---- MODULE AuctionPricing ----
(***************************************************************************)
(* MaximumVolumePricingStrategy: the uniform price of a batch auction as a *)
(* function of its orders.  The matching engine does not use it; it says   *)
(* what an auction should trade, and ExchangeVenue compares that with what *)
(* the engine's own crossing does.                                         *)
(*                                                                         *)
(* Bids and asks are sets of records with an id, a price (Market for None) *)
(* and a quantity.  Prices to clear at are doubled, so that the midpoint   *)
(* of two prices is a number.                                              *)
(***************************************************************************)
EXTENDS Integers, FiniteSetsExt, Functions

Market == 0

Quantity(S) == SumFunctionOnSet([o \in S |-> o.quantity], S)
LimitPrices(S) == {o.price : o \in S} \ {Market}

\* Mutant: a bid at the clearing price is not eligible.
BidsAbove(bids, p) == {o \in bids : o.price # Market /\ 2 * o.price > p}

EligibleBids(bids, p) == {o \in bids : o.price # Market /\ 2 * o.price >= p}
EligibleAsks(asks, p) == {o \in asks : o.price # Market /\ 2 * o.price <= p}

\* What can trade at price p is what the smaller side offers there.
VolumeAtPrice(bids, asks, p) ==
  Min({Quantity(EligibleBids(bids, p)), Quantity(EligibleAsks(asks, p))})

\* max() and min() of a side of market orders alone raise ValueError.
RaisesValueError(bids, asks) ==
  bids # {} /\ asks # {} /\ (LimitPrices(bids) = {} \/ LimitPrices(asks) = {})

CrossingPrices(bids, asks) ==
  {p \in LimitPrices(bids \cup asks) :
     Min(LimitPrices(asks)) <= p /\ p <= Max(LimitPrices(bids))}

MaxVolume(bids, asks) ==
  Max({VolumeAtPrice(bids, asks, 2 * p) : p \in CrossingPrices(bids, asks)})

OptimalPrices(bids, asks) ==
  {p \in CrossingPrices(bids, asks) :
     VolumeAtPrice(bids, asks, 2 * p) = MaxVolume(bids, asks)}

\* The midpoint of the optimal prices, doubled: a single one is its own.
SelectClearingPrice(prices) == Min(prices) + Max(prices)

\* The result where no error is raised; no trade is price 0 and volume 0.
ClearingPrice(bids, asks) ==
  IF bids = {} \/ asks = {} \/ CrossingPrices(bids, asks) = {}
  THEN [price |-> 0, volume |-> 0]
  ELSE [price  |-> SelectClearingPrice(OptimalPrices(bids, asks)),
        volume |-> MaxVolume(bids, asks)]
====
