---- MODULE MCOrderValidation ----
(* A small instance of OrderValidation for TLC. *)
EXTENDS OrderValidation, TLC

CONSTANTS i1, i2

TwoInstruments == {i1, i2}

Order(i, s, q, type, p) ==
  [instrument |-> i, side |-> s, quantity |-> q, type |-> type, price |-> p]

\* Orders that pass the rules about the order itself, and two that do not.
SomeShapes ==
  {Order(i, s, q, "limit", 1) : i \in TwoInstruments, s \in {"buy", "sell"}, q \in {1, 2}}
    \cup {Order(i1, "buy", 3, "market", 0), Order(i1, "buy", 1, "limit", 3)}

SomeRules ==
  <<[type |-> "instrument_allowed", allowed |-> TwoInstruments],
    [type |-> "order_type_allowed", allowed |-> {"limit", "market"}],
    [type |-> "order_size", min |-> 1, max |-> 2],
    [type |-> "price_range", min |-> 0, max |-> 2],
    [type |-> "order_rate", max |-> 2],
    [type |-> "position_limit", max |-> 2, symmetric |-> TRUE],
    [type |-> "portfolio_limit", max |-> 3]>>

\* Neither orders nor teams are told apart.
Symmetry == Permutations(Orders) \cup Permutations(Teams)
====
