---- MODULE MCOrderBook ----
(* Small instances of OrderBook for TLC. *)
EXTENDS OrderBook, TLC

\* Order ids are interchangeable: only their arrival order matters.
OrderSymmetry == Permutations(Orders)
====
