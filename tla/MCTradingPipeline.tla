---- MODULE MCTradingPipeline ----
(* Small instances of TradingPipeline for TLC. *)
EXTENDS TradingPipeline, TLC

OrderAndTeamSymmetry == Permutations(Orders) \cup Permutations(Teams)
====
