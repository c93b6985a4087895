---- MODULE MCResponseCoordinator ----
(* A small instance of ResponseCoordinator for TLC. *)
EXTENDS ResponseCoordinator

CONSTANTS r1, r2

\* Two calls with different timeouts, as submit_order and cancel_order use.
TwoCalls == {r1, r2}
TwoTimeouts == [r \in TwoCalls |-> IF r = r1 THEN 1 ELSE 2]
====
