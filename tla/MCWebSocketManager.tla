---- MODULE MCWebSocketManager ----
(* Small instances of WebSocketManager for TLC. *)
EXTENDS WebSocketManager, TLC

\* One kind that can be delivered and one that cannot.
TwoKinds == {"new_order_reject", "execution_report"}
====
