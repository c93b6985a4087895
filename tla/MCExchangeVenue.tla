---- MODULE MCExchangeVenue ----
(* Small instances of ExchangeVenue for TLC. *)
EXTENDS ExchangeVenue
====
