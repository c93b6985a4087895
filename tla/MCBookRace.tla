---- MODULE MCBookRace ----
(* Small instances of BookRace for TLC. *)
EXTENDS BookRace
====
