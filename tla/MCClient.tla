------------------------------ MODULE MCClient ------------------------------
(***************************************************************************)
(* A client for TLC: an input of every kind, and two names for one game.   *)
(***************************************************************************)
EXTENDS Client

CONSTANTS n1, n2, g1

SomeNames == {n1, n2}
SomeCodes == {g1}

=============================================================================
