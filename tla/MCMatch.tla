------------------------------ MODULE MCMatch ------------------------------
(***************************************************************************)
(* Small matches for TLC.                                                  *)
(***************************************************************************)
EXTENDS Match, TLC

CONSTANTS p1, p2, p3, p4

TwoPlayers == {p1, p2}
FourPlayers == {p1, p2, p3, p4}

\* Players are interchangeable: only their sides and senders tell them apart.
Symmetry == Permutations(FourPlayers)

=============================================================================
