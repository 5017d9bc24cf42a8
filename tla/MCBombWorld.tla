---------------------------- MODULE MCBombWorld ----------------------------
(***************************************************************************)
(* A small round for TLC.                                                  *)
(***************************************************************************)
EXTENDS BombWorld, TLC

CONSTANTS p1, p2, p3

ThreePlayers == {p1, p2, p3}

\* Any assignment of the sides is an initial state: players are alike.
Symmetry == Permutations(ThreePlayers)

=============================================================================
