------------------------------ MODULE MCField ------------------------------
(***************************************************************************)
(* A small map for TLC: four cells, one of them a block, with a site in    *)
(* the corner and two spawns for each side that no body covers together.   *)
(***************************************************************************)
EXTENDS Field

CONSTANTS p1, p2

TwoByName == <<p2, p1>>
TwoJoined == <<p1, p2>>

Cell(x, y) == [x |-> x, y |-> y]

CornerBlock == <<Cell(1, 0)>>
MiddleSite == {Cell(0, 1)}
Diagonals == {Cell(0, 0), Cell(1, 1)}
FreeCells == Diagonals \cup {Cell(0, 1)}

\* One direction, two of the four diagonals, or two directions that cancel.
PairsHeld == UNION {SUBSET pair : pair \in
    {{"up", "right"}, {"down", "left"}, {"left", "right"}}}

OffTheMap == -1

=============================================================================
