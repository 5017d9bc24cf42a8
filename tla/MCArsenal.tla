----------------------------- MODULE MCArsenal -----------------------------
(***************************************************************************)
(* A small arsenal for TLC: a glock each, two more for those who die or    *)
(* who buy one, and two AK-47, one of them on the map.                     *)
(***************************************************************************)
EXTENDS Arsenal, TLC

CONSTANTS p1, p2, glock1, glock2, glock3, glock4, ak1, ak2

TwoPlayers == {p1, p2}
Glocks == {glock1, glock2, glock3, glock4}
Aks == {ak1, ak2}
AllGuns == Glocks \cup Aks

KindOf == [g \in AllGuns |-> IF g \in Glocks THEN "GLOCK" ELSE "AK47"]

\* A burst and a bullet too few for another; one shot of the others.
Ammo == [k \in Kinds |-> IF k = "AK47" THEN 4 ELSE 1]
Clip == [k \in Kinds |-> IF k = "AK47" THEN 3 ELSE 1]

AnAk == {"AK47"}

\* Players are alike, and so are the guns of a kind.
Symmetry == Permutations(TwoPlayers) \cup Permutations(Glocks)
                \cup Permutations(Aks)

=============================================================================
