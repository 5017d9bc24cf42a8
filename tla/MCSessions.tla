----------------------------- MODULE MCSessions -----------------------------
(***************************************************************************)
(* A small server for TLC.                                                 *)
(***************************************************************************)
EXTENDS Sessions, TLC

CONSTANTS c1, c2, n1, n2, g1, g2

TwoClients == {c1, c2}
TwoNames == {n1, n2}
OneGame == {g1}
TwoGames == {g1, g2}

\* Both clients may take either name, or each has its own.
AnyNameIsWished == [c \in TwoClients |-> TwoNames]
OwnNameIsWished == [c \in TwoClients |-> IF c = c1 THEN {n1} ELSE {n2}]

\* With AnyNameIsWished nothing tells clients, names or games apart.
Symmetry == Permutations(TwoClients) \cup Permutations(TwoNames)
            \cup Permutations(TwoGames)

=============================================================================
