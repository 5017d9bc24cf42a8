------------------------------ MODULE MCEditor ------------------------------
(***************************************************************************)
(* A map of the folder for TLC: a wall above a floor, and one of each mark *)
(* on the floor.                                                           *)
(***************************************************************************)
EXTENDS Editor

SomeMap ==
    [width |-> 1, height |-> 2,
     blocks |-> [c \in {<<0, 0>>, <<0, 1>>} |-> IF c = <<0, 0>> THEN "wall" ELSE "floor"],
     marks |-> [k \in Kinds |-> IF k \in Guns THEN {} ELSE {<<0, 1>>}]]

SomeMaps == {SomeMap}

=============================================================================
