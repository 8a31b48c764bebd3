------------------------------ MODULE Rotation ------------------------------
(***************************************************************************)
(* What update_rotation promises: a team's starters take turns.            *)
(***************************************************************************)
EXTENDS Integers

CONSTANT Turns      \* starters of a rotation (5)

VARIABLE turn

RotationInit == turn = 1
RotationNext == turn' = (turn % Turns) + 1
RotationSpec == RotationInit /\ [][RotationNext]_turn
=============================================================================
