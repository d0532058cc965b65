------------------------------ MODULE MCTapoGroup ------------------------------
(* Two lamps: one can be asked while the other is away. *)
EXTENDS TapoGroup, TLC

CONSTANTS desk, shelf

MCLamp == {desk, shelf}
MCValue == {0, 1}
MCSymmetry == Permutations(MCLamp)
=============================================================================
