------------------------------ MODULE MCTimer -------------------------------
(* The timer queue for TLC: slots are interchangeable.                      *)
EXTENDS Timer, TLC

SlotSymmetry == Permutations(Slots)
=============================================================================
