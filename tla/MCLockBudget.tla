---------------------------- MODULE MCLockBudget ----------------------------
(* An instance of LockBudget for TLC: all actors on one machine. *)
EXTENDS LockBudget, TLC

CONSTANTS a1, a2, a3

OneHost == [a \in Actors |-> "h1"]
Symmetry == Permutations(Actors)
=============================================================================
