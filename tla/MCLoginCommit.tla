---------------------------- MODULE MCLoginCommit ----------------------------
(***************************************************************************)
(* Instances of LoginCommit for TLC. Neither surfaces nor accounts are     *)
(* told apart by the code.                                                 *)
(***************************************************************************)
EXTENDS LoginCommit, TLC

Symmetry == {p @@ q : p \in Permutations(Surfaces), q \in Permutations(Accounts)}
=============================================================================
