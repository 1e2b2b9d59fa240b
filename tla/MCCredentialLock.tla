-------------------------- MODULE MCCredentialLock --------------------------
(***************************************************************************)
(* Instances of CredentialLock for TLC. One time unit stands for 15 to     *)
(* 60 s; only the order of the bars matters to the protocol, and the       *)
(* smallest bars in that order are used.                                   *)
(***************************************************************************)
EXTENDS CredentialLock, TLC

CONSTANTS a1, a2, a3

\* Every actor on one machine.
OneHost == [a \in Actors |-> "h1"]
\* a1 on one machine, the others on another that shares its home directory.
TwoHosts == [a \in Actors |-> IF a = a1 THEN "h1" ELSE "h2"]

\* The actors of one host are interchangeable; no liveness is checked under it.
Symmetry == Permutations(Actors \ {a1})
=============================================================================
