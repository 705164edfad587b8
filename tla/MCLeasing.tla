------------------------------- MODULE MCLeasing -------------------------------
(* Instances of Leasing for TLC.                                           *)
EXTENDS Leasing, TLC

Symmetry == Permutations(Users) \cup Permutations(Requests)

RequestSymmetry == Permutations(Requests)
=============================================================================
