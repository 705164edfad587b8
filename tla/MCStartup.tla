------------------------------- MODULE MCStartup -------------------------------
(* Instances of Startup for TLC.                                           *)
EXTENDS Startup, TLC

RequestSymmetry == Permutations(Requests)
=============================================================================
