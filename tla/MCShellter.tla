------------------------------- MODULE MCShellter -------------------------------
(* Instances of Shellter for TLC.                                          *)
EXTENDS Shellter, TLC
=============================================================================
