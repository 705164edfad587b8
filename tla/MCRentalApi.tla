------------------------------ MODULE MCRentalApi ------------------------------
(* Instances of RentalApi for TLC.                                         *)
EXTENDS RentalApi, TLC
=============================================================================
