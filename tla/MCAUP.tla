-------------------------------- MODULE MCAUP --------------------------------
(* Instances of AUP for TLC. *)
EXTENDS AUP
=============================================================================
