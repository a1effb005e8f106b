------------------------------ MODULE MCStartup ------------------------------
(* Instances of Startup for TLC. *)
EXTENDS Startup

\* Invalid, zero, valid, and larger than a transaction.
MCNumbers == {-1, 0, 7, 101}
=============================================================================
