------------------------------- MODULE MCWorld -------------------------------
(* An instance of WorldSession for TLC. *)
EXTENDS WorldSessionInv
=============================================================================
