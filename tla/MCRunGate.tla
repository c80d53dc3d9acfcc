------------------------------ MODULE MCRunGate ------------------------------
(* A small instance of RunGate for TLC. *)
EXTENDS RunGate
=============================================================================
