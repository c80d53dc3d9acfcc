-------------------------- MODULE MCLoopSupervisor --------------------------
(* A small instance of LoopSupervisor for TLC. *)
EXTENDS LoopSupervisor
=============================================================================
