--------------------------- MODULE MCAccountBook ---------------------------
(* A small instance of AccountBook for TLC. *)
EXTENDS AccountBook
=============================================================================
