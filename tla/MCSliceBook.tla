----------------------------- MODULE MCSliceBook -----------------------------
(* A small instance of SliceBook for TLC. *)
EXTENDS SliceBook
=============================================================================
