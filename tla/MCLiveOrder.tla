----------------------------- MODULE MCLiveOrder -----------------------------
(* A small instance of LiveOrder for TLC: a two-rung ladder stands for the    *)
(* three rungs of the code.                                                   *)
EXTENDS LiveOrder

MCLadder == <<1, 3>>
=============================================================================
