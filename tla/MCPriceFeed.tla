---------------------------- MODULE MCPriceFeed ----------------------------
(* A small instance of PriceFeed for TLC.  Readers and symbols are treated   *)
(* alike throughout.                                                         *)
EXTENDS PriceFeed, TLC
Alike == Permutations(Readers) \cup Permutations(Symbols)
=============================================================================
