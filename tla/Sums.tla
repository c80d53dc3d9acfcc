-------------------------------- MODULE Sums --------------------------------
(***************************************************************************)
(* The sum of a function's values over a finite set: what the modules that *)
(* count units (AccountBook, SliceBook) need, in one place, with its       *)
(* theory in SumLemmas.                                                    *)
(***************************************************************************)
EXTENDS Integers, Functions

SumOver(f, S) == FoldFunctionOnSet(+, 0, f, S)
=============================================================================
