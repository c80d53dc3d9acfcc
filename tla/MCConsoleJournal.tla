---------------------------- MODULE MCConsoleJournal ----------------------------
(* A small instance of ConsoleJournal for TLC. *)
EXTENDS ConsoleJournal, TLC
Strikes == Permutations(Contracts)
=============================================================================
