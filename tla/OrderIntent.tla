----------------------------- MODULE OrderIntent -----------------------------
(***************************************************************************)
(* What one call of LiveBroker._execute_one promises to the engine, with   *)
(* the broker's order book, the ladder and the retry hidden: units trade   *)
(* at the exchange, never more than were asked for, and the caller gets    *)
(* one answer, either a fill of units that really traded or an error.      *)
(* Units may still trade after the answer (a remainder nobody could        *)
(* cancel); they too are within what was asked for.                        *)
(***************************************************************************)
EXTENDS Integers

CONSTANT Quantities         \* the unit counts a caller may ask for

VARIABLES
  want,                     \* units of the current request, 0 before the first
  traded,                   \* units of it the exchange has traded so far
  reply                     \* the answer the caller got

vars == <<want, traded, reply>>

None == [kind |-> "none", units |-> 0]
Error == [kind |-> "error", units |-> 0]
FillOf(k) == [kind |-> "fill", units |-> k]

Init ==
  /\ want = 0
  /\ traded = 0
  /\ reply = Error

Ask(q) ==
  /\ reply # None
  /\ want' = q
  /\ traded' = 0
  /\ reply' = None

Trade ==
  /\ traded < want
  /\ traded' = traded + 1
  /\ UNCHANGED <<want, reply>>

AnswerFill(k) ==
  /\ reply = None
  /\ reply' = FillOf(k)
  /\ UNCHANGED <<want, traded>>

AnswerError ==
  /\ reply = None
  /\ reply' = Error
  /\ UNCHANGED <<want, traded>>

Next ==
  \/ \E q \in Quantities : Ask(q)
  \/ Trade
  \/ \E k \in 1..traded : AnswerFill(k)
  \/ AnswerError

Spec == Init /\ [][Next]_vars
=============================================================================
