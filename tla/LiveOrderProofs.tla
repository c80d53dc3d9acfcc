--------------------------- MODULE LiveOrderProofs ---------------------------
(***************************************************************************)
(* Proofs about LiveOrder for every quantity, price, ladder and limit.     *)
(* The inductive invariant says what the code knows at each point of the   *)
(* call about the orders the exchange holds: what a row shows has really   *)
(* traded, a terminal row means a dead order, and the second order exists  *)
(* only above a first one that is dead and empty.                          *)
(***************************************************************************)
EXTENDS LiveOrder, TLAPS

Working == {"wait", "rungWait", "postCancel", "escalate", "cancel", "recheck"}

\* What holds of each order record.
OrdersOK ==
  \A a \in Attempts :
    /\ orders[a].filled <= request.qty
    /\ orders[a].live => orders[a].filled < request.qty
    /\ orders[a].shown.filled <= orders[a].filled
    /\ orders[a].rejected => ~orders[a].live
    /\ orders[a].shown.status \in Terminal => ~orders[a].live
    /\ orders[a].sent = "no" => ~orders[a].live /\ orders[a].filled = 0
                                                /\ orders[a].rungs = 0

\* What holds between the two orders.
AttemptsOK ==
  /\ attempt = 1 => orders[2].sent = "no"
  /\ attempt = 2 => ~orders[1].live /\ orders[1].filled = 0

\* What the call knows where it stands.
CallOK ==
  /\ answer = NoAnswer <=> pc # "idle"
  /\ pc # "idle" => request.qty \in Quantities
  /\ pc = "place" => orders[attempt].sent = "no"
  /\ pc \in Working => orders[attempt].sent = "acked"
  /\ pc \in {"postCancel", "recheck"} => orders[attempt].cancelled
  /\ pc = "recheck" => /\ attempt = 1
                       /\ orders[1].shown.status = "CANCELLED"
                       /\ orders[1].empties >= 1
  /\ st.filled <= orders[attempt].filled
  /\ kept <= orders[attempt].filled

\* Where the ladder stands.
LadderOK ==
  /\ rung <= RungsOf(attempt)
  /\ pc = "place" => rung = 0
  /\ pc = "escalate" => rung >= 1 /\ orders[attempt].rungs < rung
  /\ orders[attempt].rungs <= rung
  /\ orders[1].rungs <= RungsOf(1)

IInv ==
  /\ TypeOK
  /\ OrdersOK
  /\ AttemptsOK
  /\ CallOK
  /\ LadderOK
  /\ BookedIsReal
  /\ NeverAbandonsWorking

-----------------------------------------------------------------------------
LEMMA OrderTypes ==
  ASSUME TypeOK
  PROVE  /\ Attempts = {1, 2}
         /\ attempt \in {1, 2}
         /\ orders \in [{1, 2} -> OrderRecord]
         /\ orders[1] \in OrderRecord
         /\ orders[2] \in OrderRecord
         /\ orders[attempt] \in OrderRecord
BY DEF TypeOK, Attempts

LEMMA QtyType == ASSUME TypeOK PROVE request.qty \in Nat
<1>1. request.qty \in Quantities \cup {0}
  BY DEF TypeOK
<1>2. \A q \in Quantities \cup {0} : q \in Nat
  BY OrderAssumption
<1> QED BY <1>1, <1>2

LEMMA NoOrderType == NoOrder \in OrderRecord /\ Unknown \in StatusRow
BY DEF NoOrder, OrderRecord, StatusRow, Unknown, Row, Terminal, NoPrice

LEMMA RowFacts ==
  ASSUME TypeOK, OrdersOK, NEW a \in Attempts, NEW v \in Rows(orders[a])
  PROVE  /\ v \in StatusRow
         /\ v.filled <= orders[a].filled
         /\ v.status \in Terminal => ~orders[a].live
         /\ v.status = "CANCELLED" /\ orders[a].empties >= 1
              => v.filled = orders[a].filled
         /\ v.status = "COMPLETE" => orders[a].filled = request.qty
<1>1. orders[a] \in OrderRecord
  BY DEF TypeOK
<1>2. CASE v \in OpenRows(orders[a])
  BY <1>1, <1>2 DEF OpenRows, Row, StatusRow, OrderRecord, Terminal
<1>3. CASE v \in CompleteRows(orders[a])
  BY <1>1, <1>3 DEF CompleteRows, Row, StatusRow, OrderRecord, Terminal, OrdersOK
<1>4. CASE v \in RejectedRows(orders[a])
  BY <1>1, <1>4 DEF RejectedRows, Row, StatusRow, OrderRecord, Terminal, OrdersOK
<1>5. CASE v \in CancelledRows(orders[a])
  BY <1>1, <1>5, OrderAssumption
  DEF CancelledRows, Row, StatusRow, OrderRecord, Terminal, OrdersOK
<1>6. CASE v = Unknown
  BY <1>1, <1>6, NoOrderType DEF Unknown, Row, OrderRecord, Terminal
<1>7. QED BY <1>2, <1>3, <1>4, <1>5, <1>6 DEF Rows

LEMMA InitInv == Init => IInv
<1> SUFFICES ASSUME Init PROVE IInv
  OBVIOUS
<1> USE DEF Init, Attempts
<1>1. TypeOK
  <2>1. pc \in Pcs /\ attempt \in Attempts /\ touch \in AnyTouch /\ hint \in Nat
    BY DEF Pcs, AnyTouch, NoPrice
  <2>2. request \in [qty : Quantities \cup {0}, reduceOnly : BOOLEAN, limit : Limits \cup {NoPrice}]
    OBVIOUS
  <2>3. rung \in 0..Rungs
    BY OrderAssumption
  <2>4. answer \in Answers
    BY DEF Failed, Answers
  <2>5. orders \in [Attempts -> OrderRecord] /\ st \in StatusRow
    BY NoOrderType
  <2> QED BY <2>1, <2>2, <2>3, <2>4, <2>5 DEF TypeOK
<1>2. OrdersOK /\ AttemptsOK
  BY DEF OrdersOK, AttemptsOK, NoOrder, Unknown, Row, Terminal
<1>3. CallOK /\ LadderOK
  BY OrderAssumption
  DEF CallOK, LadderOK, NoOrder, Unknown, Row, Working, RungsOf, NoAnswer, Failed
<1>4. BookedIsReal /\ NeverAbandonsWorking
  BY DEF BookedIsReal, NeverAbandonsWorking, Failed, NoOrder
<1>5. QED BY <1>1, <1>2, <1>3, <1>4 DEF IInv

LEMMA ExecuteInv ==
  ASSUME IInv, NEW q \in Quantities, NEW exit \in BOOLEAN,
         NEW lim \in Limits \cup {NoPrice}, Execute(q, exit, lim)
  PROVE  IInv'
<1> USE DEF IInv, Execute, railVars, Attempts
<1>1. TypeOK'
  BY OrderAssumption
  DEF TypeOK, OrderRecord, StatusRow, NoOrder, Unknown, Row, NoAnswer, Pcs, Waits,
      Terminal, NoPrice, AnyTouch, Answers
<1>2. OrdersOK' /\ AttemptsOK'
  BY OrderAssumption DEF OrdersOK, AttemptsOK, NoOrder, Unknown, Row, Terminal
<1>3. CallOK' /\ LadderOK'
  BY OrderAssumption
  DEF CallOK, LadderOK, NoOrder, Unknown, Row, Working, RungsOf, NoAnswer
<1>4. BookedIsReal' /\ NeverAbandonsWorking'
  BY DEF BookedIsReal, NeverAbandonsWorking, NoAnswer
<1>5. QED BY <1>1, <1>2, <1>3, <1>4
-----------------------------------------------------------------------------
(* A step of the call that leaves the orders alone. *)

LEMMA RollDayType ==
  ASSUME TypeOK, NEW p \in BOOLEAN, RollDay(p)
  PROVE  ordersCount' \in Nat /\ ordersToday' \in BOOLEAN /\ acksToday' \in Nat
BY DEF TypeOK, RollDay, CountToday

LEMMA RailsRefuseInv ==
  ASSUME IInv, NEW t \in AnyTouch, RailsRefuse(t)
  PROVE  IInv'
<1> USE DEF IInv, RailsRefuse, Answer, worldVars
<1>1. TypeOK'
  BY RollDayType DEF TypeOK, Failed, Pcs, Answers
<1>2. OrdersOK' /\ AttemptsOK'
  BY DEF OrdersOK, AttemptsOK
<1>3. CallOK' /\ LadderOK'
  BY DEF CallOK, LadderOK, Working, RungsOf, Failed, NoAnswer
<1>4. BookedIsReal' /\ NeverAbandonsWorking'
  <2>1. attempt = 1 \/ attempt = 2
    BY DEF TypeOK, Attempts
  <2>2. \A a \in Attempts : orders[a].sent = "acked" => ~orders[a].live
    BY <2>1 DEF CallOK, AttemptsOK, Attempts
  <2> QED BY <2>2 DEF BookedIsReal, NeverAbandonsWorking, Failed
<1>5. QED BY <1>1, <1>2, <1>3, <1>4

LEMMA WaitExpiresInv ==
  ASSUME IInv, WaitExpires
  PROVE  IInv'
<1> USE DEF IInv, WaitExpires, worldVars, railVars
<1>1. RungsOf(attempt) \in 0..Rungs
  BY OrderAssumption DEF RungsOf, TypeOK
<1>2. TypeOK'
  BY <1>1, OrderAssumption DEF TypeOK, Pcs, Waits
<1>3. OrdersOK' /\ AttemptsOK'
  BY DEF OrdersOK, AttemptsOK
<1>4. CallOK'
  BY DEF CallOK, Working
<1>5. LadderOK'
  <2>1. orders[attempt].rungs \in Nat /\ rung \in Nat /\ Rungs \in Nat
    BY OrderAssumption DEF TypeOK, OrderRecord
  <2>2. RungsOf(attempt)' = RungsOf(attempt) /\ RungsOf(1)' = RungsOf(1)
    BY DEF RungsOf
  <2> QED BY <1>1, <2>1, <2>2 DEF LadderOK
<1>6. BookedIsReal' /\ NeverAbandonsWorking'
  BY DEF BookedIsReal, NeverAbandonsWorking, Traded
<1>7. QED BY <1>2, <1>3, <1>4, <1>5, <1>6

LEMMA CancelUnconfirmedInv ==
  ASSUME IInv, CancelUnconfirmed
  PROVE  IInv'
<1> USE DEF IInv, CancelUnconfirmed, Answer, worldVars, railVars
<1>1. attempt \in Attempts /\ orders[attempt] \in OrderRecord
      /\ orders[1] \in OrderRecord /\ orders[2] \in OrderRecord
  BY DEF TypeOK, Attempts
<1>2. AfterCancel(st) = Failed \/ \E k \in 1..Traded : AfterCancel(st) = Filled(k)
  BY <1>1 DEF AfterCancel, KnownFilled, CallOK, Traded, TypeOK, StatusRow,
              OrderRecord, Attempts
<1>3. TypeOK'
  BY <1>1, <1>2 DEF TypeOK, Failed, Filled, Traded, OrderRecord, Pcs, Answers
<1>4. OrdersOK' /\ AttemptsOK'
  BY DEF OrdersOK, AttemptsOK
<1>5. CallOK' /\ LadderOK'
  BY <1>2 DEF CallOK, LadderOK, Working, RungsOf, Failed, Filled, NoAnswer
<1>6. BookedIsReal'
  BY <1>2 DEF BookedIsReal, Failed, Filled, Traded
<1>7. NeverAbandonsWorking'
  BY <1>1 DEF NeverAbandonsWorking, CallOK, AttemptsOK, Attempts
<1>8. QED BY <1>3, <1>4, <1>5, <1>6, <1>7
-----------------------------------------------------------------------------
(* A step that changes one order record. *)

\* The exchange trades, refuses or pulls an order.
LEMMA ExchangeInv ==
  ASSUME IInv, NEW a \in Attempts, Trade(a) \/ Refuse(a) \/ Pull(a)
  PROVE  IInv'
<1> USE DEF IInv, callVars, worldVars, railVars
<1>1. /\ UNCHANGED <<pc, st, request, attempt, rung, touch, hint, kept, answer,
                     ordersCount, ordersToday, acksToday, marketOpen, asked>>
      /\ orders' \in [Attempts -> OrderRecord]
      /\ orders[a].live
      /\ \A b \in Attempts \ {a} : orders'[b] = orders[b]
      /\ orders'[a].filled \in {orders[a].filled, orders[a].filled + 1}
      /\ orders'[a].filled <= request.qty
      /\ orders'[a].live => orders'[a].filled < request.qty
      /\ orders'[a].rejected => ~orders'[a].live
      /\ orders'[a].sent = orders[a].sent
      /\ orders'[a].shown = orders[a].shown
      /\ orders'[a].empties = orders[a].empties
      /\ orders'[a].rungs = orders[a].rungs
      /\ orders'[a].cancelled = orders[a].cancelled
  <2>1. orders[a] \in OrderRecord /\ orders \in [Attempts -> OrderRecord]
    BY DEF TypeOK
  <2>2. /\ orders[a].filled <= request.qty
        /\ orders[a].live => orders[a].filled < request.qty
        /\ orders[a].rejected => ~orders[a].live
    BY DEF OrdersOK
  <2>3. request.qty \in Nat
    BY QtyType
  <2>4. CASE Trade(a)
    <3> DEFINE n == orders[a].filled + 1
               b == n < request.qty
    <3>1. n \in Nat /\ b \in BOOLEAN /\ orders[a].live /\ orders[a].filled \in Nat
      BY <2>1, <2>4 DEF Trade, OrderRecord
    <3>2. [orders[a] EXCEPT !.filled = n, !.live = b] \in OrderRecord
      <4> HIDE DEF n, b
      <4> QED BY <2>1, <3>1 DEF OrderRecord
    <3>3. orders' = [orders EXCEPT ![a] = [orders[a] EXCEPT !.filled = n, !.live = b]]
      BY <2>1, <2>4 DEF Trade
    <3>4. orders'[a] = [orders[a] EXCEPT !.filled = n, !.live = b]
      BY <2>1, <3>3
    <3>5. orders'[a].filled = n /\ orders'[a].live = b
      <4> HIDE DEF n, b
      <4> QED BY <2>1, <3>4 DEF OrderRecord
    <3>6. n <= request.qty
      BY <2>2, <2>3, <3>1
    <3> QED BY <2>1, <2>2, <2>4, <3>1, <3>2, <3>3, <3>4, <3>5, <3>6
            DEF Trade, OrderRecord
  <2>5. CASE Refuse(a)
    BY <2>1, <2>2, <2>3, <2>5 DEF Refuse, OrderRecord
  <2>6. CASE Pull(a)
    BY <2>1, <2>2, <2>3, <2>6 DEF Pull, OrderRecord
  <2> QED BY <2>4, <2>5, <2>6
<1>2. /\ orders[1].filled \in Nat /\ orders[2].filled \in Nat
      /\ attempt \in {1, 2} /\ a \in {1, 2} /\ st.filled \in Nat /\ kept \in Nat
      /\ orders[1].shown.filled \in Nat /\ orders[2].shown.filled \in Nat
  BY OrderTypes DEF OrderRecord, TypeOK, StatusRow, Attempts
<1>3. TypeOK'
  BY <1>1 DEF TypeOK, AnyTouch
<1>4. OrdersOK'
  BY <1>1, <1>2 DEF OrdersOK, Attempts
<1>5. AttemptsOK'
  BY <1>1, <1>2 DEF AttemptsOK, OrdersOK, Attempts
<1>6. CallOK'
  BY <1>1, <1>2 DEF CallOK, Attempts
<1>7. LadderOK'
  BY <1>1, <1>2 DEF LadderOK, RungsOf, Attempts
<1>8. BookedIsReal'
  <2>1. Traded' \in Nat /\ Traded \in Nat /\ Traded' >= Traded
    BY <1>1, <1>2 DEF Traded, Attempts
  <2> QED BY <1>1, <2>1 DEF BookedIsReal
<1>9. NeverAbandonsWorking'
  BY <1>1, <1>2 DEF NeverAbandonsWorking, Attempts
<1>10. QED BY <1>3, <1>4, <1>5, <1>6, <1>7, <1>8, <1>9

\* Cancelling marks the order and nothing else.
LEMMA CancelInv ==
  ASSUME IInv, Cancel
  PROVE  IInv'
<1> USE DEF IInv, Cancel, worldVars, railVars
<1>1. /\ orders' \in [Attempts -> OrderRecord]
      /\ orders'[attempt] = [orders[attempt] EXCEPT !.cancelled = TRUE]
      /\ \A b \in Attempts \ {attempt} : orders'[b] = orders[b]
  <2>1. [orders[attempt] EXCEPT !.cancelled = TRUE] \in OrderRecord
    BY OrderTypes DEF OrderRecord
  <2> QED BY <2>1, OrderTypes
<1>2. /\ attempt \in {1, 2} /\ Attempts = {1, 2}
      /\ orders[1] \in OrderRecord /\ orders[2] \in OrderRecord
      /\ st.filled \in Nat
  BY OrderTypes DEF TypeOK, StatusRow, Attempts
<1>3. \A b \in Attempts : /\ orders'[b].filled = orders[b].filled
                          /\ orders'[b].live = orders[b].live
                          /\ orders'[b].shown = orders[b].shown
                          /\ orders'[b].rejected = orders[b].rejected
                          /\ orders'[b].sent = orders[b].sent
                          /\ orders'[b].rungs = orders[b].rungs
                          /\ orders'[b].filled \in Nat
  BY <1>1, <1>2 DEF OrderRecord
<1>4. TypeOK'
  BY <1>1, <1>2, NoOrderType DEF TypeOK, Pcs, Waits
<1>5. OrdersOK'
  BY <1>3 DEF OrdersOK
<1>6. AttemptsOK'
  BY <1>2, <1>3 DEF AttemptsOK
<1>7. CallOK'
  BY <1>1, <1>2, <1>3 DEF CallOK, Working, Unknown, Row, OrderRecord
<1>8. LadderOK'
  BY <1>2, <1>3 DEF LadderOK, RungsOf
<1>9. BookedIsReal' /\ NeverAbandonsWorking'
  BY <1>2, <1>3 DEF BookedIsReal, Traded, NeverAbandonsWorking
<1>10. QED BY <1>4, <1>5, <1>6, <1>7, <1>8, <1>9
-----------------------------------------------------------------------------
(* Steps that read a status row. *)

LEMMA ReadFacts ==
  ASSUME TypeOK, OrdersOK, NEW v \in Rows(orders[attempt]), Read(v)
  PROVE  /\ orders' \in [Attempts -> OrderRecord]
         /\ orders'[attempt].shown \in {v, orders[attempt].shown}
         /\ v.status = "CANCELLED"
              => /\ orders'[attempt].shown = v
                 /\ orders'[attempt].empties = orders[attempt].empties + 1
         /\ \A b \in Attempts \ {attempt} : orders'[b] = orders[b]
         /\ \A b \in Attempts : /\ orders'[b].filled = orders[b].filled
                                /\ orders'[b].live = orders[b].live
                                /\ orders'[b].rejected = orders[b].rejected
                                /\ orders'[b].sent = orders[b].sent
                                /\ orders'[b].rungs = orders[b].rungs
                                /\ orders'[b].cancelled = orders[b].cancelled
<1>1. CASE v = Unknown
  BY <1>1, OrderTypes DEF Read, Unknown, Row, TypeOK
<1>2. CASE v # Unknown
  <2> DEFINE r == orders[attempt]
             n == IF v.status = "CANCELLED" THEN r.empties + 1 ELSE r.empties
             new == [r EXCEPT !.shown = v, !.empties = n]
  <2>1. r \in OrderRecord /\ v \in StatusRow /\ n \in Nat
    BY OrderTypes, RowFacts DEF OrderRecord
  <2>2. new \in OrderRecord
    <3> HIDE DEF n, r
    <3> QED BY <2>1 DEF OrderRecord
  <2>3. orders' = [orders EXCEPT ![attempt] = new]
    BY <1>2, OrderTypes DEF Read
  <2>4. orders' \in [Attempts -> OrderRecord] /\ orders'[attempt] = new
        /\ \A b \in Attempts \ {attempt} : orders'[b] = orders[b]
    <3> HIDE DEF new
    <3> QED BY <2>2, <2>3, OrderTypes
  <2>5. /\ new.shown = v /\ new.empties = n
        /\ new.filled = r.filled /\ new.live = r.live /\ new.rejected = r.rejected
        /\ new.sent = r.sent /\ new.rungs = r.rungs /\ new.cancelled = r.cancelled
    <3> HIDE DEF n, r
    <3> QED BY <2>1 DEF OrderRecord
  <2> HIDE DEF new
  <2> QED BY <2>4, <2>5
<1> QED BY <1>1, <1>2

LEMMA ReadKeeps ==
  ASSUME IInv, NEW v \in Rows(orders[attempt]), Read(v), request' = request
  PROVE  /\ OrdersOK'
         /\ Traded' = Traded
         /\ v.filled <= orders'[attempt].filled
<1> USE DEF IInv
<1>1. v.filled <= orders[attempt].filled
      /\ (v.status \in Terminal => ~orders[attempt].live)
  BY RowFacts, OrderTypes
<1>2. OrdersOK'
  BY <1>1, ReadFacts DEF OrdersOK
<1>3. Traded' = Traded
  BY ReadFacts, OrderTypes DEF Traded
<1>4. v.filled <= orders'[attempt].filled
  BY <1>1, ReadFacts, OrderTypes
<1> QED BY <1>2, <1>3, <1>4

\* An answer taken from a row is of units that traded.
LEMMA OutcomeReal ==
  ASSUME IInv, pc # "idle", NEW v \in Rows(orders[attempt])
  PROVE  /\ Outcome(v) = Failed \/ \E k \in 1..Traded : Outcome(v) = Filled(k)
         /\ AfterCancel(v) = Failed \/ \E k \in 1..Traded : AfterCancel(v) = Filled(k)
<1> USE DEF IInv
<1>1. /\ v.filled \in Nat /\ v.filled <= orders[attempt].filled
      /\ v.status = "COMPLETE" => orders[attempt].filled = request.qty
  BY RowFacts, OrderTypes DEF StatusRow
<1>2. /\ orders[1].filled \in Nat /\ orders[2].filled \in Nat
      /\ orders[attempt].filled <= Traded /\ Traded \in Nat
  BY OrderTypes DEF OrderRecord, Traded
<1>3. request.qty \in Nat \ {0}
  BY QtyType, OrderAssumption DEF CallOK
<1>4. orders[attempt].filled \in Nat
  BY OrderTypes DEF OrderRecord
<1>5. kept \in Nat /\ kept <= orders[attempt].filled
  BY DEF TypeOK, CallOK
<1>6. Outcome(v) = Failed \/ \E k \in 1..Traded : Outcome(v) = Filled(k)
  BY <1>1, <1>2, <1>3, <1>4 DEF Outcome, BookedUnits
<1>7. AfterCancel(v) = Failed \/ \E k \in 1..Traded : AfterCancel(v) = Filled(k)
  BY <1>1, <1>2, <1>4, <1>5 DEF AfterCancel, KnownFilled
<1> QED BY <1>6, <1>7

\* A real answer given over an order that is dead or was cancelled.
LEMMA AnswerFacts ==
  ASSUME NEW n \in Nat, NEW r,
         r = Failed \/ \E k \in 1..n : r = Filled(k)
  PROVE  /\ r \in Answers
         /\ r # NoAnswer
         /\ r.kind = "fill" => r.units \in 1..n
BY DEF Failed, Filled, NoAnswer, Answers

\* A step that reads row v in the current attempt and either waits on or
\* answers keeps the invariant: shared by the four polling actions.
LEMMA ReadStep ==
  ASSUME IInv, pc \in {"wait", "rungWait", "postCancel", "recheck"},
         NEW v \in Rows(orders[attempt]), Read(v), st' = v,
         UNCHANGED <<request, attempt, rung, touch, hint, kept, railVars, worldVars>>,
         \/ pc' = pc /\ answer' = answer /\ pc # "recheck"
         \/ /\ pc' = "idle"
            /\ answer' = Failed \/ \E k \in 1..Traded : answer' = Filled(k)
            /\ v.status \in Terminal \/ orders[attempt].cancelled
         \/ /\ pc = "postCancel" /\ pc' = "recheck" /\ answer' = answer
            /\ attempt = 1 /\ v.status = "CANCELLED"
  PROVE  IInv'
<1> USE DEF IInv, worldVars, railVars
<1>1. /\ attempt \in {1, 2} /\ Attempts = {1, 2}
      /\ v \in StatusRow
      /\ Traded' = Traded /\ Traded \in Nat
      /\ rung \in Nat /\ Rungs \in Nat
  <2>1. attempt \in {1, 2} /\ Attempts = {1, 2} /\ v \in StatusRow
    BY OrderTypes, RowFacts
  <2>2. Traded' = Traded
    BY ReadKeeps
  <2>3. Traded \in Nat
    BY OrderTypes DEF OrderRecord, Traded
  <2>4. rung \in Nat /\ Rungs \in Nat
    BY OrderAssumption DEF TypeOK
  <2> QED BY <2>1, <2>2, <2>3, <2>4
<1>2. pc' = "idle" => /\ answer' \in Answers
                      /\ answer' # NoAnswer
                      /\ answer'.kind = "fill" => answer'.units \in 1..Traded
  BY <1>1, AnswerFacts DEF CallOK
<1>3. TypeOK'
  <2>1. orders' \in [Attempts -> OrderRecord] /\ st' \in StatusRow /\ pc' \in Pcs
    BY <1>1, ReadFacts DEF Pcs, Waits, TypeOK
  <2>2. answer' \in Answers
    BY <1>2 DEF TypeOK
  <2> QED BY <2>1, <2>2 DEF TypeOK, AnyTouch
<1>4. OrdersOK'
  BY ReadKeeps
<1>5. AttemptsOK'
  BY <1>1, ReadFacts DEF AttemptsOK
<1>6. CallOK'
  <2>1. (answer = NoAnswer <=> pc # "idle")' /\ (pc # "idle" => request.qty \in Quantities)'
    BY <1>2 DEF CallOK
  <2>2. (pc = "place" => orders[attempt].sent = "no")'
        /\ (pc \in Working => orders[attempt].sent = "acked")'
        /\ (pc \in {"postCancel", "recheck"} => orders[attempt].cancelled)'
    BY <1>1, ReadFacts DEF CallOK, Working
  <2>3. (pc = "recheck" => /\ attempt = 1
                           /\ orders[1].shown.status = "CANCELLED"
                           /\ orders[1].empties >= 1)'
    BY <1>1, ReadFacts, OrderTypes DEF OrderRecord
  <2>4. (st.filled <= orders[attempt].filled)' /\ (kept <= orders[attempt].filled)'
    BY <1>1, ReadFacts, ReadKeeps DEF CallOK
  <2> QED BY <2>1, <2>2, <2>3, <2>4 DEF CallOK
<1>7. LadderOK'
  BY <1>1, ReadFacts DEF LadderOK, RungsOf
<1>8. BookedIsReal'
  BY <1>1, <1>2 DEF BookedIsReal, CallOK, NoAnswer
<1>9. NeverAbandonsWorking'
  <2> SUFFICES ASSUME pc' = "idle", NEW a \in Attempts, orders'[a].sent = "acked"
               PROVE  ~orders'[a].live \/ orders'[a].cancelled
    BY DEF NeverAbandonsWorking
  <2>1. CASE a = attempt
    BY <2>1, <1>1, ReadFacts, RowFacts, OrderTypes
  <2>2. CASE a # attempt
    BY <2>2, <1>1, ReadFacts DEF AttemptsOK
  <2> QED BY <2>1, <2>2
<1>10. QED BY <1>3, <1>4, <1>5, <1>6, <1>7, <1>8, <1>9

LEMMA PollInv == ASSUME IInv, Poll PROVE IInv'
<1>1. PICK v \in Rows(orders[attempt]) :
        /\ Read(v) /\ st' = v
        /\ IF v.status \in Terminal
           THEN Answer(Outcome(v)) ELSE UNCHANGED <<pc, answer>>
  BY DEF Poll
<1>2. Outcome(v) = Failed \/ \E k \in 1..Traded : Outcome(v) = Filled(k)
  BY OutcomeReal DEF Poll
<1>3. pc \in {"wait", "rungWait"}
      /\ UNCHANGED <<request, attempt, rung, touch, hint, kept, railVars, worldVars>>
  BY DEF Poll
<1>4. CASE v.status \in Terminal
  BY <1>1, <1>2, <1>3, <1>4, ReadStep DEF Answer
<1>5. CASE v.status \notin Terminal
  BY <1>1, <1>3, <1>5, ReadStep
<1> QED BY <1>4, <1>5

LEMMA PollAfterCancelInv == ASSUME IInv, PollAfterCancel PROVE IInv'
<1>1. PICK v \in Rows(orders[attempt]) :
        /\ Read(v) /\ st' = v
        /\ CASE v.status \notin Terminal -> UNCHANGED <<pc, answer>>
             [] ConfirmedEmpty(v) /\ MayRetry -> pc' = "recheck" /\ UNCHANGED answer
             [] OTHER -> Answer(AfterCancel(v))
  BY DEF PollAfterCancel
<1>2. AfterCancel(v) = Failed \/ \E k \in 1..Traded : AfterCancel(v) = Filled(k)
  BY OutcomeReal DEF PollAfterCancel
<1>3. pc = "postCancel"
      /\ UNCHANGED <<request, attempt, rung, touch, hint, kept, railVars, worldVars>>
  BY DEF PollAfterCancel
<1>4. CASE v.status \notin Terminal
  <2>1. UNCHANGED <<pc, answer>>
    BY <1>1, <1>4 DEF ConfirmedEmpty, Terminal
  <2> QED BY <1>1, <1>3, <2>1, ReadStep
<1>5. CASE v.status \in Terminal /\ ConfirmedEmpty(v) /\ MayRetry
  BY <1>1, <1>3, <1>5, ReadStep DEF ConfirmedEmpty, MayRetry
<1>6. CASE v.status \in Terminal /\ ~(ConfirmedEmpty(v) /\ MayRetry)
  BY <1>1, <1>2, <1>3, <1>6, ReadStep DEF Answer
<1> QED BY <1>4, <1>5, <1>6

\* The re-check books what it reads, or knows nothing and says so.
LEMMA RecheckDisagreesInv == ASSUME IInv, RecheckDisagrees PROVE IInv'
<1> USE DEF RecheckDisagrees
<1>1. orders[attempt].cancelled
  BY DEF IInv, CallOK
<1>2. CASE \E v \in Rows(orders[attempt]) :
             Read(v) /\ st' = v /\ Answer(Outcome(v))
  <2>1. PICK v \in Rows(orders[attempt]) :
          Read(v) /\ st' = v /\ Answer(Outcome(v))
    BY <1>2
  <2>2. Outcome(v) = Failed \/ \E k \in 1..Traded : Outcome(v) = Filled(k)
    BY OutcomeReal
  <2> QED BY <1>1, <2>1, <2>2, ReadStep DEF Answer
<1>3. CASE st' = Unknown /\ Answer(Failed) /\ UNCHANGED orders
  <2> USE <1>3 DEF IInv, Answer, worldVars, railVars
  <2>1. TypeOK'
    BY NoOrderType DEF TypeOK, Failed, Pcs, Answers
  <2>2. OrdersOK' /\ AttemptsOK'
    BY DEF OrdersOK, AttemptsOK
  <2>3. CallOK' /\ LadderOK'
    BY OrderTypes DEF CallOK, LadderOK, Working, RungsOf, Failed, NoAnswer,
                      Unknown, Row, OrderRecord
  <2>4. BookedIsReal' /\ NeverAbandonsWorking'
    BY <1>1, OrderTypes DEF BookedIsReal, NeverAbandonsWorking, Failed, AttemptsOK,
                            CallOK, Working
  <2> QED BY <2>1, <2>2, <2>3, <2>4
<1> QED BY <1>2, <1>3

\* The retry starts only when the row read twice says the first order is dead
\* and empty; by then a row hides nothing.
LEMMA RetryOnceInv ==
  ASSUME IInv, NEW t \in AnyTouch, RetryOnce(t)
  PROVE  IInv'
<1> USE DEF IInv, RetryOnce, worldVars, railVars
<1>1. PICK v \in Rows(orders[attempt]) :
        v.status = "CANCELLED" /\ v.filled = 0 /\ Read(v) /\ st' = v
  OBVIOUS
<1>2. attempt = 1 /\ orders[1].empties >= 1 /\ Attempts = {1, 2}
  BY OrderTypes DEF CallOK
<1>3. ~orders[1].live /\ orders[1].filled = 0
  BY <1>1, <1>2, RowFacts DEF Terminal
<1>4. orders[2].sent = "no" /\ ~orders[2].live /\ orders[2].rungs = 0
  BY <1>2 DEF AttemptsOK, OrdersOK
<1>5. hint' \in Nat
  <2>1. touch \in Nat /\ t \in Nat
    BY OrderAssumption DEF TypeOK, AnyTouch, NoPrice
  <2>2. Basis(t) \in Nat
    BY <2>1 DEF Basis
  <2>3. Ladder[1] \in Nat
    BY OrderAssumption
  <2>4. Basis(t) + Ladder[1] \in Nat
    BY <2>2, <2>3
  <2>5. \A p \in Nat : Clamp(p) \in Nat
    <3>1. request.limit \in Limits \cup {0}
      BY DEF TypeOK, NoPrice
    <3>2. \A l \in Limits \cup {0} : l \in Nat
      BY OrderAssumption
    <3> QED BY <3>1, <3>2 DEF Clamp
  <2> QED BY <2>4, <2>5 DEF Protected, NoPrice
<1>6. v \in StatusRow /\ st'.filled = 0
  BY <1>1, <1>2, RowFacts
<1>7. TypeOK'
  <2>1. orders' \in [Attempts -> OrderRecord]
    BY <1>1, ReadFacts
  <2>2. 0 \in 0..Rungs /\ NoPrice \in AnyTouch
    BY OrderAssumption DEF AnyTouch
  <2> QED BY <1>1, <1>2, <1>5, <1>6, <2>1, <2>2 DEF TypeOK, Pcs, Waits, AnyTouch, NoPrice
<1>8. OrdersOK'
  BY <1>1, ReadKeeps
<1>9. AttemptsOK'
  BY <1>1, <1>2, <1>3, ReadFacts DEF AttemptsOK
<1>10. orders'[2].sent = "no" /\ orders'[2].rungs = 0 /\ orders'[2].filled \in Nat
       /\ orders'[1].rungs = orders[1].rungs
  BY <1>1, <1>2, <1>4, ReadFacts DEF OrderRecord
<1>11. CallOK'
  BY <1>1, <1>6, <1>10 DEF CallOK, Working
<1>12. LadderOK'
  BY <1>2, <1>10 DEF LadderOK, RungsOf
<1>13. BookedIsReal' /\ NeverAbandonsWorking'
  BY DEF BookedIsReal, NeverAbandonsWorking, CallOK, NoAnswer
<1> QED BY <1>7, <1>8, <1>9, <1>11, <1>12, <1>13
-----------------------------------------------------------------------------
(* Steps that place an order. *)

\* Every price the broker computes is a price.
LEMMA PriceTypes ==
  ASSUME TypeOK, NEW t \in AnyTouch
  PROVE  /\ t \in Nat
         /\ Basis(t) \in Nat
         /\ PlacePrice(t) \in Nat
         /\ \A i \in 1..Rungs : Protected(i, Basis(t)) \in Nat
<1>1. touch \in Nat /\ t \in Nat /\ hint \in Nat
  BY OrderAssumption DEF TypeOK, AnyTouch, NoPrice
<1>2. \A p \in Nat : Clamp(p) \in Nat
  <2>1. request.limit \in Limits \cup {0}
    BY DEF TypeOK, NoPrice
  <2>2. \A l \in Limits \cup {0} : l \in Nat
    BY OrderAssumption
  <2> QED BY <2>1, <2>2 DEF Clamp
<1>3. Basis(t) \in Nat
  BY <1>1 DEF Basis
<1>4. PlacePrice(t) \in Nat
  BY <1>1, <1>2 DEF PlacePrice
<1>5. ASSUME NEW i \in 1..Rungs PROVE Protected(i, Basis(t)) \in Nat
  <2>1. Ladder[i] \in Nat
    BY OrderAssumption
  <2>2. Basis(t) + Ladder[i] \in Nat
    BY <1>3, <2>1
  <2> QED BY <1>2, <2>2 DEF Protected, NoPrice
<1> QED BY <1>1, <1>3, <1>4, <1>5

\* What placing does to the orders.
LEMMA PlaceFacts ==
  ASSUME IInv, pc = "place", NEW t \in AnyTouch, NEW s \in {"lost", "acked"},
         orders' = [orders EXCEPT ![attempt] = NewOrder(s, PlacePrice(t))],
         request' = request, attempt' = attempt
  PROVE  /\ orders' \in [Attempts -> OrderRecord]
         /\ \A b \in Attempts \ {attempt} : orders'[b] = orders[b]
         /\ orders'[attempt].sent = s
         /\ orders'[attempt].filled = 0
         /\ orders'[attempt].rungs = 0
         /\ OrdersOK' /\ AttemptsOK'
<1> USE DEF IInv
<1> DEFINE p == PlacePrice(t)
           new == NewOrder(s, p)
<1>1. p \in Nat
  BY PriceTypes
<1>2. /\ new \in OrderRecord
      /\ new.sent = s /\ new.filled = 0 /\ new.rungs = 0
      /\ new.rejected = FALSE /\ new.shown = Unknown
  <2> HIDE DEF p
  <2> QED BY <1>1, NoOrderType DEF NewOrder, NoOrder, OrderRecord
<1>3. orders' = [orders EXCEPT ![attempt] = new]
  OBVIOUS
<1> HIDE DEF new
<1>4. /\ orders' \in [Attempts -> OrderRecord] /\ orders'[attempt] = new
      /\ \A b \in Attempts \ {attempt} : orders'[b] = orders[b]
  BY <1>2, <1>3, OrderTypes
<1>5. OrdersOK'
  <2>1. request.qty \in Nat \ {0}
    BY OrderAssumption, QtyType DEF CallOK
  <2> QED BY <1>2, <1>4, <2>1 DEF OrdersOK, Unknown, Row, Terminal
<1>6. AttemptsOK'
  BY <1>4, OrderTypes DEF AttemptsOK
<1> QED BY <1>2, <1>4, <1>5, <1>6

LEMMA PlaceAcceptedInv ==
  ASSUME IInv, NEW t \in AnyTouch, PlaceAccepted(t)
  PROVE  IInv'
<1> USE DEF IInv, PlaceAccepted, worldVars
<1>1. /\ orders' \in [Attempts -> OrderRecord]
      /\ \A b \in Attempts \ {attempt} : orders'[b] = orders[b]
      /\ orders'[attempt].sent = "acked"
      /\ orders'[attempt].filled = 0
      /\ orders'[attempt].rungs = 0
      /\ OrdersOK' /\ AttemptsOK'
  BY PlaceFacts
<1>2. attempt \in {1, 2} /\ Attempts = {1, 2} /\ rung = 0
      /\ orders[attempt].filled = 0
  BY OrderTypes DEF LadderOK, OrdersOK, CallOK
<1>3. TypeOK'
  <2>1. ordersCount' \in Nat /\ ordersToday' \in BOOLEAN /\ acksToday' \in Nat
    BY RollDayType
  <2> QED BY <1>1, <2>1, NoOrderType DEF TypeOK, Pcs, Waits, AnyTouch
<1>4. CallOK'
  BY <1>1, <1>2 DEF CallOK, Working, Unknown, Row, TypeOK
<1>5. LadderOK'
  BY <1>1, <1>2, OrderAssumption DEF LadderOK, RungsOf
<1>6. BookedIsReal' /\ NeverAbandonsWorking'
  BY DEF BookedIsReal, NeverAbandonsWorking, CallOK, NoAnswer
<1> QED BY <1>1, <1>3, <1>4, <1>5, <1>6

LEMMA PlaceRaisesInv ==
  ASSUME IInv, NEW t \in AnyTouch, PlaceRaises(t)
  PROVE  IInv'
<1> USE DEF IInv, PlaceRaises, Answer, worldVars
<1>1. attempt \in {1, 2} /\ Attempts = {1, 2} /\ rung = 0
      /\ orders[attempt].filled = 0 /\ orders[attempt].rungs = 0
      /\ orders[attempt].sent = "no"
  BY OrderTypes DEF LadderOK, OrdersOK, CallOK
<1>2. /\ orders' \in [Attempts -> OrderRecord]
      /\ \A b \in Attempts \ {attempt} : orders'[b] = orders[b]
      /\ orders'[attempt].sent # "acked"
      /\ orders'[attempt].filled = 0
      /\ orders'[attempt].rungs = 0
      /\ OrdersOK' /\ AttemptsOK'
  <2>1. CASE UNCHANGED orders
    BY <1>1, <2>1 DEF TypeOK, OrdersOK, AttemptsOK
  <2>2. CASE orders' = [orders EXCEPT ![attempt] = NewOrder("lost", PlacePrice(t))]
    BY <2>2, PlaceFacts
  <2> QED BY <2>1, <2>2
<1>3. TypeOK'
  <2>1. ordersCount' \in Nat /\ ordersToday' \in BOOLEAN /\ acksToday' \in Nat
    BY RollDayType
  <2> QED BY <1>2, <2>1 DEF TypeOK, Pcs, Failed, AnyTouch, Answers
<1>4. CallOK'
  BY <1>1, <1>2 DEF CallOK, Working, Failed, NoAnswer, TypeOK
<1>5. LadderOK'
  BY <1>1, <1>2 DEF LadderOK, RungsOf
<1>6. BookedIsReal' /\ NeverAbandonsWorking'
  BY <1>1, <1>2 DEF BookedIsReal, NeverAbandonsWorking, Failed, AttemptsOK
<1> QED BY <1>2, <1>3, <1>4, <1>5, <1>6
-----------------------------------------------------------------------------
(* Steps of the ladder. *)

\* A rung re-prices the order once, or leaves it alone.
LEMMA ModifyFacts ==
  ASSUME TypeOK, NEW k \in {"LIMIT", "MARKET"}, NEW p \in Nat,
         Modify(k, p) \/ UNCHANGED orders
  PROVE  /\ orders' \in [Attempts -> OrderRecord]
         /\ \A b \in Attempts \ {attempt} : orders'[b] = orders[b]
         /\ orders'[attempt].rungs \in {orders[attempt].rungs, orders[attempt].rungs + 1}
         /\ \A b \in Attempts : /\ orders'[b].filled = orders[b].filled
                                /\ orders'[b].live = orders[b].live
                                /\ orders'[b].rejected = orders[b].rejected
                                /\ orders'[b].sent = orders[b].sent
                                /\ orders'[b].shown = orders[b].shown
                                /\ orders'[b].empties = orders[b].empties
                                /\ orders'[b].cancelled = orders[b].cancelled
<1>1. CASE UNCHANGED orders
  BY <1>1, OrderTypes DEF TypeOK
<1>2. CASE ~UNCHANGED orders
  <2> DEFINE r == orders[attempt]
             n == r.rungs + 1
             new == [r EXCEPT !.kind = k, !.price = p, !.rungs = n]
  <2>1. r \in OrderRecord /\ n \in Nat
    BY OrderTypes DEF OrderRecord
  <2>2. /\ new \in OrderRecord
        /\ new.rungs = n /\ new.filled = r.filled /\ new.live = r.live
        /\ new.rejected = r.rejected /\ new.sent = r.sent
        /\ new.shown = r.shown /\ new.empties = r.empties
        /\ new.cancelled = r.cancelled
    <3> HIDE DEF n, r
    <3> QED BY <2>1 DEF OrderRecord
  <2>3. orders' = [orders EXCEPT ![attempt] = new]
    BY <1>2, OrderTypes DEF Modify
  <2> HIDE DEF new
  <2>4. /\ orders' \in [Attempts -> OrderRecord] /\ orders'[attempt] = new
        /\ \A b \in Attempts \ {attempt} : orders'[b] = orders[b]
    BY <2>2, <2>3, OrderTypes
  <2> QED BY <2>2, <2>4
<1> QED BY <1>1, <1>2

LEMMA LadderStep ==
  ASSUME IInv, pc = "escalate", pc' = "rungWait", st' = Unknown,
         NEW k \in {"LIMIT", "MARKET"}, NEW p \in Nat,
         Modify(k, p) \/ UNCHANGED orders,
         UNCHANGED <<request, attempt, touch, hint, kept, answer, railVars, worldVars>>,
         rung' = rung \/ rung' = RungsOf(attempt)
  PROVE  IInv'
<1> USE DEF IInv, worldVars, railVars
<1>1. attempt \in {1, 2} /\ Attempts = {1, 2} /\ rung \in Nat
      /\ RungsOf(attempt) \in 0..Rungs /\ rung <= RungsOf(attempt)
      /\ orders[attempt].rungs \in Nat /\ orders[attempt].rungs < rung
  <2>1. attempt \in {1, 2} /\ Attempts = {1, 2} /\ orders[attempt].rungs \in Nat
    BY OrderTypes DEF OrderRecord
  <2>2. rung \in Nat /\ RungsOf(attempt) \in 0..Rungs
    BY OrderAssumption DEF RungsOf, TypeOK
  <2> QED BY <2>1, <2>2 DEF LadderOK
<1>2. TypeOK'
  <2>1. orders' \in [Attempts -> OrderRecord]
    BY ModifyFacts
  <2>2. rung' \in 0..Rungs
    BY <1>1 DEF TypeOK
  <2> QED BY <2>1, <2>2, NoOrderType DEF TypeOK, Pcs, Waits, AnyTouch
<1>3. OrdersOK'
  BY <1>1, ModifyFacts DEF OrdersOK, CallOK, Working
<1>4. AttemptsOK'
  BY <1>1, ModifyFacts DEF AttemptsOK
<1>5. CallOK'
  <2>1. kept \in Nat /\ orders[attempt].filled \in Nat
    BY OrderTypes DEF TypeOK, OrderRecord
  <2> QED BY <1>1, <2>1, ModifyFacts DEF CallOK, Working, Unknown, Row
<1>6. LadderOK'
  <2>1. RungsOf(attempt)' = RungsOf(attempt) /\ RungsOf(1)' = RungsOf(1)
    BY DEF RungsOf
  <2>2. orders'[attempt].rungs <= rung' /\ rung' <= RungsOf(attempt)
    <3>1. rung' \in Nat /\ rung <= rung' /\ rung' <= RungsOf(attempt)
      BY <1>1
    <3>2. orders'[attempt].rungs \in {orders[attempt].rungs, orders[attempt].rungs + 1}
      BY ModifyFacts
    <3> QED BY <1>1, <3>1, <3>2
  <2>3. orders'[1].rungs <= RungsOf(1)
    <3>1. CASE attempt = 1
      <4>1. orders'[1].rungs \in Nat
        BY <1>1, <3>1, ModifyFacts
      <4> QED BY <1>1, <2>2, <3>1, <4>1
    <3>2. CASE attempt = 2
      BY <1>1, <3>2, ModifyFacts DEF LadderOK
    <3> QED BY <1>1, <3>1, <3>2
  <2> QED BY <2>1, <2>2, <2>3 DEF LadderOK
<1>7. BookedIsReal' /\ NeverAbandonsWorking'
  BY DEF BookedIsReal, NeverAbandonsWorking, CallOK, NoAnswer
<1> QED BY <1>2, <1>3, <1>4, <1>5, <1>6, <1>7

LEMMA RepriceInv ==
  ASSUME IInv, NEW t \in AnyTouch, Reprice(t)
  PROVE  IInv'
<1>1. Protected(rung, Basis(t)) \in Nat
  <2>1. rung \in 1..Rungs
    BY OrderAssumption DEF IInv, TypeOK, LadderOK, Reprice
  <2> QED BY <2>1, PriceTypes DEF IInv
<1>2. Modify("LIMIT", Protected(rung, Basis(t))) \/ UNCHANGED orders
  BY DEF Reprice
<1> QED BY <1>1, <1>2, LadderStep DEF Reprice, callVars

LEMMA GoToMarketInv ==
  ASSUME IInv, NEW t \in AnyTouch, GoToMarket(t)
  PROVE  IInv'
<1>1. NoPrice \in Nat
  BY DEF NoPrice
<1> QED BY <1>1, LadderStep DEF GoToMarket
-----------------------------------------------------------------------------
(* Steps of the calendar, and stuttering. *)

LEMMA CalendarInv ==
  ASSUME IInv, MarketCloses \/ NewDay \/ UNCHANGED vars
  PROVE  IInv'
<1> USE DEF IInv
<1>0. /\ UNCHANGED <<pc, request, attempt, rung, touch, hint, st, kept, answer, orders>>
      /\ ordersCount' \in Nat /\ ordersToday' \in BOOLEAN /\ acksToday' \in Nat
      /\ marketOpen' \in BOOLEAN /\ asked' \in Nat
  <2> USE DEF TypeOK, callVars, railVars
  <2>1. CASE MarketCloses
    BY <2>1 DEF MarketCloses
  <2>2. CASE NewDay
    BY <2>2 DEF NewDay
  <2>3. CASE UNCHANGED vars
    BY <2>3 DEF vars
  <2> QED BY <2>1, <2>2, <2>3
<1> USE <1>0
<1>1. TypeOK'
  BY DEF TypeOK, AnyTouch
<1>2. OrdersOK' /\ AttemptsOK'
  BY DEF OrdersOK, AttemptsOK
<1>3. CallOK' /\ LadderOK'
  BY DEF CallOK, LadderOK, RungsOf
<1>4. BookedIsReal' /\ NeverAbandonsWorking'
  BY DEF BookedIsReal, NeverAbandonsWorking, Traded
<1> QED BY <1>1, <1>2, <1>3, <1>4

LEMMA NextInv == ASSUME IInv, [Next]_vars PROVE IInv'
<1>1. CASE \E q \in Quantities, exit \in BOOLEAN, lim \in Limits \cup {NoPrice} :
             Execute(q, exit, lim)
  BY <1>1, ExecuteInv
<1>2. CASE \E t \in AnyTouch : \/ RailsRefuse(t) \/ PlaceRaises(t) \/ PlaceAccepted(t)
                             \/ Reprice(t) \/ GoToMarket(t) \/ RetryOnce(t)
  BY <1>2, RailsRefuseInv, PlaceRaisesInv, PlaceAcceptedInv, RepriceInv,
     GoToMarketInv, RetryOnceInv
<1>3. CASE Poll
  BY <1>3, PollInv
<1>4. CASE WaitExpires
  BY <1>4, WaitExpiresInv
<1>5. CASE Cancel
  BY <1>5, CancelInv
<1>6. CASE PollAfterCancel
  BY <1>6, PollAfterCancelInv
<1>7. CASE CancelUnconfirmed
  BY <1>7, CancelUnconfirmedInv
<1>8. CASE RecheckDisagrees
  BY <1>8, RecheckDisagreesInv
<1>9. CASE Exchange
  BY <1>9, ExchangeInv DEF Exchange
<1>10. CASE MarketCloses \/ NewDay \/ UNCHANGED vars
  BY <1>10, CalendarInv
<1> QED BY <1>1, <1>2, <1>3, <1>4, <1>5, <1>6, <1>7, <1>8, <1>9, <1>10
        DEF Next, Broker

\* IInv is an invariant of the order.
THEOREM Invariant == Spec => []IInv
<1>1. Init => IInv
  BY InitInv
<1>2. IInv /\ [Next]_vars => IInv'
  BY NextInv
<1> QED BY <1>1, <1>2, PTL DEF Spec
-----------------------------------------------------------------------------
(* The safety properties that follow from IInv. *)

\* Every variable of LiveOrder stays in its type.
THEOREM TypeCorrect == Spec => []TypeOK
BY Invariant, PTL DEF IInv

LEMMA TwoOrders ==
  ASSUME IInv
  PROVE  /\ NoOverfill
         /\ ReplacesOnlyTheDead
         /\ \A a \in Attempts : orders[a].live => Traded = orders[a].filled
<1> USE DEF IInv
<1>1. /\ attempt \in {1, 2} /\ Attempts = {1, 2}
      /\ orders[1].filled \in Nat /\ orders[2].filled \in Nat
  BY OrderTypes DEF OrderRecord
<1>2. orders[2].filled = 0 \/ orders[1].filled = 0
  BY <1>1 DEF AttemptsOK, OrdersOK
<1>3. NoOverfill
  BY <1>1, <1>2, QtyType DEF NoOverfill, Traded, OrdersOK
<1>4. ReplacesOnlyTheDead
  BY <1>1 DEF ReplacesOnlyTheDead, AttemptsOK
<1>5. \A a \in Attempts : orders[a].live => Traded = orders[a].filled
  BY <1>1 DEF Traded, AttemptsOK, OrdersOK
<1> QED BY <1>3, <1>4, <1>5

\* The two orders of a call together never trade more than was asked for.
THEOREM NeverOverfills == Spec => []NoOverfill
<1>1. IInv => NoOverfill
  BY TwoOrders
<1> QED BY <1>1, Invariant, PTL

\* The second order is sent only above a first one that is dead and empty.
THEOREM NeverDoubles == Spec => []ReplacesOnlyTheDead
<1>1. IInv => ReplacesOnlyTheDead
  BY TwoOrders
<1> QED BY <1>1, Invariant, PTL

\* A fill given to the engine is of units that traded.
THEOREM BooksOnlyTrades == Spec => []BookedIsReal
BY Invariant, PTL DEF IInv

\* No answer leaves a known order working that nobody tried to cancel.
THEOREM NeverAbandons == Spec => []NeverAbandonsWorking
BY Invariant, PTL DEF IInv

\* The ladder re-prices an order at most once per rung, the retry never.
THEOREM ChaseIsBounded == Spec => []ChasesWithinTheLadder
<1>1. IInv => ChasesWithinTheLadder
  <2> SUFFICES ASSUME IInv PROVE ChasesWithinTheLadder
    OBVIOUS
  <2>1. /\ attempt \in {1, 2} /\ orders[2].rungs \in Nat /\ rung \in Nat
        /\ orders[2] \in OrderRecord
    BY OrderTypes DEF OrderRecord, IInv, TypeOK
  <2>2. orders[2].rungs = 0
    BY <2>1 DEF IInv, LadderOK, AttemptsOK, OrdersOK, Attempts, RungsOf
  <2> QED BY <2>2 DEF ChasesWithinTheLadder, IInv, LadderOK
<1> QED BY <1>1, Invariant, PTL
-----------------------------------------------------------------------------
(* The rails: ids handed out today are counted by _orders_count, which the *)
(* cap bounds.                                                             *)

CapInv ==
  /\ acksToday \in Nat /\ ordersCount \in Nat /\ ordersToday \in BOOLEAN
  /\ acksToday <= CountToday
  /\ acksToday <= MaxOrdersPerDay

LEMMA RollDayCap ==
  ASSUME CapInv
  PROVE  /\ RollDay(FALSE) => CapInv'
         /\ \A t : RollDay(TRUE) /\ RailsPass(t) => CapInv'
<1>1. MaxOrdersPerDay \in Nat
  BY OrderAssumption
<1>2. ASSUME RollDay(FALSE) PROVE CapInv'
  BY <1>1, <1>2 DEF CapInv, CountToday, RollDay
<1>3. ASSUME NEW t, RollDay(TRUE), RailsPass(t) PROVE CapInv'
  <2>1. marketOpen /\ CountToday < MaxOrdersPerDay
    BY <1>3 DEF RailsPass
  <2>2. /\ ordersCount' = CountToday + 1
        /\ ordersToday' = TRUE
        /\ acksToday' = acksToday + 1
    BY <1>3, <2>1 DEF RollDay
  <2>3. CountToday \in Nat
    BY DEF CapInv, CountToday
  <2> QED BY <1>1, <2>1, <2>2, <2>3 DEF CapInv, CountToday
<1> QED BY <1>2, <1>3

\* The broker never hands out more ids in a day than the daily cap.
THEOREM CapHolds == Spec => []DailyCapHolds
<1>0. MaxOrdersPerDay \in Nat
  BY OrderAssumption
<1>1. Init => CapInv
  <2> SUFFICES ASSUME Init PROVE CapInv
    OBVIOUS
  <2>1. acksToday = 0 /\ ordersCount = 0 /\ ordersToday = FALSE
    BY DEF Init
  <2>2. CountToday \in Nat
    BY <2>1 DEF CountToday
  <2>3. ordersToday \in BOOLEAN
    BY <2>1
  <2>4. acksToday \in Nat /\ ordersCount \in Nat
        /\ acksToday <= CountToday /\ acksToday <= MaxOrdersPerDay
    BY <1>0, <2>1, <2>2
  <2> QED BY <2>3, <2>4 DEF CapInv
<1>2. CapInv /\ [Next]_vars => CapInv'
  <2> SUFFICES ASSUME CapInv, [Next]_vars PROVE CapInv'
    OBVIOUS
  <2>1. CASE \E t \in AnyTouch : RailsRefuse(t) \/ PlaceRaises(t)
    BY <2>1, RollDayCap DEF RailsRefuse, PlaceRaises
  <2>2. CASE \E t \in AnyTouch : PlaceAccepted(t)
    BY <2>2, RollDayCap DEF PlaceAccepted
  <2>3. CASE NewDay
    <3>1. acksToday' = 0 /\ ordersCount' \in Nat /\ ordersToday' = FALSE
      BY <2>3 DEF NewDay, CapInv, callVars, railVars
    <3>2. CountToday' \in Nat
      BY <3>1 DEF CountToday
    <3>3. ordersToday' \in BOOLEAN
      BY <3>1
    <3>4. acksToday' \in Nat /\ ordersCount' \in Nat
          /\ acksToday' <= CountToday' /\ acksToday' <= MaxOrdersPerDay
      BY <1>0, <3>1, <3>2
    <3> QED BY <3>3, <3>4 DEF CapInv
  <2>4. CASE UNCHANGED railVars
    BY <2>4 DEF railVars, CapInv, CountToday
  <2>5. [Next]_vars => \/ \E t \in AnyTouch : RailsRefuse(t) \/ PlaceRaises(t) \/ PlaceAccepted(t)
                      \/ NewDay
                      \/ UNCHANGED railVars
    BY DEF Next, Broker, Exchange, Execute, Reprice, GoToMarket, RetryOnce, Poll,
           WaitExpires, Cancel, PollAfterCancel, CancelUnconfirmed, RecheckDisagrees,
           Trade, Refuse, Pull, MarketCloses, vars, railVars
  <2> QED BY <2>1, <2>2, <2>3, <2>4, <2>5
<1>3. CapInv => DailyCapHolds
  BY DEF CapInv, DailyCapHolds
<1> QED BY <1>1, <1>2, <1>3, PTL DEF Spec
-----------------------------------------------------------------------------
(* The caller's limit. *)

LEMMA ClampHolds ==
  ASSUME TypeOK, request.limit # NoPrice, NEW p \in Nat
  PROVE  Clamp(p) \in 1..request.limit
<1>1. request.limit \in Limits
  BY DEF TypeOK
<1>2. \A l \in Limits : l \in Nat \ {0}
  BY OrderAssumption
<1> QED BY <1>1, <1>2 DEF Clamp, NoPrice

\* An order placed under a limit is a LIMIT order within it.
LEMMA PlacedWithinLimit ==
  ASSUME TypeOK, request.limit # NoPrice, NEW t \in AnyTouch, NEW s
  PROVE  /\ NewOrder(s, PlacePrice(t)).kind = "LIMIT"
         /\ NewOrder(s, PlacePrice(t)).price \in 1..request.limit
<1> DEFINE p == PlacePrice(t)
<1>1. p \in 1..request.limit
  <2>1. hint \in Nat /\ t \in Nat
    BY PriceTypes DEF TypeOK
  <2> DEFINE x == IF hint # NoPrice THEN hint ELSE t
  <2>2. x \in Nat
    BY <2>1
  <2>3. p = Clamp(x)
    BY DEF PlacePrice
  <2> HIDE DEF x, p
  <2> QED BY <2>2, <2>3, ClampHolds
<1>2. p # NoPrice
  BY <1>1 DEF NoPrice
<1>3. ASSUME NEW q \in Nat, q # NoPrice
      PROVE  NewOrder(s, q).kind = "LIMIT" /\ NewOrder(s, q).price = q
  BY <1>3 DEF NewOrder, NoOrder
<1>4. p \in Nat
  BY PriceTypes
<1> QED BY <1>1, <1>2, <1>3, <1>4

\* A step that changes at most one order, to one within the limit.
LEMMA LimitStep ==
  ASSUME TypeOK, LimitOrdersWithinCallersLimit, request' = request,
         NEW a \in Attempts,
         \A b \in Attempts \ {a} : orders'[b] = orders[b],
         \/ /\ orders'[a].sent = orders[a].sent
            /\ orders'[a].kind = orders[a].kind
            /\ orders'[a].price = orders[a].price
         \/ orders'[a].kind = "MARKET"
         \/ request.limit # NoPrice => orders'[a].price \in 1..request.limit
  PROVE  LimitOrdersWithinCallersLimit'
BY DEF LimitOrdersWithinCallersLimit

\* Priced orders stay within the limit through every placement and rung.
THEOREM LimitsAreKept == Spec => []LimitOrdersWithinCallersLimit
<1> DEFINE L == LimitOrdersWithinCallersLimit
<1>1. Init => L
  BY DEF Init, LimitOrdersWithinCallersLimit
<1>2. IInv /\ L /\ [Next]_vars => L'
  <2> SUFFICES ASSUME IInv, L, [Next]_vars PROVE L'
    OBVIOUS
  <2> USE DEF IInv
  <2>a. attempt \in Attempts /\ orders \in [Attempts -> OrderRecord]
    BY DEF TypeOK
  <2>1. CASE \E t \in AnyTouch, s \in {"lost", "acked"} :
               orders' = [orders EXCEPT ![attempt] = NewOrder(s, PlacePrice(t))]
             /\ request' = request
    <3>1. PICK t \in AnyTouch, s \in {"lost", "acked"} :
            orders' = [orders EXCEPT ![attempt] = NewOrder(s, PlacePrice(t))]
      BY <2>1
    <3>2. orders'[attempt] = NewOrder(s, PlacePrice(t))
          /\ \A b \in Attempts \ {attempt} : orders'[b] = orders[b]
      BY <2>a, <3>1
    <3> QED BY <2>a, <2>1, <3>2, PlacedWithinLimit, LimitStep
  <2>2. CASE \E t \in AnyTouch : Reprice(t)
    <3>1. PICK t \in AnyTouch : Reprice(t)
      BY <2>2
    <3> DEFINE p == Protected(rung, Basis(t))
    <3>2. request' = request
      BY <3>1 DEF Reprice, callVars
    <3>3. CASE UNCHANGED orders
      BY <2>a, <3>2, <3>3, LimitStep
    <3>4. CASE ~UNCHANGED orders
      <4>1. orders' = [orders EXCEPT ![attempt].kind = "LIMIT", ![attempt].price = p,
                                     ![attempt].rungs = @ + 1]
        BY <3>1, <3>4 DEF Reprice, Modify
      <4>2. orders'[attempt].price = p
        <5> HIDE DEF p
        <5> QED BY <2>a, <4>1 DEF OrderRecord
      <4>3. \A b \in Attempts \ {attempt} : orders'[b] = orders[b]
        BY <2>a, <4>1
      <4>4. request.limit # NoPrice => p \in 1..request.limit
        <5>1. rung \in 1..Rungs
          BY <3>1, OrderAssumption DEF TypeOK, LadderOK, Reprice
        <5>2. Ladder[rung] \in Nat /\ Basis(t) \in Nat /\ Basis(t) # NoPrice
          BY <3>1, <5>1, PriceTypes, OrderAssumption DEF Reprice
        <5>3. Basis(t) + Ladder[rung] \in Nat
          BY <5>2
        <5>4. p = Clamp(Basis(t) + Ladder[rung])
          BY <5>2 DEF Protected
        <5> QED BY <5>3, <5>4, ClampHolds
      <4> QED BY <2>a, <3>2, <4>2, <4>3, <4>4, LimitStep
    <3> QED BY <3>3, <3>4
  <2>3. CASE \E t \in AnyTouch : GoToMarket(t)
    <3>1. PICK t \in AnyTouch : GoToMarket(t)
      BY <2>3
    <3>2. request' = request
      BY <3>1 DEF GoToMarket
    <3>3. CASE UNCHANGED orders
      BY <2>a, <3>2, <3>3, LimitStep
    <3>4. CASE ~UNCHANGED orders
      <4>1. orders' = [orders EXCEPT ![attempt].kind = "MARKET",
                         ![attempt].price = NoPrice, ![attempt].rungs = @ + 1]
        BY <3>1, <3>4 DEF GoToMarket, Modify
      <4>2. orders'[attempt].kind = "MARKET"
            /\ \A b \in Attempts \ {attempt} : orders'[b] = orders[b]
        BY <2>a, <4>1 DEF OrderRecord
      <4> QED BY <2>a, <3>2, <4>2, LimitStep
    <3> QED BY <3>3, <3>4
  <2>4. CASE \E v \in Rows(orders[attempt]) : Read(v) /\ request' = request
    <3>1. PICK v \in Rows(orders[attempt]) : Read(v) /\ request' = request
      BY <2>4
    <3>2. /\ \A b \in Attempts \ {attempt} : orders'[b] = orders[b]
          /\ orders'[attempt].sent = orders[attempt].sent
      BY <3>1, <2>a, ReadFacts
    <3>3. /\ orders'[attempt].kind = orders[attempt].kind
          /\ orders'[attempt].price = orders[attempt].price
      BY <3>1, <2>a DEF Read, OrderRecord
    <3> QED BY <2>a, <3>1, <3>2, <3>3, LimitStep
  <2>5. CASE Cancel \/ \E a \in Attempts : Trade(a) \/ Refuse(a) \/ Pull(a)
    <3>1. request' = request
      BY <2>5 DEF Cancel, Trade, Refuse, Pull, callVars
    <3>2. PICK a \in Attempts :
            /\ \A b \in Attempts \ {a} : orders'[b] = orders[b]
            /\ orders'[a].sent = orders[a].sent
            /\ orders'[a].kind = orders[a].kind
            /\ orders'[a].price = orders[a].price
      <4>1. CASE Cancel
        BY <2>a, <4>1 DEF Cancel, OrderRecord
      <4>2. CASE \E a \in Attempts : Trade(a) \/ Refuse(a) \/ Pull(a)
        BY <2>a, <4>2 DEF Trade, Refuse, Pull, OrderRecord
      <4> QED BY <2>5, <4>1, <4>2
    <3> QED BY <3>1, <3>2, LimitStep
  <2>6. CASE UNCHANGED <<orders, request>>
    BY <2>a, <2>6, LimitStep
  <2>7. CASE \E q \in Quantities, exit \in BOOLEAN, lim \in Limits \cup {NoPrice} :
               Execute(q, exit, lim)
    BY <2>7 DEF Execute, LimitOrdersWithinCallersLimit, NoOrder
  <2> QED BY <2>1, <2>2, <2>3, <2>4, <2>5, <2>6, <2>7
          DEF Next, Broker, Exchange, RailsRefuse, PlaceRaises, PlaceAccepted,
              RetryOnce, Poll, WaitExpires, PollAfterCancel, CancelUnconfirmed,
              RecheckDisagrees, MarketCloses, NewDay, vars, callVars
<1> QED BY <1>1, <1>2, Invariant, PTL DEF Spec

\* A call never trades more units than it was asked for, and never answers with
\* units that did not trade: the position it leaves is one the engine ordered.
THEOREM FillsReal == Spec => []FillsAreReal
BY NeverOverfills, BooksOnlyTrades, PTL DEF FillsAreReal

\* The caller's limit, the ladder and the day's cap hold on every path of every
\* call, retries included.
THEOREM LimitsHold == Spec => []WithinItsLimits
BY LimitsAreKept, ChaseIsBounded, CapHolds, PTL DEF WithinItsLimits

-----------------------------------------------------------------------------
(* The detailed order implements the abstract one. *)

\* Every step of LiveOrder is a step of OrderIntent or leaves it alone: one
\* answer to a request, no unit traded beyond it, no fill of untraded units.
THEOREM Refinement == Spec => ImplementsIntent
<1>1. Init => Intent!Init
  BY DEF Init, Intent!Init, Attempts, Traded, NoOrder, Failed, Intent!Error
<1>2. IInv /\ IInv' /\ [Next]_vars => [Intent!Next]_Intent!vars
  <2> SUFFICES ASSUME IInv, IInv', [Next]_vars PROVE [Intent!Next]_Intent!vars
    OBVIOUS
  <2> USE DEF Intent!vars, Intent!None, Intent!Error, Intent!FillOf,
              NoAnswer, Failed, Filled
  <2>a. Traded \in Nat /\ attempt \in {1, 2} /\ Attempts = {1, 2}
    BY OrderTypes DEF IInv, Traded, OrderRecord
  <2>1. CASE \E q \in Quantities, exit \in BOOLEAN, lim \in Limits \cup {NoPrice} :
               Execute(q, exit, lim)
    <3>1. PICK q \in Quantities, exit \in BOOLEAN, lim \in Limits \cup {NoPrice} :
            Execute(q, exit, lim)
      BY <2>1
    <3>2. request'.qty = q /\ Traded' = 0 /\ answer' = NoAnswer /\ answer # NoAnswer
      BY <3>1 DEF Execute, Traded, Attempts, NoOrder, IInv, CallOK
    <3> QED BY <3>2 DEF Intent!Next, Intent!Ask
  <2>b. \/ answer' = answer
        \/ answer = NoAnswer
        \/ \E q \in Quantities, exit \in BOOLEAN, lim \in Limits \cup {NoPrice} :
             Execute(q, exit, lim)
    <3>1. pc # "idle" => answer = NoAnswer
      BY DEF IInv, CallOK
    <3> QED
      BY <3>1
      DEF Next, Broker, Exchange, RailsRefuse, PlaceRaises, PlaceAccepted, Reprice,
          GoToMarket, RetryOnce, Poll, WaitExpires, Cancel, PollAfterCancel,
          CancelUnconfirmed, RecheckDisagrees, Trade, Refuse, Pull, MarketCloses,
          NewDay, vars, callVars
  <2>2. CASE Traded' = Traded /\ request' = request
             /\ (answer' = answer \/ answer = NoAnswer)
    <3>1. CASE answer' = answer
      BY <2>2, <3>1
    <3>2. CASE answer' # answer /\ answer = NoAnswer
      <4>1. \/ answer' = Failed
            \/ \E k \in 1..Traded : answer' = Filled(k)
        <5>1. answer' \in {NoAnswer, Failed} \cup [kind : {"fill"}, units : Nat]
          BY DEF IInv, TypeOK, Answers
        <5>2. CASE answer' \in [kind : {"fill"}, units : Nat]
          BY <2>2, <5>2 DEF IInv, BookedIsReal
        <5> QED BY <3>2, <5>1, <5>2
      <4> QED BY <2>2, <3>2, <4>1 DEF Intent!Next, Intent!AnswerFill, Intent!AnswerError
    <3> QED BY <2>2, <3>1, <3>2
  <2>3. CASE \E a \in Attempts : Trade(a)
    <3>1. PICK a \in Attempts : Trade(a)
      BY <2>3
    <3>2. /\ Traded = orders[a].filled /\ orders[a].filled < request.qty
          /\ request' = request /\ answer' = answer
      BY <3>1, TwoOrders DEF Trade, callVars, IInv, OrdersOK
    <3>3. Traded' = Traded + 1
      BY <3>1, <2>a, OrderTypes DEF Trade, Traded, OrderRecord, IInv
    <3> QED BY <3>2, <3>3 DEF Intent!Next, Intent!Trade
  <2>4. CASE /\ request' = request
             /\ \A a \in Attempts : orders'[a].filled = orders[a].filled
    BY <2>1, <2>2, <2>4, <2>a, <2>b DEF Traded
  <2>5. CASE UNCHANGED <<request, orders>>
    BY <2>4, <2>5
  <2>6. CASE \E v \in Rows(orders[attempt]) : Read(v) /\ request' = request
    BY <2>4, <2>6, ReadFacts DEF IInv
  <2>7. CASE \E t \in AnyTouch : PlaceRaises(t) \/ PlaceAccepted(t)
    <3>1. PICK t \in AnyTouch : PlaceRaises(t) \/ PlaceAccepted(t)
      BY <2>7
    <3>2. /\ pc = "place" /\ request' = request /\ attempt' = attempt
          /\ \/ UNCHANGED orders
             \/ \E s \in {"lost", "acked"} :
                  orders' = [orders EXCEPT ![attempt] = NewOrder(s, PlacePrice(t))]
      BY <3>1 DEF PlaceRaises, PlaceAccepted
    <3>3. orders[attempt].filled = 0
      BY <2>a, <3>2 DEF IInv, CallOK, OrdersOK
    <3> QED BY <2>4, <2>5, <3>2, <3>3, PlaceFacts
  <2>8. CASE \E t \in AnyTouch : Reprice(t) \/ GoToMarket(t)
    BY <2>4, <2>8, OrderTypes
       DEF Reprice, GoToMarket, Modify, callVars, IInv, OrderRecord
  <2>9. CASE Cancel \/ \E a \in Attempts : Refuse(a) \/ Pull(a)
    <3>1. CASE Cancel
      BY <2>4, <3>1, OrderTypes DEF Cancel, IInv, OrderRecord
    <3>2. CASE \E a \in Attempts : Refuse(a) \/ Pull(a)
      <4>1. PICK a \in Attempts : Refuse(a) \/ Pull(a)
        BY <3>2
      <4>2. /\ request' = request
            /\ \A b \in Attempts : orders'[b].filled = orders[b].filled
        BY <4>1, OrderTypes DEF Refuse, Pull, callVars, IInv, OrderRecord
      <4> QED BY <2>4, <4>2
    <3> QED BY <2>9, <3>1, <3>2
  <2>10. CASE \E t \in AnyTouch : RailsRefuse(t) \/ RetryOnce(t)
    <3>1. PICK t \in AnyTouch : RailsRefuse(t) \/ RetryOnce(t)
      BY <2>10
    <3>2. CASE RailsRefuse(t)
      BY <2>5, <3>2 DEF RailsRefuse
    <3>3. CASE RetryOnce(t)
      BY <2>6, <3>3 DEF RetryOnce
    <3> QED BY <3>1, <3>2, <3>3
  <2>11. CASE WaitExpires \/ CancelUnconfirmed \/ MarketCloses \/ NewDay \/ UNCHANGED vars
    BY <2>5, <2>11 DEF WaitExpires, CancelUnconfirmed, MarketCloses, NewDay, vars, callVars
  <2>12. CASE Poll \/ PollAfterCancel \/ RecheckDisagrees
    BY <2>5, <2>6, <2>12 DEF Poll, PollAfterCancel, RecheckDisagrees
  <2> QED
    BY <2>1, <2>3, <2>7, <2>8, <2>9, <2>10, <2>11, <2>12 DEF Next, Broker, Exchange
<1> QED BY <1>1, <1>2, Invariant, PTL DEF Spec, ImplementsIntent, Intent!Spec
=============================================================================
