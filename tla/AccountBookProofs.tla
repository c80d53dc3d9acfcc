-------------------------- MODULE AccountBookProofs --------------------------
(***************************************************************************)
(* The delivery book of an account, for any number of runs, units and      *)
(* days: nothing is claimed twice, and no halt is the product of the T+1   *)
(* arithmetic.                                                             *)
(***************************************************************************)
EXTENDS AccountBook, SumLemmas

Step == [pc : {"idle", "book", "adopt", "counted", "filled", "booked"}, units : Int, fold : BOOLEAN]
Kinds == {"raced", "sibling", "sold", "unseen"}

\* The account stays within its bounds, settled or not.
AccountBounded == holdings \in 0..MaxUnits /\ Account \in 0..MaxUnits

\* A fill is of one unit and fits the book; what is adopted is at least one.
StepsFit ==
  \A r \in Runs :
    /\ thread[r].pc = "filled" => thread[r].units \in {-1, 1} /\ book[r] + thread[r].units \in Nat
    /\ thread[r].pc = "adopt" => thread[r].units \in Nat \ {0}
TypeInv == TypeOK /\ AccountBounded /\ StepsFit

\* A run that has traded today did so after the session rolled.
Active == {r \in Runs : traded[r] \/ Trading(r)}
TradesAreToday == Active # {} => rolled

\* Nobody looks at the account while another trades.
AloneInTrade ==
  Without({"raced"}) => \A r, s \in Runs : r # s /\ Reading(r) => ~Trading(s)

\* Without trades of the runs and of the owner there are no positions; without
\* trades of the runs and sales of the owner none is short.
PositionsAreTrades ==
  rolled /\ Active = {} =>
    /\ ~outside => positions = 0
    /\ Without({"sold"}) => positions >= 0
DayInv == TypeInv /\ TradesAreToday /\ AloneInTrade /\ PositionsAreTrades

\* What a run has read is there, and what it is about to adopt is unclaimed.
ReadIsThere ==
  \A r \in Runs : /\ thread[r].pc = "book" => thread[r].units <= Account
                  /\ thread[r].pc = "adopt" => Total(Runs) + thread[r].units <= Account
Undisturbed == Live = Runs /\ Without({"raced", "sibling", "sold"})
ClaimInv == DayInv /\ (Undisturbed => ReadIsThere /\ Total(Runs) + Flying <= Account)

\* What a run has counted is still so when it compares.
CountHolds ==
  \A r \in Runs : thread[r].pc = "counted" =>
    thread[r].units = Total(Runs) /\ thread[r].fold = FoldsDay(Runs)
HaltInv ==
  DayInv /\ (Live = Runs /\ Without({"raced"}) =>
    CountHolds /\ (Without({"unseen"}) => \A r \in Runs : halted[r] # "false"))
-----------------------------------------------------------------------------
(* Sums over the runs.                                                     *)

\* Booking k units in one run adds k to the total.
LEMMA TotalMoves ==
  ASSUME TypeOK, NEW r \in Runs, NEW k \in Int,
         book' \in [Runs -> Nat], book'[r] = book[r] + k,
         \A s \in Runs \ {r} : book'[s] = book[s]
  PROVE  Total(Runs)' = Total(Runs) + k
<1>1. IsFiniteSet(Runs)
  BY AccountAssumption
<1>2. \A s \in Runs : book[s] \in Int /\ book'[s] \in Int
  BY DEF TypeOK
<1>3. SumOver(book, Runs) \in Int
  BY <1>1, <1>2, SumType
<1>4. SumOver(book', Runs) = SumOver(book, Runs) - book[r] + book'[r]
  BY <1>1, <1>2, SumChange
<1> QED BY <1>2, <1>3, <1>4 DEF Total

LEMMA TotalType == ASSUME TypeOK PROVE Total(Runs) \in Nat
<1>1. IsFiniteSet(Runs) /\ \A s \in Runs : book[s] \in Nat
  BY AccountAssumption DEF TypeOK
<1> QED BY <1>1, SumNat DEF Total

\* Units in flight are those of the runs between a fill and its booking.
LEMMA FlyingType == ASSUME TypeOK, Live = Runs PROVE Flying \in Int
<1>1. IsFiniteSet(Runs) /\ \A s \in Runs : Fills[s] \in Int
  BY AccountAssumption DEF TypeOK, Fills
<1> QED BY <1>1, SumType DEF Flying

LEMMA FlyingMoves ==
  ASSUME TypeOK, TypeOK', Live = Runs, Live' = Runs, NEW r \in Runs,
         \A s \in Runs \ {r} : thread'[s] = thread[s]
  PROVE  Flying' = Flying - Fills[r] + Fills[r]'
<1>1. IsFiniteSet(Runs)
  BY AccountAssumption
<1>2. \A s \in Runs : Fills[s] \in Int /\ Fills'[s] \in Int
  BY DEF TypeOK, Fills
<1>3. \A s \in Runs \ {r} : Fills'[s] = Fills[s]
  BY DEF Fills
<1>4. SumOver(Fills', Runs) = SumOver(Fills, Runs) - Fills[r] + Fills'[r]
  BY <1>1, <1>2, <1>3, SumChange
<1> QED BY <1>4 DEF Flying

LEMMA NothingFlies ==
  ASSUME TypeOK, Live = Runs, \A s \in Runs : ~Trading(s)
  PROVE  Flying = 0
<1>1. IsFiniteSet(Runs) /\ \A s \in Runs : Fills[s] = 0
  BY AccountAssumption DEF Fills, Trading
<1> QED BY <1>1, SumZero DEF Flying

\* ... and so in the next state.
LEMMA NothingFliesThen ==
  ASSUME Live' = Runs, \A s \in Runs : ~Trading(s)'
  PROVE  Flying' = 0
<1>1. IsFiniteSet(Runs) /\ \A s \in Runs : Fills'[s] = 0
  BY AccountAssumption DEF Fills, Trading
<1>2. SumOver(Fills', Runs) = 0
  BY <1>1, SumZero
<1> QED BY <1>2 DEF Flying

-----------------------------------------------------------------------------
(* Types, bounds and what a step carries.                                  *)

LEMMA LesserOfTwo ==
  ASSUME NEW a \in Int, NEW b \in Int
  PROVE  Min({a, b}) \in Int /\ Min({a, b}) <= a /\ Min({a, b}) <= b
<1>1. \E x \in {a, b} : \A y \in {a, b} : x <= y
  OBVIOUS
<1>2. Min({a, b}) \in {a, b} /\ \A y \in {a, b} : Min({a, b}) <= y
  BY <1>1 DEF Min
<1> QED BY <1>2

LEMMA InitTypes == Init => TypeInv
<1> SUFFICES ASSUME Init PROVE TypeInv
  OBVIOUS
<1>a. /\ book \in [Runs -> 0..1] /\ holdings \in 0..MaxUnits /\ MaxUnits \in Nat
      /\ thread = [r \in Runs |-> Idle]
  BY AccountAssumption DEF Init
<1>b. book \in [Runs -> Nat] /\ holdings \in Nat
  BY <1>a
<1>c. Idle \in Step
  BY DEF Idle, At, Step
<1>d. thread \in [Runs -> Step]
  BY <1>a, <1>c
<1>e. mode \in [Runs -> {"live", "paper"}] /\ market \in {"open", "closed", "night"}
  BY DEF Init
<1>f. rolled \in BOOLEAN /\ outside \in BOOLEAN
  BY DEF Init
<1>g. traded \in [Runs -> BOOLEAN] /\ halted \in [Runs -> {"no", "real", "false"}]
  BY DEF Init
<1>h. positions \in Int /\ owner \in Nat /\ disturbed \subseteq {"raced", "sibling", "sold", "unseen"}
  BY DEF Init
<1>1. TypeOK
  BY <1>b, <1>d, <1>e, <1>f, <1>g, <1>h DEF TypeOK, Step
<1>2. AccountBounded
  BY AccountAssumption DEF Init, AccountBounded, Account
<1>3. StepsFit
  BY DEF Init, StepsFit, Idle, At
<1> QED BY <1>1, <1>2, <1>3 DEF TypeInv

\* A run goes on to a step that fits its book, and the broker is as it was.
LEMMA StepTypes ==
  ASSUME TypeInv, NEW r \in Runs, NEW step \in Step, Goes(r, step), UNCHANGED broker,
         UNCHANGED <<mode, owner, outside>>, disturbed' \subseteq Kinds,
         traded' \in [Runs -> BOOLEAN], halted' \in [Runs -> {"no", "real", "false"}],
         book' \in [Runs -> Nat], \A s \in Runs \ {r} : book'[s] = book[s],
         step.pc = "filled" => step.units \in {-1, 1} /\ book'[r] + step.units \in Nat,
         step.pc = "adopt" => step.units \in Nat \ {0}
  PROVE  TypeInv'
<1>1. thread' \in [Runs -> Step]
  BY DEF TypeInv, TypeOK, Goes, Step
<1>2. TypeOK'
  BY <1>1 DEF TypeInv, TypeOK, broker, Step, Kinds
<1>3. AccountBounded'
  BY DEF TypeInv, AccountBounded, Account, broker
<1>4. StepsFit'
  <2> SUFFICES ASSUME NEW s \in Runs
               PROVE  /\ thread'[s].pc = "filled" =>
                           thread'[s].units \in {-1, 1} /\ book'[s] + thread'[s].units \in Nat
                      /\ thread'[s].pc = "adopt" => thread'[s].units \in Nat \ {0}
    BY DEF StepsFit
  <2>1. thread' = [thread EXCEPT ![r] = step] /\ thread \in [Runs -> Step]
    BY DEF Goes, TypeInv, TypeOK, Step
  <2>2. CASE s = r
    BY <2>1, <2>2
  <2>3. CASE s # r
    BY <2>1, <2>3 DEF TypeInv, StepsFit
  <2> QED BY <2>2, <2>3
<1> QED BY <1>2, <1>3, <1>4 DEF TypeInv

LEMMA NextTypes == TypeInv /\ [Next]_vars => TypeInv'
<1> SUFFICES ASSUME TypeInv, [Next]_vars PROVE TypeInv'
  OBVIOUS
<1>a. /\ holdings \in Nat /\ positions \in Int /\ rolled \in BOOLEAN
      /\ book \in [Runs -> Nat] /\ thread \in [Runs -> Step] /\ owner \in Nat
      /\ traded \in [Runs -> BOOLEAN] /\ halted \in [Runs -> {"no", "real", "false"}]
      /\ disturbed \subseteq Kinds /\ MaxUnits \in Nat /\ Cap \in Nat
  BY AccountAssumption DEF TypeInv, TypeOK, Step, Kinds
<1>b. \A r \in Runs : thread[r] \in Step /\ book[r] \in Nat
  BY <1>a
<1>c. \A S : Raced(S) \subseteq Kinds /\ RacedBy(S) \subseteq Kinds
  BY DEF Raced, RacedBy, Kinds
<1>d. Total(Runs) \in Nat /\ Account \in Int /\ \A f \in BOOLEAN : DeliveryBook(f) \in Int
  BY <1>a, TotalType DEF TypeInv, Account, DeliveryBook
<1>e. Total(Live) \in Nat
  <2>1. IsFiniteSet(Live)
    BY AccountAssumption, FS_Subset DEF Live
  <2>2. \A r \in Live : book[r] \in Nat
    BY <1>a DEF Live
  <2> QED BY <2>1, <2>2, SumNat DEF Total
<1>f. \A S : FoldsDay(S) \in BOOLEAN
  BY DEF FoldsDay
<1>1. ASSUME NEW r \in Runs, AdoptReads(r) PROVE TypeInv'
  <2> DEFINE step == At("book", DeliveryBook(FoldsDay({r})))
  <2>1. step \in Step
    BY <1>d, <1>f DEF Idle, At, Step
  <2>2. step.pc = "book"
    BY DEF Idle, At
  <2>3. disturbed' \subseteq Kinds
    BY <1>1, <1>a, <1>c DEF AdoptReads, Note, Kinds
  <2>4. Goes(r, step) /\ UNCHANGED <<broker, runs, owner, outside>>
    BY <1>1 DEF AdoptReads
  <2> HIDE DEF step
  <2> QED BY <1>a, <2>1, <2>2, <2>3, <2>4, StepTypes DEF runs
<1>2. ASSUME NEW r \in Runs, AdoptCounts(r) PROVE TypeInv'
  <2> DEFINE share == Min({thread[r].units - Total(Runs), Cap - book[r]})
             step == IF share < 1 THEN Idle ELSE At("adopt", share)
  <2>1. share \in Int
    <3>1. thread[r].units - Total(Runs) \in Int /\ Cap - book[r] \in Int
      BY <1>a, <1>b, <1>d DEF Step
    <3> QED BY <3>1, LesserOfTwo
  <2>2. Goes(r, step) /\ UNCHANGED <<broker, runs, owner, outside, disturbed>>
    BY <1>2 DEF AdoptCounts
  <2> HIDE DEF share
  <2>3. step \in Step /\ step.pc # "filled" /\ (step.pc = "adopt" => step.units \in Nat \ {0})
    BY <2>1 DEF Idle, At, Step
  <2> HIDE DEF step
  <2> QED BY <1>a, <2>2, <2>3, StepTypes DEF runs
<1>3. ASSUME NEW r \in Runs, AdoptBooks(r) PROVE TypeInv'
  <2>1. thread[r].units \in Nat
    BY <1>3 DEF AdoptBooks, TypeInv, StepsFit
  <2>2. Idle \in Step /\ Idle.pc = "idle"
    BY DEF Idle, At, Step
  <2>3. book' \in [Runs -> Nat] /\ \A s \in Runs \ {r} : book'[s] = book[s]
    BY <1>3, <1>a, <1>b, <2>1 DEF AdoptBooks
  <2>4. disturbed' \subseteq Kinds
    BY <1>3, <1>a, <1>c DEF AdoptBooks
  <2>5. Goes(r, Idle) /\ UNCHANGED <<broker, mode, traded, halted, owner, outside>>
    BY <1>3 DEF AdoptBooks
  <2> QED BY <1>a, <2>2, <2>3, <2>4, <2>5, StepTypes
<1>4. ASSUME NEW r \in Runs, ReconcileCounts(r) PROVE TypeInv'
  <2> DEFINE step == [pc |-> "counted", units |-> Total(Live), fold |-> FoldsDay(Live)]
  <2>1. step \in Step /\ step.pc = "counted"
    BY <1>e, <1>f DEF Step
  <2>2. disturbed' \subseteq Kinds
    BY <1>4, <1>a, <1>c DEF ReconcileCounts, Note
  <2>3. Goes(r, step) /\ UNCHANGED <<broker, runs, owner, outside>>
    BY <1>4 DEF ReconcileCounts
  <2> HIDE DEF step
  <2> QED BY <1>a, <2>1, <2>2, <2>3, StepTypes DEF runs
<1>5. ASSUME NEW r \in Runs, Compare(r) PROVE TypeInv'
  <2>1. Idle \in Step /\ Idle.pc = "idle"
    BY DEF Idle, At, Step
  <2>2. halted' \in [Runs -> {"no", "real", "false"}]
    BY <1>5, <1>a DEF Compare
  <2>3. disturbed' \subseteq Kinds
    BY <1>5, <1>a DEF Compare, Kinds
  <2>4. Goes(r, Idle) /\ UNCHANGED <<broker, mode, book, traded, owner, outside>>
    BY <1>5 DEF Compare
  <2> QED BY <1>a, <2>1, <2>2, <2>3, <2>4, StepTypes
<1>6. ASSUME NEW r \in Runs, Decide(r) PROVE TypeInv'
  <2>1. PICK q \in {-1, 1} :
          /\ book[r] + q \in 0..MaxUnits
          /\ Goes(r, At("filled", q))
          /\ IF mode[r] = "paper" THEN UNCHANGED positions
             ELSE Account + q \in 0..MaxUnits /\ positions' = positions + q
    BY <1>6 DEF Decide
  <2> DEFINE step == At("filled", q)
  <2>2. step \in Step /\ step.pc = "filled" /\ step.units = q
    BY <2>1 DEF Idle, At, Step
  <2>3. disturbed' \subseteq Kinds /\ rolled /\ UNCHANGED <<holdings, rolled, market, runs, owner, outside>>
    BY <1>6, <1>a, <1>c DEF Decide, Note
  <2> HIDE DEF step
  <2>4. thread' = [thread EXCEPT ![r] = step]
    BY <2>1 DEF step, Goes
  <2>5. thread' \in [Runs -> Step] /\ positions' \in Int
    BY <1>a, <2>1, <2>2, <2>4
  <2>6. TypeOK'
    BY <2>3, <2>5 DEF TypeInv, TypeOK, runs, Step, Kinds
  <2>7. AccountBounded'
    BY <1>a, <2>1, <2>3 DEF TypeInv, AccountBounded, Account
  <2>8. StepsFit'
    BY <1>a, <1>b, <2>1, <2>2, <2>3, <2>4 DEF TypeInv, StepsFit, runs
  <2> QED BY <2>6, <2>7, <2>8 DEF TypeInv
<1>7. ASSUME NEW r \in Runs, BookTrade(r) PROVE TypeInv'
  <2> DEFINE step == At("booked", 0)
  <2>1. step \in Step /\ step.pc = "booked"
    BY DEF Idle, At, Step
  <2>2. book[r] + thread[r].units \in Nat
    BY <1>7 DEF BookTrade, TypeInv, StepsFit
  <2>3. book' \in [Runs -> Nat] /\ \A s \in Runs \ {r} : book'[s] = book[s]
    BY <1>7, <1>a, <2>2 DEF BookTrade
  <2>4. disturbed' \subseteq Kinds
    BY <1>7, <1>a, <1>c DEF BookTrade
  <2>5. Goes(r, step) /\ UNCHANGED <<broker, mode, traded, halted, owner, outside>>
    BY <1>7 DEF BookTrade
  <2> HIDE DEF step
  <2> QED BY <1>a, <2>1, <2>3, <2>4, <2>5, StepTypes
<1>8. ASSUME NEW r \in Runs, LogTrade(r) PROVE TypeInv'
  <2>1. Idle \in Step /\ Idle.pc = "idle"
    BY DEF Idle, At, Step
  <2>2. traded' \in [Runs -> BOOLEAN] /\ disturbed' \subseteq Kinds
    BY <1>8, <1>a, <1>c DEF LogTrade
  <2>3. Goes(r, Idle) /\ UNCHANGED <<broker, mode, book, halted, owner, outside>>
    BY <1>8 DEF LogTrade
  <2> QED BY <1>a, <2>1, <2>2, <2>3, StepTypes
<1>9. ASSUME NEW q \in {-1, 1}, OwnerTrades(q) PROVE TypeInv'
  <2>1. /\ Account + q \in 0..MaxUnits /\ rolled /\ positions' = positions + q
        /\ outside' = TRUE /\ owner' = owner + 1
        /\ UNCHANGED <<holdings, rolled, market, runs, thread>>
    BY <1>9 DEF OwnerTrades, OwnerActs
  <2>2. disturbed' \subseteq Kinds
    BY <1>9, <1>a, <1>c DEF OwnerTrades, Note, Kinds
  <2>3. TypeOK'
    BY <1>a, <2>1, <2>2 DEF TypeInv, TypeOK, runs, Kinds
  <2>4. AccountBounded'
    BY <1>a, <2>1 DEF TypeInv, AccountBounded, Account
  <2>5. StepsFit'
    BY <2>1 DEF TypeInv, StepsFit, runs
  <2> QED BY <2>3, <2>4, <2>5 DEF TypeInv
<1>10. ASSUME NEW r \in Runs, SetHoldingUnits(r) PROVE TypeInv'
  <2>1. PICK units \in 0..MaxUnits : book' = [book EXCEPT ![r] = units]
    BY <1>10 DEF SetHoldingUnits
  <2>2. /\ thread[r].pc \notin {"filled", "booked"} /\ owner' = owner + 1
        /\ UNCHANGED <<broker, mode, traded, halted, thread, outside>>
    BY <1>10 DEF SetHoldingUnits, OwnerActs, Trading
  <2>3. disturbed' \subseteq Kinds
    BY <1>10, <1>a, <1>c DEF SetHoldingUnits, Note
  <2>4. TypeOK'
    BY <1>a, <2>1, <2>2, <2>3 DEF TypeInv, TypeOK, broker, Kinds
  <2>5. AccountBounded'
    BY <2>2 DEF TypeInv, AccountBounded, Account, broker
  <2>6. StepsFit'
    BY <1>a, <2>1, <2>2 DEF TypeInv, StepsFit
  <2> QED BY <2>4, <2>5, <2>6 DEF TypeInv
<1>11. ASSUME NEW r \in Runs, Acknowledge(r) PROVE TypeInv'
  BY <1>11, <1>a DEF Acknowledge, TypeInv, TypeOK, AccountBounded, Account, StepsFit, broker
<1>12. ASSUME Close \/ OpenMarket \/ UNCHANGED vars PROVE TypeInv'
  <2>1. /\ UNCHANGED <<holdings, positions, rolled, runs, thread, owner, outside, disturbed>>
        /\ market' \in {"open", "closed", "night"}
    BY <1>12 DEF Close, OpenMarket, vars, broker, TypeInv, TypeOK
  <2> QED BY <2>1 DEF TypeInv, TypeOK, AccountBounded, Account, StepsFit, runs
<1>13. ASSUME Night PROVE TypeInv'
  <2>1. holdings' = Account /\ ~rolled' /\ rolled
    BY <1>13 DEF Night, Account
  <2>2. AccountBounded'
    BY <1>a, <2>1 DEF TypeInv, AccountBounded, Account
  <2>3. TypeOK'
    <3>1. holdings' \in Nat
      BY <1>a, <2>1 DEF TypeInv, AccountBounded
    <3>2. traded' \in [Runs -> BOOLEAN]
      BY <1>13 DEF Night
    <3> QED BY <1>13, <3>1, <3>2 DEF Night, TypeInv, TypeOK
  <2>4. StepsFit'
    BY <1>13 DEF Night, TypeInv, StepsFit
  <2> QED BY <2>2, <2>3, <2>4 DEF TypeInv
<1>14. ASSUME Roll PROVE TypeInv'
  <2>1. AccountBounded'
    BY <1>14, <1>a DEF Roll, TypeInv, AccountBounded, Account
  <2>2. TypeOK' /\ StepsFit'
    BY <1>14 DEF Roll, TypeInv, TypeOK, StepsFit, runs
  <2> QED BY <2>1, <2>2 DEF TypeInv
<1> QED BY <1>1, <1>2, <1>3, <1>4, <1>5, <1>6, <1>7, <1>8, <1>9, <1>10, <1>11, <1>12, <1>13, <1>14
       DEF Next, Continue, Calendar

\* Every variable of AccountBook stays in its type; in particular no run's book
\* and no account goes below zero (live/manager.py books units, not debts).
THEOREM TypeCorrect == Spec => []TypeOK
<1>1. TypeInv => TypeOK
  BY DEF TypeInv
<1> QED BY <1>1, InitTypes, NextTypes, PTL DEF Spec

-----------------------------------------------------------------------------
(* The day: who trades, who looks, and where positions come from.          *)

LEMMA InitDay == Init => DayInv
<1> SUFFICES ASSUME Init PROVE DayInv
  OBVIOUS
<1>1. \A r \in Runs : ~Reading(r) /\ ~Trading(r) /\ ~traded[r]
  BY DEF Init, Idle, At, Reading, Trading
<1>2. positions = 0
  BY DEF Init
<1> QED BY <1>1, <1>2, InitTypes DEF DayInv, TradesAreToday, AloneInTrade, PositionsAreTrades, Active

LEMMA RacedNames ==
  ASSUME NEW S
  PROVE  /\ "raced" \in Raced(S) \/ \A s \in S : ~Reading(s)
         /\ "raced" \in RacedBy(S) \/ \A s \in S : ~Trading(s)
BY DEF Raced, RacedBy

\* A run's step that neither begins nor forgets a trade.
LEMMA DayStep ==
  ASSUME DayInv, TypeInv', NEW r \in Runs, \A s \in Runs \ {r} : thread'[s] = thread[s],
         UNCHANGED <<positions, rolled, outside>>, disturbed \subseteq disturbed',
         \A s \in Runs \ {r} : traded'[s] = traded[s],
         Trading(r)' => Trading(r),
         traded[r] \/ Trading(r) => traded'[r] \/ Trading(r)',
         traded'[r] => traded[r] \/ Trading(r),
         Reading(r)' => \/ Reading(r) \/ "raced" \in disturbed'
                        \/ \A s \in Runs \ {r} : ~Trading(s)
  PROVE  DayInv'
<1>1. Active' = Active
  BY DEF Active, Trading
<1>2. TradesAreToday'
  BY <1>1 DEF DayInv, TradesAreToday
<1>3. PositionsAreTrades'
  BY <1>1 DEF DayInv, PositionsAreTrades, Without
<1>4. AloneInTrade'
  <2> SUFFICES ASSUME Without({"raced"})', NEW q \in Runs, NEW s \in Runs, q # s, Reading(q)',
                      Trading(s)'
               PROVE  FALSE
    BY DEF AloneInTrade
  <2>1. Without({"raced"}) /\ "raced" \notin disturbed'
    BY DEF Without
  <2>2. Trading(s)
    BY DEF Trading
  <2>3. Reading(q)
    BY <2>1, <2>2 DEF Reading
  <2> QED BY <2>1, <2>2, <2>3 DEF DayInv, AloneInTrade
<1> QED BY <1>2, <1>3, <1>4 DEF DayInv

LEMMA NextDay == DayInv /\ [Next]_vars => DayInv'
<1> SUFFICES ASSUME DayInv, [Next]_vars PROVE DayInv'
  OBVIOUS
<1>a. TypeInv /\ TypeInv'
  BY NextTypes DEF DayInv
<1>b. thread \in [Runs -> Step] /\ traded \in [Runs -> BOOLEAN] /\ positions \in Int
  BY <1>a DEF TypeInv, TypeOK, Step
<1>1. ASSUME NEW r \in Runs, AdoptReads(r) \/ ReconcileCounts(r) PROVE DayInv'
  <2>1. /\ \A s \in Runs \ {r} : thread'[s] = thread[s]
        /\ ~Trading(r) /\ ~Trading(r)'
        /\ UNCHANGED <<positions, rolled, outside, traded>>
    BY <1>1, <1>b DEF AdoptReads, ReconcileCounts, Goes, broker, runs, Trading, Idle, At
  <2>2. disturbed \subseteq disturbed' /\ RacedBy(Others(r)) \subseteq disturbed'
    BY <1>1 DEF AdoptReads, ReconcileCounts, Note
  <2>3. "raced" \in disturbed' \/ \A s \in Runs \ {r} : ~Trading(s)
    BY <2>2, RacedNames DEF Others
  <2> QED BY <1>a, <2>1, <2>2, <2>3, DayStep
<1>2. ASSUME NEW r \in Runs, AdoptCounts(r) \/ AdoptBooks(r) \/ Compare(r) PROVE DayInv'
  <2>1. /\ \A s \in Runs \ {r} : thread'[s] = thread[s]
        /\ Reading(r) /\ ~Trading(r) /\ ~Trading(r)'
        /\ UNCHANGED <<positions, rolled, outside, traded>> /\ disturbed \subseteq disturbed'
    BY <1>2, <1>b DEF AdoptCounts, AdoptBooks, Compare, Goes, broker, runs, Reading, Trading, Idle, At
  <2> QED BY <1>a, <2>1, DayStep
<1>3. ASSUME NEW r \in Runs, BookTrade(r) PROVE DayInv'
  <2>1. /\ \A s \in Runs \ {r} : thread'[s] = thread[s]
        /\ Trading(r) /\ Trading(r)' /\ ~Reading(r)'
        /\ UNCHANGED <<positions, rolled, outside, traded>> /\ disturbed \subseteq disturbed'
    BY <1>3, <1>b DEF BookTrade, Goes, broker, Reading, Trading, At
  <2> QED BY <1>a, <2>1, DayStep
<1>4. ASSUME NEW r \in Runs, LogTrade(r) PROVE DayInv'
  <2>1. /\ \A s \in Runs \ {r} : thread'[s] = thread[s] /\ traded'[s] = traded[s]
        /\ Trading(r) /\ traded'[r] /\ ~Trading(r)' /\ ~Reading(r)'
        /\ UNCHANGED <<positions, rolled, outside>> /\ disturbed \subseteq disturbed'
    BY <1>4, <1>b DEF LogTrade, Goes, broker, Reading, Trading, Idle, At
  <2> QED BY <1>a, <2>1, DayStep
<1>5. ASSUME NEW r \in Runs, Decide(r) PROVE DayInv'
  <2>1. /\ \A s \in Runs \ {r} : thread'[s] = thread[s]
        /\ Trading(r)' /\ ~Reading(r)' /\ rolled /\ rolled'
    BY <1>5, <1>b DEF Decide, Goes, Trading, Reading, Idle, At
  <2>2. disturbed \subseteq disturbed' /\ Raced(Others(r)) \subseteq disturbed'
    BY <1>5 DEF Decide, Note
  <2>3. "raced" \in disturbed' \/ \A s \in Runs \ {r} : ~Reading(s)
    BY <2>2, RacedNames DEF Others
  <2>4. Active' # {}
    BY <2>1 DEF Active
  <2>5. AloneInTrade'
    <3> SUFFICES ASSUME Without({"raced"})', NEW q \in Runs, NEW s \in Runs, q # s, Reading(q)',
                        Trading(s)'
                 PROVE  FALSE
      BY DEF AloneInTrade
    <3>1. Without({"raced"}) /\ "raced" \notin disturbed'
      BY <2>2 DEF Without
    <3>2. q # r /\ Reading(q)
      BY <2>1 DEF Reading
    <3>3. s # r /\ Trading(s)
      BY <2>3, <3>1, <3>2, <2>1 DEF Trading
    <3> QED BY <3>1, <3>2, <3>3 DEF DayInv, AloneInTrade
  <2> QED BY <1>a, <2>1, <2>4, <2>5 DEF DayInv, TradesAreToday, PositionsAreTrades
<1>6. ASSUME NEW q \in {-1, 1}, OwnerTrades(q) PROVE DayInv'
  <2>1. /\ outside' /\ positions' = positions + q /\ UNCHANGED <<rolled, thread, traded>>
        /\ disturbed \subseteq disturbed' /\ (q < 0 => "sold" \in disturbed')
    BY <1>6 DEF OwnerTrades, Note, runs
  <2>2. Active' = Active /\ AloneInTrade'
    BY <2>1 DEF Active, Trading, Reading, DayInv, AloneInTrade, Without
  <2>3. PositionsAreTrades'
    BY <1>b, <2>1, <2>2 DEF DayInv, PositionsAreTrades, Without
  <2> QED BY <1>a, <2>1, <2>2, <2>3 DEF DayInv, TradesAreToday
<1>7. ASSUME NEW r \in Runs, SetHoldingUnits(r) \/ Acknowledge(r) PROVE DayInv'
  <2>1. UNCHANGED <<positions, rolled, outside, thread, traded>> /\ disturbed \subseteq disturbed'
    BY <1>7 DEF SetHoldingUnits, Acknowledge, Note, broker
  <2> QED BY <1>a, <2>1 DEF DayInv, TradesAreToday, AloneInTrade, PositionsAreTrades, Active,
                           Trading, Reading, Without
<1>8. ASSUME Close \/ OpenMarket \/ UNCHANGED vars PROVE DayInv'
  <2>1. UNCHANGED <<positions, rolled, outside, thread, traded, disturbed>>
    BY <1>8 DEF Close, OpenMarket, vars, broker, runs
  <2> QED BY <1>a, <2>1 DEF DayInv, TradesAreToday, AloneInTrade, PositionsAreTrades, Active,
                           Trading, Reading, Without
<1>9. ASSUME Night PROVE DayInv'
  <2>1. \A r \in Runs : ~Trading(r)' /\ ~Reading(r)' /\ ~traded'[r]
    BY <1>9 DEF Night, Trading, Reading, Idle, At
  <2>2. Active' = {} /\ ~rolled'
    BY <1>9, <2>1 DEF Night, Active
  <2> QED BY <1>a, <2>1, <2>2 DEF DayInv, TradesAreToday, AloneInTrade, PositionsAreTrades
<1>10. ASSUME Roll PROVE DayInv'
  <2>1. positions' = 0 /\ rolled' /\ UNCHANGED <<thread, traded, disturbed>>
    BY <1>10 DEF Roll, runs
  <2> QED BY <1>a, <2>1 DEF DayInv, TradesAreToday, AloneInTrade, PositionsAreTrades, Trading,
                           Reading, Without
<1> QED BY <1>1, <1>2, <1>3, <1>4, <1>5, <1>6, <1>7, <1>8, <1>9, <1>10
       DEF Next, Continue, Calendar

-----------------------------------------------------------------------------
(* Nothing is claimed twice.                                               *)

LEMMA InitClaims == Init => ClaimInv
<1> SUFFICES ASSUME Init PROVE ClaimInv
  OBVIOUS
<1>1. \A r \in Runs : ~Trading(r) /\ thread[r].pc = "idle"
  BY DEF Init, Idle, At, Trading
<1>2. DayInv /\ TypeOK
  BY InitDay DEF DayInv, TypeInv
<1>3. Live = Runs => Flying = 0
  BY <1>1, <1>2, NothingFlies
<1>4. Total(Runs) <= Account
  BY <1>2 DEF Init, Account, TypeOK
<1>5. Total(Runs) \in Nat
  BY <1>2, TotalType
<1> QED BY <1>1, <1>2, <1>3, <1>4, <1>5 DEF ClaimInv, ReadIsThere, Undisturbed

\* While a run looks at the account, nothing is in flight.
LEMMA NoFlightWhileRead ==
  ASSUME DayInv, Live = Runs, Without({"raced"}), NEW r \in Runs, Reading(r)
  PROVE  Flying = 0 /\ \A s \in Runs : ~Trading(s)
<1>1. \A s \in Runs : ~Trading(s)
  BY DEF DayInv, AloneInTrade, Reading, Trading
<1> QED BY <1>1, NothingFlies DEF DayInv, TypeInv

\* Who reads the account sees no more than is there, before and after the
\* session rolls: the day's trades are added where the reader traded itself.
LEMMA ReadsWhatIsThere ==
  ASSUME DayInv, Without({"sold"}), NEW r \in Runs, \A s \in Runs : ~Trading(s),
         traded[r] \/ \A s \in Runs : ~traded[s]
  PROVE  DeliveryBook(FoldsDay({r})) <= Account
<1>1. holdings \in Int /\ positions \in Int
  BY DEF DayInv, TypeInv, TypeOK
<1>2. FoldsDay({r}) <=> traded[r]
  BY DEF FoldsDay
<1>3. CASE traded[r]
  <2>1. rolled
    BY <1>3 DEF DayInv, TradesAreToday, Active
  <2> QED BY <1>1, <1>2, <1>3, <2>1 DEF DeliveryBook, Account
<1>4. CASE ~traded[r]
  <2>1. Active = {}
    BY <1>4 DEF Active
  <2>2. rolled => positions >= 0
    BY <2>1 DEF DayInv, PositionsAreTrades
  <2> QED BY <1>1, <1>2, <1>4, <2>2 DEF DeliveryBook, Account
<1> QED BY <1>3, <1>4

LEMMA NextClaims == ClaimInv /\ [Next]_vars => ClaimInv'
<1> SUFFICES ASSUME ClaimInv, [Next]_vars, Undisturbed'
             PROVE  ReadIsThere' /\ (Total(Runs) + Flying <= Account)'
  BY NextDay DEF ClaimInv
<1>a. DayInv /\ DayInv' /\ TypeInv /\ TypeInv' /\ TypeOK /\ TypeOK'
  BY NextDay DEF ClaimInv, DayInv, TypeInv
<1>b. disturbed \subseteq disturbed' /\ mode' = mode
  BY DEF Next, Continue, Calendar, AdoptReads, AdoptCounts, AdoptBooks, ReconcileCounts, Compare,
         Decide, BookTrade, LogTrade, OwnerTrades, SetHoldingUnits, Acknowledge, Close, Night,
         OpenMarket, Roll, Note, runs, vars
<1>c. Live = Runs /\ Live' = Runs /\ Undisturbed
  BY <1>b DEF Undisturbed, Live, Without
<1>d. ReadIsThere /\ Total(Runs) + Flying <= Account
  BY <1>c DEF ClaimInv
<1>e. /\ thread \in [Runs -> Step] /\ book \in [Runs -> Nat]
      /\ positions \in Int /\ holdings \in Int /\ Account \in Int
  BY <1>a DEF TypeOK, Step, Account
<1>f. Total(Runs) \in Int /\ Flying \in Int
  BY <1>a, <1>c, TotalType, FlyingType
<1>g. /\ Without({"raced"}) /\ Without({"sold"}) /\ "raced" \notin disturbed'
      /\ "sibling" \notin disturbed' /\ "sold" \notin disturbed'
  BY <1>c DEF Undisturbed, Without
<1>1. ASSUME NEW r \in Runs, AdoptReads(r)
      PROVE  ReadIsThere' /\ (Total(Runs) + Flying <= Account)'
  <2>1. /\ thread[r] = Idle /\ thread' = [thread EXCEPT ![r] = At("book", DeliveryBook(FoldsDay({r})))]
        /\ UNCHANGED <<holdings, positions, rolled, book>>
    BY <1>1 DEF AdoptReads, Goes, broker, runs
  <2>2. \A s \in Runs : ~Trading(s)
    <3>1. RacedBy(Others(r)) \subseteq disturbed'
      BY <1>1 DEF AdoptReads, Note
    <3>2. \A s \in Runs \ {r} : ~Trading(s)
      BY <1>g, <3>1, RacedNames DEF Others
    <3> QED BY <2>1, <3>2 DEF Trading, Idle, At
  <2>3. traded[r] \/ \A s \in Runs : ~traded[s]
    BY <1>1, <1>c, <1>g DEF AdoptReads, Note
  <2>4. DeliveryBook(FoldsDay({r})) <= Account
    BY <1>a, <1>g, <2>2, <2>3, ReadsWhatIsThere
  <2>5. Total(Runs)' = Total(Runs) /\ Account' = Account
    BY <2>1 DEF Total, Account
  <2>6. Flying' = 0
    <3>1. \A s \in Runs : ~Trading(s)'
      BY <1>e, <2>1, <2>2 DEF Trading, At
    <3> QED BY <1>c, <3>1, NothingFliesThen
  <2>7. Flying = 0
    BY <1>a, <1>c, <2>2, NothingFlies
  <2>8. ReadIsThere'
    BY <1>d, <1>e, <2>1, <2>4, <2>5 DEF ReadIsThere, At
  <2> QED BY <1>d, <2>5, <2>6, <2>7, <2>8
<1>2. ASSUME NEW r \in Runs, AdoptCounts(r)
      PROVE  ReadIsThere' /\ (Total(Runs) + Flying <= Account)'
  <2> DEFINE share == Min({thread[r].units - Total(Runs), Cap - book[r]})
             step == IF share < 1 THEN Idle ELSE At("adopt", share)
  <2>1. /\ thread[r].pc = "book" /\ thread' = [thread EXCEPT ![r] = step]
        /\ UNCHANGED <<holdings, positions, rolled, book>>
    BY <1>2 DEF AdoptCounts, Goes, broker, runs
  <2>2. share \in Int /\ share <= thread[r].units - Total(Runs) /\ thread[r].units \in Int
    <3>1. thread[r].units \in Int /\ Cap - book[r] \in Int /\ thread[r].units - Total(Runs) \in Int
      BY <1>e, <1>f, AccountAssumption DEF Step
    <3> QED BY <3>1, LesserOfTwo
  <2> HIDE DEF share
  <2>3. Total(Runs) + share <= Account
    BY <1>d, <1>e, <1>f, <2>1, <2>2 DEF ReadIsThere
  <2>4. step.pc \in {"idle", "adopt"} /\ (step.pc = "adopt" => step.units = share)
    BY DEF Idle, At
  <2> HIDE DEF step
  <2>5. Total(Runs)' = Total(Runs) /\ Account' = Account
    BY <2>1 DEF Total, Account
  <2>6. Flying = 0 /\ \A s \in Runs : ~Trading(s)
    BY <1>a, <1>c, <1>g, <2>1, NoFlightWhileRead DEF Reading
  <2>7. Flying' = 0
    <3>1. \A s \in Runs : ~Trading(s)'
      BY <1>e, <2>1, <2>4, <2>6 DEF Trading
    <3> QED BY <1>c, <3>1, NothingFliesThen
  <2>8. ReadIsThere'
    BY <1>d, <1>e, <2>1, <2>3, <2>4, <2>5 DEF ReadIsThere
  <2> QED BY <1>d, <2>5, <2>6, <2>7, <2>8
<1>3. ASSUME NEW r \in Runs, AdoptBooks(r)
      PROVE  ReadIsThere' /\ (Total(Runs) + Flying <= Account)'
  <2>1. /\ thread[r].pc = "adopt" /\ thread' = [thread EXCEPT ![r] = Idle]
        /\ book' = [book EXCEPT ![r] = @ + thread[r].units]
        /\ UNCHANGED <<holdings, positions, rolled>> /\ Raced(Others(r)) \subseteq disturbed'
    BY <1>3 DEF AdoptBooks, Goes, broker
  <2>2. thread[r].units \in Nat
    BY <1>a, <2>1 DEF TypeInv, StepsFit
  <2>3. Total(Runs)' = Total(Runs) + thread[r].units
    <3>1. book' \in [Runs -> Nat]
      BY <1>a DEF TypeOK
    <3>2. book'[r] = book[r] + thread[r].units /\ \A s \in Runs \ {r} : book'[s] = book[s]
      BY <1>e, <2>1
    <3> QED BY <1>a, <2>2, <3>1, <3>2, TotalMoves
  <2>4. Total(Runs)' <= Account /\ Account' = Account
    BY <1>d, <2>1, <2>3 DEF ReadIsThere, Account
  <2>5. \A s \in Runs : ~Reading(s)'
    <3>1. \A s \in Runs \ {r} : ~Reading(s)
      BY <1>g, <2>1, RacedNames DEF Others
    <3> QED BY <1>e, <2>1, <3>1 DEF Reading, Idle, At
  <2>6. Flying' = 0
    <3>1. \A s \in Runs : ~Trading(s)
      BY <1>a, <1>c, <1>g, <2>1, NoFlightWhileRead DEF Reading
    <3>2. \A s \in Runs : ~Trading(s)'
      BY <1>e, <2>1, <3>1 DEF Trading, Idle, At
    <3> QED BY <1>c, <3>2, NothingFliesThen
  <2>7. ReadIsThere'
    BY <2>5 DEF ReadIsThere, Reading
  <2>8. Total(Runs)' \in Int
    BY <1>f, <2>2, <2>3
  <2> QED BY <1>e, <2>4, <2>6, <2>7, <2>8
<1>4. ASSUME NEW r \in Runs, ReconcileCounts(r) \/ Compare(r)
      PROVE  ReadIsThere' /\ (Total(Runs) + Flying <= Account)'
  <2>1. /\ UNCHANGED <<holdings, positions, rolled, book>>
        /\ \A s \in Runs \ {r} : thread'[s] = thread[s]
        /\ thread[r].pc \in {"idle", "counted"} /\ thread'[r].pc \in {"idle", "counted"}
    BY <1>4, <1>e DEF ReconcileCounts, Compare, Goes, broker, runs, Idle, At
  <2>2. Total(Runs)' = Total(Runs) /\ Account' = Account
    BY <2>1 DEF Total, Account
  <2>3. Flying' = Flying - Fills[r] + Fills[r]'
    BY <1>a, <1>c, <2>1, FlyingMoves
  <2>4. Fills[r] = 0 /\ Fills[r]' = 0
    BY <2>1 DEF Fills
  <2>5. ReadIsThere'
    BY <1>d, <2>1, <2>2 DEF ReadIsThere
  <2> QED BY <1>d, <1>f, <2>2, <2>3, <2>4, <2>5
<1>5. ASSUME NEW r \in Runs, Decide(r)
      PROVE  ReadIsThere' /\ (Total(Runs) + Flying <= Account)'
  <2>1. mode[r] = "live"
    BY <1>c DEF Live
  <2>2. PICK q \in {-1, 1} : /\ thread' = [thread EXCEPT ![r] = At("filled", q)]
                             /\ positions' = positions + q
    BY <1>5, <2>1 DEF Decide, Goes
  <2>3. /\ rolled /\ thread[r] = Idle /\ UNCHANGED <<holdings, rolled, book>>
        /\ Raced(Others(r)) \subseteq disturbed'
    BY <1>5 DEF Decide, Note, runs
  <2>4. Total(Runs)' = Total(Runs) /\ Account' = Account + q
    BY <1>e, <2>2, <2>3 DEF Total, Account
  <2>5. \A s \in Runs \ {r} : thread'[s] = thread[s]
    BY <1>e, <2>2
  <2>6. Flying' = Flying - Fills[r] + Fills[r]'
    BY <1>a, <1>c, <2>5, FlyingMoves
  <2>7. Fills[r] = 0 /\ Fills[r]' = q
    BY <1>e, <2>2, <2>3 DEF Fills, Idle, At
  <2>8. \A s \in Runs : ~Reading(s)'
    <3>1. \A s \in Runs \ {r} : ~Reading(s)
      BY <1>g, <2>3, RacedNames DEF Others
    <3> QED BY <1>e, <2>2, <3>1 DEF Reading, At
  <2>9. ReadIsThere'
    BY <2>8 DEF ReadIsThere, Reading
  <2> QED BY <1>d, <1>e, <1>f, <2>4, <2>6, <2>7, <2>9
<1>6. ASSUME NEW r \in Runs, BookTrade(r)
      PROVE  ReadIsThere' /\ (Total(Runs) + Flying <= Account)'
  <2>1. /\ thread[r].pc = "filled" /\ thread' = [thread EXCEPT ![r] = At("booked", 0)]
        /\ book' = [book EXCEPT ![r] = @ + thread[r].units]
        /\ UNCHANGED <<holdings, positions, rolled>> /\ Raced(Others(r)) \subseteq disturbed'
    BY <1>6 DEF BookTrade, Goes, broker
  <2>2. thread[r].units \in Int
    BY <1>e DEF Step
  <2>3. Total(Runs)' = Total(Runs) + thread[r].units /\ Account' = Account
    <3>1. book' \in [Runs -> Nat]
      BY <1>a DEF TypeOK
    <3>2. book'[r] = book[r] + thread[r].units /\ \A s \in Runs \ {r} : book'[s] = book[s]
      BY <1>e, <2>1
    <3>3. Total(Runs)' = Total(Runs) + thread[r].units
      BY <1>a, <2>2, <3>1, <3>2, TotalMoves
    <3> QED BY <2>1, <3>3 DEF Account
  <2>4. Flying' = Flying - Fills[r] + Fills[r]'
    <3>1. \A s \in Runs \ {r} : thread'[s] = thread[s]
      BY <1>e, <2>1
    <3> QED BY <1>a, <1>c, <3>1, FlyingMoves
  <2>5. Fills[r] = thread[r].units /\ Fills[r]' = 0
    BY <1>e, <2>1 DEF Fills, At
  <2>6. \A s \in Runs : ~Reading(s)'
    <3>1. \A s \in Runs \ {r} : ~Reading(s)
      BY <1>g, <2>1, RacedNames DEF Others
    <3> QED BY <1>e, <2>1, <3>1 DEF Reading, At
  <2>7. ReadIsThere'
    BY <2>6 DEF ReadIsThere, Reading
  <2> QED BY <1>d, <1>e, <1>f, <2>2, <2>3, <2>4, <2>5, <2>7
<1>7. ASSUME NEW r \in Runs, LogTrade(r)
      PROVE  ReadIsThere' /\ (Total(Runs) + Flying <= Account)'
  <2>1. /\ thread[r].pc = "booked" /\ thread' = [thread EXCEPT ![r] = Idle]
        /\ UNCHANGED <<holdings, positions, rolled, book>>
    BY <1>7 DEF LogTrade, Goes, broker
  <2>2. Total(Runs)' = Total(Runs) /\ Account' = Account
    BY <2>1 DEF Total, Account
  <2>3. Flying' = Flying - Fills[r] + Fills[r]'
    <3>1. \A s \in Runs \ {r} : thread'[s] = thread[s]
      BY <1>e, <2>1
    <3> QED BY <1>a, <1>c, <3>1, FlyingMoves
  <2>4. Fills[r] = 0 /\ Fills[r]' = 0
    BY <1>e, <2>1 DEF Fills, Idle, At
  <2>5. ReadIsThere'
    BY <1>d, <1>e, <2>1, <2>2 DEF ReadIsThere, Idle, At
  <2> QED BY <1>d, <1>f, <2>2, <2>3, <2>4, <2>5
<1>8. ASSUME NEW q \in {-1, 1}, OwnerTrades(q)
      PROVE  ReadIsThere' /\ (Total(Runs) + Flying <= Account)'
  <2>1. /\ rolled /\ positions' = positions + q /\ UNCHANGED <<holdings, rolled, book, thread>>
        /\ Raced(Runs) \subseteq disturbed' /\ (q < 0 => "sold" \in disturbed')
    BY <1>8 DEF OwnerTrades, Note, runs
  <2>2. q = 1
    BY <1>g, <2>1
  <2>3. Total(Runs)' = Total(Runs) /\ Account' = Account + 1 /\ Flying' = Flying
    BY <1>c, <1>e, <2>1, <2>2 DEF Total, Account, Flying, Fills
  <2>4. \A s \in Runs : ~Reading(s)'
    BY <1>g, <2>1, RacedNames DEF Reading
  <2>5. ReadIsThere'
    BY <2>4 DEF ReadIsThere, Reading
  <2> QED BY <1>d, <1>e, <1>f, <2>3, <2>5
<1>9. ASSUME NEW r \in Runs, SetHoldingUnits(r)
      PROVE  ReadIsThere' /\ (Total(Runs) + Flying <= Account)'
  <2> DEFINE units == book[r] + Account - Total(Runs)
  <2>1. /\ ~Trading(r) /\ book' = [book EXCEPT ![r] = units]
        /\ UNCHANGED <<holdings, positions, rolled, thread>>
        /\ Raced(Runs) \subseteq disturbed' /\ RacedBy(Runs) \subseteq disturbed'
    BY <1>9 DEF SetHoldingUnits, Note, broker
  <2>2. Total(Runs)' = Total(Runs) + (Account - Total(Runs))
    <3>1. book' \in [Runs -> Nat]
      BY <1>a DEF TypeOK
    <3>2. book'[r] = book[r] + (Account - Total(Runs)) /\ \A s \in Runs \ {r} : book'[s] = book[s]
      BY <1>e, <1>f, <2>1
    <3> QED BY <1>a, <1>e, <1>f, <3>1, <3>2, TotalMoves
  <2>3. Account' = Account
    BY <2>1 DEF Account
  <2>4. \A s \in Runs : ~Reading(s)' /\ ~Trading(s)'
    BY <1>g, <2>1, RacedNames DEF Reading, Trading
  <2>5. Flying' = 0
    BY <1>c, <2>4, NothingFliesThen
  <2>6. ReadIsThere'
    BY <2>4 DEF ReadIsThere, Reading
  <2> QED BY <1>e, <1>f, <2>2, <2>3, <2>5, <2>6
<1>10. ASSUME (\E r \in Runs : Acknowledge(r)) \/ Close \/ OpenMarket \/ UNCHANGED vars
       PROVE  ReadIsThere' /\ (Total(Runs) + Flying <= Account)'
  <2>1. UNCHANGED <<holdings, positions, rolled, thread, book>>
    BY <1>10 DEF Acknowledge, Close, OpenMarket, vars, broker, runs
  <2>2. Total(Runs)' = Total(Runs) /\ Account' = Account /\ Flying' = Flying
    BY <1>c, <2>1 DEF Total, Account, Flying, Fills
  <2> QED BY <1>d, <2>1, <2>2 DEF ReadIsThere
<1>11. ASSUME Night \/ Roll
       PROVE  ReadIsThere' /\ (Total(Runs) + Flying <= Account)'
  <2>1. UNCHANGED <<thread, book>>
    BY <1>11 DEF Night, Roll, runs
  <2>2. Account' = Account
    BY <1>11, <1>e DEF Night, Roll, Account
  <2>3. Total(Runs)' = Total(Runs) /\ Flying' = Flying
    BY <1>c, <2>1 DEF Total, Flying, Fills
  <2> QED BY <1>d, <2>1, <2>2, <2>3 DEF ReadIsThere
<1> QED BY <1>1, <1>2, <1>3, <1>4, <1>5, <1>6, <1>7, <1>8, <1>9, <1>10, <1>11
       DEF Next, Continue, Calendar

\* However many runs adopt, decide and reconcile over however many days, they
\* never claim more than the account holds (_maybe_adopt_fund_holding), but for
\* overlapping ticks, a sibling's or the owner's sale, and paper runs.
THEOREM NothingPhantom == Spec => []NoPhantomUnits
<1>1. ClaimInv => NoPhantomUnits
  BY DEF ClaimInv, Undisturbed, NoPhantomUnits
<1> QED BY <1>1, InitClaims, NextClaims, PTL DEF Spec

-----------------------------------------------------------------------------
(* A halt means that the books differ.                                     *)

\* A run that compares what it has counted sees the account as it is, unless
\* the owner has traded by hand: no difference is the product of the lag.
LEMMA DifferenceIsReal ==
  ASSUME DayInv, Live = Runs, Without({"raced"}), CountHolds, NEW r \in Runs,
         thread[r].pc = "counted", Agree, ~outside
  PROVE  DeliveryBook(thread[r].fold) - thread[r].units = 0
<1>1. holdings \in Int /\ positions \in Int /\ Total(Runs) \in Int
  BY TotalType DEF DayInv, TypeInv, TypeOK
<1>2. Flying = 0 /\ \A s \in Runs : ~Trading(s)
  BY NoFlightWhileRead DEF Reading
<1>3. Total(Runs) = Account
  BY <1>1, <1>2 DEF Agree
<1>4. thread[r].units = Total(Runs) /\ thread[r].fold = FoldsDay(Runs)
  BY DEF CountHolds
<1>5. CASE FoldsDay(Runs)
  <2>1. rolled
    BY <1>5 DEF FoldsDay, DayInv, TradesAreToday, Active
  <2> QED BY <1>1, <1>3, <1>4, <1>5, <2>1 DEF DeliveryBook, Account
<1>6. CASE ~FoldsDay(Runs)
  <2>1. Active = {}
    BY <1>2, <1>6 DEF FoldsDay, Active
  <2>2. rolled => positions = 0
    BY <2>1 DEF DayInv, PositionsAreTrades
  <2> QED BY <1>1, <1>3, <1>4, <1>6, <2>2 DEF DeliveryBook, Account
<1> QED BY <1>5, <1>6

LEMMA InitHalts == Init => HaltInv
<1> SUFFICES ASSUME Init PROVE HaltInv
  OBVIOUS
<1>1. CountHolds
  BY DEF Init, CountHolds, Idle, At
<1>2. \A r \in Runs : halted[r] # "false"
  BY DEF Init
<1> QED BY <1>1, <1>2, InitDay DEF HaltInv

LEMMA NextHalts == HaltInv /\ [Next]_vars => HaltInv'
<1> DEFINE NoFalseHalt == Without({"unseen"}) => \A r \in Runs : halted[r] # "false"
<1> SUFFICES ASSUME HaltInv, [Next]_vars, Live' = Runs, Without({"raced"})'
             PROVE  CountHolds' /\ NoFalseHalt'
  BY NextDay DEF HaltInv
<1>a. DayInv /\ TypeOK
  BY DEF HaltInv, DayInv, TypeInv
<1>b. disturbed \subseteq disturbed' /\ mode' = mode
  BY DEF Next, Continue, Calendar, AdoptReads, AdoptCounts, AdoptBooks, ReconcileCounts, Compare,
         Decide, BookTrade, LogTrade, OwnerTrades, SetHoldingUnits, Acknowledge, Close, Night,
         OpenMarket, Roll, Note, runs, vars
<1>c. Live = Runs /\ Without({"raced"}) /\ "raced" \notin disturbed'
  BY <1>b DEF Live, Without
<1>d. CountHolds /\ NoFalseHalt
  BY <1>c DEF HaltInv
<1>e. NoFalseHalt /\ (halted' = halted => NoFalseHalt')
  BY <1>b, <1>d DEF Without
<1>f. thread \in [Runs -> Step] /\ halted \in [Runs -> {"no", "real", "false"}]
  BY <1>a DEF TypeOK, Step
<1> HIDE DEF NoFalseHalt
<1>1. ASSUME NEW r \in Runs, AdoptReads(r) \/ AdoptCounts(r) PROVE CountHolds' /\ NoFalseHalt'
  <2>1. /\ UNCHANGED <<book, traded, halted>> /\ thread'[r].pc # "counted"
        /\ \A s \in Runs \ {r} : thread'[s] = thread[s]
    BY <1>1, <1>f DEF AdoptReads, AdoptCounts, Goes, runs, Idle, At
  <2> QED BY <1>d, <1>e, <2>1 DEF CountHolds, Total, FoldsDay
<1>2. ASSUME NEW r \in Runs, ReconcileCounts(r) PROVE CountHolds' /\ NoFalseHalt'
  <2>1. /\ UNCHANGED <<book, traded, halted>>
        /\ thread' = [thread EXCEPT ![r] = [pc |-> "counted", units |-> Total(Live), fold |-> FoldsDay(Live)]]
    BY <1>2 DEF ReconcileCounts, Goes, runs
  <2>2. thread'[r].units = Total(Runs) /\ thread'[r].fold = FoldsDay(Runs)
    BY <1>c, <1>f, <2>1
  <2>3. \A s \in Runs \ {r} : thread'[s] = thread[s]
    BY <1>f, <2>1
  <2> QED BY <1>d, <1>e, <2>1, <2>2, <2>3 DEF CountHolds, Total, FoldsDay
<1>3. ASSUME NEW r \in Runs, Compare(r) PROVE CountHolds' /\ NoFalseHalt'
  <2> DEFINE difference == DeliveryBook(thread[r].fold) - thread[r].units
  <2>1. /\ thread[r].pc = "counted" /\ thread' = [thread EXCEPT ![r] = Idle]
        /\ UNCHANGED <<book, traded>>
        /\ difference # 0 /\ outside => "unseen" \in disturbed'
        /\ halted' = IF difference = 0 \/ halted[r] # "no" THEN halted
                     ELSE [halted EXCEPT ![r] = IF Agree THEN "false" ELSE "real"]
    BY <1>3 DEF Compare, Goes
  <2>2. Agree /\ ~outside => difference = 0
    BY <1>a, <1>c, <1>d, <2>1, DifferenceIsReal
  <2> HIDE DEF difference
  <2>3. CountHolds'
    BY <1>d, <1>f, <2>1 DEF CountHolds, Total, FoldsDay, Idle, At
  <2>4. CASE halted' = halted
    BY <1>e, <2>3, <2>4
  <2>5. CASE difference # 0 /\ Without({"unseen"})'
    <3>1. halted' = halted \/ halted' = [halted EXCEPT ![r] = "real"]
      BY <2>1, <2>2, <2>5 DEF Without
    <3>2. \A s \in Runs : halted[s] # "false"
      BY <1>b, <1>e, <2>5 DEF NoFalseHalt, Without
    <3> QED BY <1>f, <2>3, <3>1, <3>2 DEF NoFalseHalt
  <2>6. CASE ~Without({"unseen"})'
    BY <2>3, <2>6 DEF NoFalseHalt
  <2> QED BY <2>1, <2>4, <2>5, <2>6
<1>4. ASSUME NEW r \in Runs, AdoptBooks(r) \/ Decide(r) \/ BookTrade(r) \/ LogTrade(r)
      PROVE  CountHolds' /\ NoFalseHalt'
  <2>1. /\ Raced(Others(r)) \subseteq disturbed' /\ halted' = halted /\ thread'[r].pc # "counted"
        /\ \A s \in Runs \ {r} : thread'[s] = thread[s]
    BY <1>4, <1>f DEF AdoptBooks, Decide, BookTrade, LogTrade, Note, Goes, runs, Idle, At
  <2>2. \A s \in Runs \ {r} : ~Reading(s)
    BY <1>c, <2>1, RacedNames DEF Others
  <2> QED BY <1>e, <2>1, <2>2 DEF CountHolds, Reading
<1>5. ASSUME NEW r \in Runs, SetHoldingUnits(r) PROVE CountHolds' /\ NoFalseHalt'
  <2>1. Raced(Runs) \subseteq disturbed' /\ UNCHANGED <<halted, thread>>
    BY <1>5 DEF SetHoldingUnits, Note
  <2>2. \A s \in Runs : ~Reading(s)
    BY <1>c, <2>1, RacedNames
  <2> QED BY <1>e, <2>1, <2>2 DEF CountHolds, Reading
<1>6. ASSUME NEW r \in Runs, Acknowledge(r) PROVE CountHolds' /\ NoFalseHalt'
  <2>1. halted' = [halted EXCEPT ![r] = "no"] /\ UNCHANGED <<book, traded, thread, disturbed>>
    BY <1>6 DEF Acknowledge
  <2>2. NoFalseHalt'
    BY <1>e, <1>f, <2>1 DEF NoFalseHalt, Without
  <2> QED BY <1>d, <2>1, <2>2 DEF CountHolds, Total, FoldsDay
<1>7. ASSUME (\E q \in {-1, 1} : OwnerTrades(q)) \/ Close \/ OpenMarket \/ Roll \/ UNCHANGED vars
      PROVE  CountHolds' /\ NoFalseHalt'
  <2>1. UNCHANGED <<book, traded, thread, halted>>
    BY <1>7 DEF OwnerTrades, Close, OpenMarket, Roll, vars, runs
  <2> QED BY <1>d, <1>e, <2>1 DEF CountHolds, Total, FoldsDay
<1>8. ASSUME Night PROVE CountHolds' /\ NoFalseHalt'
  BY <1>8, <1>e DEF Night, CountHolds, Idle, At
<1> QED BY <1>1, <1>2, <1>3, <1>4, <1>5, <1>6, <1>7, <1>8 DEF Next, Continue, Calendar

\* No halt is the product of the T+1 arithmetic (reconcile_account_book): for
\* any number of runs and units, on the day of a trade, on the next day, before
\* and after the session rolls, a run halts only when books and account differ,
\* but for overlapping ticks, trades by hand and paper runs.
THEOREM HaltsReal == Spec => []HaltsAreReal
<1>1. HaltInv => HaltsAreReal
  BY DEF HaltInv, HaltsAreReal, Without
<1> QED BY <1>1, InitHalts, NextHalts, PTL DEF Spec
=============================================================================
