---------------------------- MODULE RunGateProofs ----------------------------
(***************************************************************************)
(* The safety of RunGate for every bound: the types, the gate, the stock   *)
(* of the account, the saved book and the once-a-day decision.             *)
(***************************************************************************)
EXTENDS RunGate, TLAPS

USE DEF world, outside, swapState, haltVars, bookVars, bookSeen, tickState, swapSeen

\* What a write of AlgoRun.state leaves behind, written or lost.
LEMMA PersistType ==
  ASSUME TypeOK, PersistState
  PROVE  /\ saved' \in [book : 0..1, decisionDay : 0..MaxDays]
         /\ faults' \in 0..MaxFaults
         /\ stale' \in BOOLEAN /\ disturbed' \in BOOLEAN
<1>1. CASE saved' = State /\ stale' = FALSE /\ UNCHANGED <<faults, disturbed>>
  BY <1>1 DEF State, TypeOK
<1>2. CASE /\ faults < MaxFaults /\ faults' = faults + 1
           /\ stale' = TRUE /\ disturbed' = TRUE /\ UNCHANGED saved
  <2>1. faults' \in 0..MaxFaults
    BY <1>2, GateAssumption DEF TypeOK
  <2> QED BY <1>2, <2>1 DEF TypeOK
<1> QED BY <1>1, <1>2 DEF PersistState

\* The read path after a swap of the quote source.
LEMMA SourceType ==
  ASSUME TypeOK, NEW w \in Swappers, SwapSource(w)
  PROVE  /\ readAdapter' \in Adapters /\ swap' \in [Swappers -> SwapPcs]
         /\ bound' \in BOOLEAN /\ quoteError' \in BOOLEAN
<1>1. readAdapter' \in Adapters
  BY DEF SwapSource, NewAdapter, Adapters, TypeOK
<1>2. swap' \in [Swappers -> SwapPcs]
  BY DEF SwapSource, GoOn, SwapPcs, TypeOK
<1> QED BY <1>1, <1>2 DEF SwapSource

\* Every variable keeps its type, whatever the bounds.
THEOREM Types == Spec => []TypeOK
<1>1. Init => TypeOK
  <2> SUFFICES ASSUME Init PROVE TypeOK
    OBVIOUS
  <2>1. orderAdapter \in Adapters /\ readAdapter \in Adapters
    BY DEF Init, NewAdapter, Adapters
  <2>2. swap \in [Swappers -> SwapPcs]
    BY DEF Init, NoSwap, SwapPcs
  <2>3. tickDriven \in BOOLEAN
    BY GateAssumption DEF Init
  <2>4. /\ saved \in [book : 0..1, decisionDay : 0..MaxDays]
        /\ session \in [token : Nat, valid : BOOLEAN]
    BY GateAssumption DEF Init
  <2>5. account \in -MaxUnits..MaxUnits /\ day \in 1..MaxDays /\ decisionDay \in 0..MaxDays
    BY GateAssumption DEF Init
  <2>6. /\ ownerActs \in 0..MaxOwnerActs /\ crashes \in 0..MaxCrashes
        /\ faults \in 0..MaxFaults /\ book \in 0..1 /\ decisions \in 0..2
    BY GateAssumption DEF Init
  <2>7. /\ armed \in BOOLEAN /\ up \in BOOLEAN /\ bound \in BOOLEAN
        /\ resumePending \in BOOLEAN /\ reconcilePending \in BOOLEAN
        /\ backoff \in BOOLEAN /\ quoteError \in BOOLEAN
        /\ strategyError \in BOOLEAN /\ mismatch \in BOOLEAN
    BY DEF Init
  <2>8. /\ sweeping \in BOOLEAN /\ byHand \in BOOLEAN /\ verified \in BOOLEAN
        /\ fresh \in BOOLEAN /\ raced \in BOOLEAN /\ excused \in BOOLEAN /\ disturbed \in BOOLEAN
        /\ stale \in BOOLEAN
    BY DEF Init
  <2>9. /\ phase \in {"pre", "open", "post"} /\ broker \in {"paper", "live"}
        /\ orderError \in {"none", "order", "mismatch"} /\ pc \in TickPcs
    BY DEF Init, TickPcs
  <2> QED
    BY <2>1, <2>2, <2>3, <2>4, <2>5, <2>6, <2>7, <2>8, <2>9 DEF TypeOK
<1>2. TypeOK /\ [Next]_vars => TypeOK'
  <2> SUFFICES ASSUME TypeOK, [Next]_vars PROVE TypeOK'
    OBVIOUS
  <2> USE GateAssumption DEF TypeOK, Adapters, TickPcs, SwapPcs, Swappers
  <2>1. CASE StartTick
    <3>1. quoteError' \in BOOLEAN /\ raced' \in BOOLEAN
      BY <2>1 DEF StartTick
    <3> QED BY <2>1, <3>1 DEF StartTick
  <2>2. CASE Conclude
    <3>1. verified' \in BOOLEAN
      BY <2>2 DEF Conclude
    <3>2. raced' \in BOOLEAN
      BY <2>2 DEF Conclude
    <3>3. orderError' \in {"none", "order", "mismatch"}
      BY <2>2 DEF Conclude
    <3>4. /\ pc' \in TickPcs /\ reconcilePending' \in BOOLEAN /\ backoff' \in BOOLEAN
          /\ mismatch' \in BOOLEAN /\ fresh' \in BOOLEAN
      BY <2>2 DEF Conclude
    <3>5. UNCHANGED <<outside, swapState, quoteError, strategyError, bookVars, bookSeen>>
      BY <2>2 DEF Conclude
    <3> QED BY <3>1, <3>2, <3>3, <3>4, <3>5
  <2>3. ASSUME NEW w \in Swappers, Rebind(w) PROVE TypeOK'
    <3>1. raced' \in BOOLEAN
      BY <2>3 DEF Rebind
    <3>2. verified' \in BOOLEAN /\ fresh' \in BOOLEAN /\ bound' \in BOOLEAN
      BY <2>3 DEF Rebind
    <3>3. swap' \in [Swappers -> SwapPcs]
      BY <2>3 DEF Rebind, Rebound, GoOn
    <3>4. broker' \in {"paper", "live"} /\ orderAdapter' \in Adapters
      BY <2>3 DEF Rebind
    <3> QED BY <2>3, <3>1, <3>2, <3>3, <3>4 DEF Rebind
  <2>4. CASE Recover
    <3>1. readAdapter' \in Adapters
      BY <2>4 DEF Recover, NewAdapter, NoAdapter
    <3>2. orderAdapter' \in Adapters
      BY <2>4, <3>1 DEF Recover, NoAdapter
    <3>3. bound' \in BOOLEAN /\ reconcilePending' \in BOOLEAN /\ resumePending' \in BOOLEAN
      BY <2>4 DEF Recover
    <3> QED BY <2>4, <3>1, <3>2, <3>3 DEF Recover
  <2>5. CASE SkipReconcile
    BY <2>5 DEF SkipReconcile
  <2>6. CASE ReadBook
    BY <2>6 DEF ReadBook, Differs
  <2>7. CASE ReadBookFails
    BY <2>7 DEF ReadBookFails
  <2>8. CASE WriteRaises
    <3>1. faults' \in 0..MaxFaults
      BY <2>8 DEF WriteRaises
    <3>2. /\ stale' \in BOOLEAN /\ disturbed' \in BOOLEAN /\ byHand' \in BOOLEAN
          /\ pc' \in TickPcs
      BY <2>8 DEF WriteRaises
    <3>3. UNCHANGED <<world, swapState, quoteError, reconcilePending, backoff, haltVars,
                      account, book, decisionDay, saved, excused, decisions, mismatch,
                      swapSeen>>
      BY <2>8 DEF WriteRaises
    <3> QED BY <3>1, <3>2, <3>3
  <2>9. CASE SaveRefresh
    <3>1. PersistState /\ pc' \in TickPcs
      BY <2>9 DEF SaveRefresh
    <3> QED BY <2>9, <3>1, PersistType DEF SaveRefresh
  <2>10. CASE Decide
    BY <2>10 DEF Decide
  <2>11. CASE NoDecision
    BY <2>11 DEF NoDecision, RollOrIdle
  <2>12. CASE NoOrder
    <3>1. strategyError' \in BOOLEAN /\ pc' \in TickPcs
      BY <2>12 DEF NoOrder
    <3>2. faults' \in 0..MaxFaults
      BY <2>12 DEF NoOrder
    <3> QED BY <2>12, <3>1, <3>2 DEF NoOrder
  <2>13. CASE PaperFill
    BY <2>13 DEF PaperFill, Traded
  <2>14. CASE RealFill
    BY <2>14 DEF RealFill, CanTrade, Traded
  <2>15. CASE RealFails
    BY <2>15 DEF RealFails, CanTrade, Traded
  <2>16. CASE Persist
    <3>1. /\ PersistState /\ pc' \in {"idle", "endDay"} /\ byHand' = FALSE
          /\ decisions' = decisions \/ (decisions # 2 /\ decisions' = decisions + 1)
      BY <2>16 DEF Persist
    <3>2. decisions' \in 0..2
      BY <3>1
    <3>3. UNCHANGED <<world, swapState, quoteError, reconcilePending, backoff, haltVars,
                      account, book, decisionDay, excused, mismatch, swapSeen>>
      BY <2>16 DEF Persist
    <3>4. /\ saved' \in [book : 0..1, decisionDay : 0..MaxDays]
          /\ faults' \in 0..MaxFaults /\ stale' \in BOOLEAN /\ disturbed' \in BOOLEAN
      BY <3>1, PersistType
    <3>5. byHand' \in BOOLEAN /\ pc' \in TickPcs
      BY <3>1
    <3> QED BY <3>2, <3>3, <3>4, <3>5
  <2>17. CASE EndDay
    <3>1. PersistState /\ pc' \in TickPcs
      BY <2>17 DEF EndDay
    <3> QED BY <2>17, <3>1, PersistType DEF EndDay
  <2>18. CASE MarkDay
    BY <2>18 DEF MarkDay
  <2>19. CASE Promote
    <3>1. /\ readAdapter' \in Adapters /\ swap' \in [Swappers -> SwapPcs]
          /\ bound' \in BOOLEAN /\ quoteError' \in BOOLEAN
      BY <2>19, SourceType DEF Promote, GoOn
    <3>2. sweeping' \in BOOLEAN
      BY <2>19 DEF Promote
    <3> QED BY <2>19, <3>1, <3>2 DEF Promote
  <2>20. CASE Retry
    <3>1. /\ readAdapter' \in Adapters /\ swap' \in [Swappers -> SwapPcs]
          /\ bound' \in BOOLEAN /\ quoteError' \in BOOLEAN
      BY <2>20, SourceType DEF Retry, GoOn
    <3>2. sweeping' \in BOOLEAN
      BY <2>20 DEF Retry
    <3> QED BY <2>20, <3>1, <3>2 DEF Retry
  <2>21. CASE Sweep
    BY <2>21 DEF Sweep, GoOn
  <2>22. CASE Remint
    <3>1. /\ readAdapter' \in Adapters /\ swap' \in [Swappers -> SwapPcs]
          /\ bound' \in BOOLEAN /\ quoteError' \in BOOLEAN
      BY <2>22, SourceType DEF Remint, GoOn
    <3>2. sweeping' \in BOOLEAN
      BY <2>22 DEF Remint
    <3> QED BY <2>22, <3>1, <3>2 DEF Remint
  <2>23. CASE Crash
    <3>1. /\ up' \in BOOLEAN /\ disturbed' \in BOOLEAN /\ bound' \in BOOLEAN
          /\ resumePending' \in BOOLEAN /\ sweeping' \in BOOLEAN
          /\ reconcilePending' \in BOOLEAN /\ backoff' \in BOOLEAN
          /\ quoteError' \in BOOLEAN /\ strategyError' \in BOOLEAN
          /\ mismatch' \in BOOLEAN /\ verified' \in BOOLEAN
          /\ fresh' \in BOOLEAN /\ raced' \in BOOLEAN /\ byHand' \in BOOLEAN
      BY <2>23 DEF Crash
    <3>2. swap' \in [Swappers -> SwapPcs]
      BY <2>23 DEF Crash, NoSwap
    <3>3. orderAdapter' \in Adapters /\ readAdapter' \in Adapters
      BY <2>23 DEF Crash, NoAdapter
    <3>4. /\ broker' \in {"paper", "live"} /\ orderError' \in {"none", "order", "mismatch"}
          /\ book' \in 0..1 /\ decisionDay' \in 0..MaxDays /\ pc' \in TickPcs
          /\ crashes' \in 0..MaxCrashes
      BY <2>23 DEF Crash
    <3>5. UNCHANGED <<session, armed, phase, day, tickDriven, ownerActs, account, saved,
                      faults, excused, decisions, stale>>
      BY <2>23 DEF Crash
    <3> QED BY <3>1, <3>2, <3>3, <3>4, <3>5
  <2>24. CASE OpenMarket
    BY <2>24 DEF OpenMarket, inside
  <2>25. CASE CloseMarket
    BY <2>25 DEF CloseMarket, inside
  <2>26. CASE NewDay
    <3>1. session' \in [token : Nat, valid : BOOLEAN] /\ disturbed' \in BOOLEAN
      BY <2>26 DEF NewDay
    <3>2. day' \in 1..MaxDays /\ decisions' \in 0..2 /\ phase' \in {"pre", "open", "post"}
      BY <2>26 DEF NewDay
    <3> QED BY <2>26, <3>1, <3>2 DEF NewDay
  <2>27. CASE Login
    BY <2>27 DEF Login, GoOn
  <2>28. CASE SetArmed
    BY <2>28 DEF SetArmed, inside
  <2>29. CASE AckOrderError
    BY <2>29 DEF AckOrderError
  <2>30. CASE AckStrategyError
    <3>1. strategyError' \in BOOLEAN
      BY <2>30 DEF AckStrategyError
    <3> QED BY <2>30, <3>1 DEF AckStrategyError
  <2>31. ASSUME NEW w \in Swappers, Pend(w) PROVE TypeOK'
    <3>1. resumePending' \in BOOLEAN /\ reconcilePending' \in BOOLEAN
      BY <2>31 DEF Pend
    <3>2. swap' \in [Swappers -> SwapPcs]
      BY <2>31 DEF Pend, Rebound, GoOn
    <3> QED BY <2>31, <3>1, <3>2 DEF Pend
  <2>32. ASSUME NEW u \in {-1, 1}, OwnerTrades(u) PROVE TypeOK'
    BY <2>32 DEF OwnerTrades
  <2>34. CASE DecideByHand
    BY <2>34 DEF DecideByHand
  <2>33. CASE UNCHANGED vars
    BY <2>33 DEF vars
  <2> QED
    BY <2>1, <2>2, <2>3, <2>4, <2>5, <2>6, <2>7, <2>8, <2>9, <2>10, <2>11,
       <2>12, <2>13, <2>14, <2>15, <2>16, <2>17, <2>18, <2>19, <2>20, <2>21, <2>22,
       <2>23, <2>24, <2>25, <2>26, <2>27, <2>28, <2>29, <2>30, <2>31, <2>32, <2>33, <2>34
    DEF Next, TickStep, Swaps, SwapStep, Owner
<1>3. QED BY <1>1, <1>2, PTL DEF Spec
-----------------------------------------------------------------------------
\* A process that is down has neither a tick nor a swap nor a live broker.
DownIdle == ~up => pc = "idle" /\ swap = NoSwap /\ broker = "paper" /\ ~verified

\* Between a swap of the order path and its comparison the run is pending, or
\* about to be with no tick under way, or the swap overlapped a tick.
PendingUnlessRaced ==
  broker = "live" /\ ~verified /\ ~raced =>
    \/ reconcilePending
    \/ pc = "idle" /\ (swap["thread"] = "pend" \/ swap["loop"] = "pend")

\* The comparison under way began after the last swap, or that one raced it.
ComparesFresh == pc = "compare" => fresh \/ (raced /\ ~verified)

GateInv == DownIdle /\ PendingUnlessRaced /\ ComparesFresh /\ VerifiedUnlessRaced

\* The gate's invariant is inductive.
LEMMA GateHolds == Spec => []GateInv
<1>1. Init => GateInv
  BY DEF Init, GateInv, DownIdle, PendingUnlessRaced, ComparesFresh, VerifiedUnlessRaced
<1>2. TypeOK /\ GateInv /\ [Next]_vars => GateInv'
  <2> SUFFICES ASSUME TypeOK, GateInv, [Next]_vars PROVE GateInv'
    OBVIOUS
  <2> USE DEF GateInv, DownIdle, PendingUnlessRaced, ComparesFresh,
              VerifiedUnlessRaced, NoSwap, Swappers, TypeOK
  <2>1. CASE StartTick
    BY <2>1 DEF StartTick
  <2>2. CASE SkipReconcile
    BY <2>2 DEF SkipReconcile
  <2>3. CASE ReadBook
    BY <2>3 DEF ReadBook, CanReconcile
  <2>4. CASE ReadBookFails
    BY <2>4 DEF ReadBookFails
  <2>5. CASE Conclude
    BY <2>5 DEF Conclude
  <2>6. CASE WriteRaises
    BY <2>6 DEF WriteRaises
  <2>7. CASE SaveRefresh
    BY <2>7 DEF SaveRefresh
  <2>8. CASE Decide
    BY <2>8 DEF Decide, GateOpen
  <2>9. CASE NoDecision
    BY <2>9 DEF NoDecision, RollOrIdle
  <2>10. CASE NoOrder
    BY <2>10 DEF NoOrder
  <2>11. CASE PaperFill
    BY <2>11 DEF PaperFill
  <2>12. CASE RealFill
    BY <2>12 DEF RealFill
  <2>13. CASE RealFails
    BY <2>13 DEF RealFails
  <2>14. CASE Persist
    BY <2>14 DEF Persist
  <2>15. CASE EndDay
    BY <2>15 DEF EndDay
  <2>16. CASE MarkDay
    BY <2>16 DEF MarkDay
  <2>17. CASE Promote
    BY <2>17 DEF Promote, SwapSource, GoOn
  <2>18. CASE Retry
    BY <2>18 DEF Retry, SwapSource, GoOn
  <2>19. CASE Sweep
    BY <2>19 DEF Sweep, GoOn
  <2>20. CASE Remint
    BY <2>20 DEF Remint, SwapSource, GoOn
  <2>21. CASE Crash
    BY <2>21 DEF Crash, NoSwap
  <2>22. CASE Recover
    BY <2>22 DEF Recover
  <2>23. CASE OpenMarket
    BY <2>23 DEF OpenMarket, inside
  <2>24. CASE CloseMarket
    BY <2>24 DEF CloseMarket, inside
  <2>25. CASE NewDay
    BY <2>25 DEF NewDay
  <2>26. CASE Login
    BY <2>26 DEF Login, GoOn
  <2>27. CASE SetArmed
    BY <2>27 DEF SetArmed, inside
  <2>28. CASE AckOrderError
    BY <2>28 DEF AckOrderError
  <2>29. CASE AckStrategyError
    BY <2>29 DEF AckStrategyError
  <2>30. ASSUME NEW w \in Swappers, Rebind(w) PROVE GateInv'
    BY <2>30 DEF Rebind, Rebound, GoOn
  <2>31. ASSUME NEW w \in Swappers, Pend(w) PROVE GateInv'
    BY <2>31 DEF Pend, Rebound, GoOn
  <2>32. ASSUME NEW u \in {-1, 1}, OwnerTrades(u) PROVE GateInv'
    BY <2>32 DEF OwnerTrades
  <2>34. CASE DecideByHand
    BY <2>34 DEF DecideByHand
  <2>33. CASE UNCHANGED vars
    BY <2>33 DEF vars
  <2> QED
    BY <2>1, <2>2, <2>3, <2>4, <2>5, <2>6, <2>7, <2>8, <2>9, <2>10, <2>11,
       <2>12, <2>13, <2>14, <2>15, <2>16, <2>17, <2>18, <2>19, <2>20, <2>21, <2>22,
       <2>23, <2>24, <2>25, <2>26, <2>27, <2>28, <2>29, <2>30, <2>31, <2>32, <2>33, <2>34
    DEF Next, TickStep, Swaps, SwapStep, Owner
<1> QED BY <1>1, <1>2, Types, PTL DEF Spec

\* No decision of a live run escapes the comparison with the broker's book,
\* but for a swap that overlaps a tick.
THEOREM Gated == Spec => []VerifiedUnlessRaced
<1>1. GateInv => VerifiedUnlessRaced
  BY DEF GateInv
<1> QED BY <1>1, GateHolds, PTL
-----------------------------------------------------------------------------
\* Without an excuse the account is long, ...
LongUnlessExcused == account >= 0 \/ excused

\* ... a verified run that is not halted holds no more than its account, ...
CoveredOnceVerified ==
  up /\ broker = "live" /\ verified /\ orderError = "none" /\ ~excused
    => account >= book

\* ... as a comparison under way already knows, ...
CoveredByComparison ==
  pc = "compare" /\ fresh /\ ~mismatch /\ orderError = "none" /\ ~excused
    => account >= book

\* ... which only a live run makes.
ComparesLive == pc = "compare" => broker = "live"

StockInv ==
  /\ LongUnlessExcused /\ CoveredOnceVerified /\ CoveredByComparison
  /\ ComparesLive

\* A run never sells what it does not hold at the broker: crashes, lost
\* answers and forgotten fills are all halted before the second sale.
THEOREM NotOversold == Spec => []NeverOversold
<1>1. Init => StockInv
  BY DEF Init, StockInv, LongUnlessExcused, CoveredOnceVerified,
     CoveredByComparison, ComparesLive
<1>2. TypeOK /\ GateInv /\ StockInv /\ [Next]_vars => StockInv'
  <2> SUFFICES ASSUME TypeOK, GateInv, StockInv, [Next]_vars PROVE StockInv'
    OBVIOUS
  <2> USE GateAssumption
      DEF StockInv, LongUnlessExcused, CoveredOnceVerified, CoveredByComparison,
          ComparesLive, GateInv, DownIdle, TypeOK
  <2>1. CASE StartTick
    BY <2>1 DEF StartTick
  <2>2. CASE SkipReconcile
    BY <2>2 DEF SkipReconcile
  <2>3. CASE ReadBook
    BY <2>3 DEF ReadBook, CanReconcile, Differs
  <2>4. CASE ReadBookFails
    BY <2>4 DEF ReadBookFails
  <2>5. CASE Conclude
    BY <2>5 DEF Conclude
  <2>6. CASE WriteRaises
    BY <2>6 DEF WriteRaises
  <2>7. CASE SaveRefresh
    BY <2>7 DEF SaveRefresh
  <2>8. CASE Decide
    BY <2>8 DEF Decide, GateOpen
  <2>9. CASE NoDecision
    BY <2>9 DEF NoDecision, RollOrIdle
  <2>10. CASE NoOrder
    BY <2>10 DEF NoOrder
  <2>11. CASE PaperFill
    BY <2>11 DEF PaperFill
  <2>12. CASE RealFill
    <3>1. broker = "live" /\ up
      BY <2>12 DEF RealFill, CanTrade
    <3>2. CASE ~Unread /\ ~excused
      <4>1. account >= book
        BY <3>1, <3>2 DEF Unread
      <4> QED BY <2>12, <3>1, <3>2, <4>1 DEF RealFill, CanTrade, Traded
    <3>3. CASE Unread \/ excused
      BY <2>12, <3>3 DEF RealFill
    <3> QED BY <3>2, <3>3
  <2>13. CASE RealFails
    <3>1. broker = "live" /\ up /\ orderError' = "order" /\ pc' = "record"
      BY <2>13 DEF RealFails
    <3>2. account' >= 0 \/ excused'
      <4>1. CASE UNCHANGED <<account, faults, excused>>
        BY <4>1
      <4>2. CASE /\ account' = account + Traded
                 /\ excused' = (excused \/ Unread)
        <5>1. CASE ~Unread /\ ~excused
          <6>1. account >= book
            BY <3>1, <5>1 DEF Unread
          <6> QED BY <4>2, <6>1 DEF Traded
        <5> QED BY <4>2, <5>1
      <4> QED BY <2>13, <4>1, <4>2 DEF RealFails
    <3> QED BY <3>1, <3>2
  <2>14. CASE Persist
    BY <2>14 DEF Persist
  <2>15. CASE EndDay
    BY <2>15 DEF EndDay
  <2>16. CASE MarkDay
    BY <2>16 DEF MarkDay
  <2>17. CASE Promote
    BY <2>17 DEF Promote, SwapSource, GoOn
  <2>18. CASE Retry
    BY <2>18 DEF Retry, SwapSource, GoOn
  <2>19. CASE Sweep
    BY <2>19 DEF Sweep, GoOn
  <2>20. CASE Remint
    BY <2>20 DEF Remint, SwapSource, GoOn
  <2>21. CASE Crash
    BY <2>21 DEF Crash, NoSwap
  <2>22. CASE Recover
    BY <2>22 DEF Recover
  <2>23. CASE OpenMarket
    BY <2>23 DEF OpenMarket, inside
  <2>24. CASE CloseMarket
    BY <2>24 DEF CloseMarket, inside
  <2>25. CASE NewDay
    BY <2>25 DEF NewDay
  <2>26. CASE Login
    BY <2>26 DEF Login, GoOn
  <2>27. CASE SetArmed
    BY <2>27 DEF SetArmed, inside
  <2>28. CASE AckOrderError
    BY <2>28 DEF AckOrderError
  <2>29. CASE AckStrategyError
    BY <2>29 DEF AckStrategyError
  <2>30. ASSUME NEW w \in Swappers, Rebind(w) PROVE StockInv'
    BY <2>30 DEF Rebind, Rebound, GoOn
  <2>31. ASSUME NEW w \in Swappers, Pend(w) PROVE StockInv'
    BY <2>31 DEF Pend, Rebound, GoOn
  <2>32. ASSUME NEW u \in {-1, 1}, OwnerTrades(u) PROVE StockInv'
    <3>1. CASE excused'
      BY <2>32, <3>1 DEF OwnerTrades
    <3>2. CASE ~excused'
      <4>1. account' = book /\ ~excused
        BY <2>32, <3>2 DEF OwnerTrades
      <4>2. account' \in Int
        BY <4>1
      <4>3. UNCHANGED <<up, broker, verified, orderError, pc, book, fresh>>
        BY <2>32 DEF OwnerTrades
      <4> QED BY <3>2, <4>1, <4>2, <4>3
    <3> QED BY <3>1, <3>2
  <2>34. CASE DecideByHand
    BY <2>34 DEF DecideByHand
  <2>33. CASE UNCHANGED vars
    BY <2>33 DEF vars
  <2> QED
    BY <2>1, <2>2, <2>3, <2>4, <2>5, <2>6, <2>7, <2>8, <2>9, <2>10, <2>11,
       <2>12, <2>13, <2>14, <2>15, <2>16, <2>17, <2>18, <2>19, <2>20, <2>21, <2>22,
       <2>23, <2>24, <2>25, <2>26, <2>27, <2>28, <2>29, <2>30, <2>31, <2>32, <2>33, <2>34
    DEF Next, TickStep, Swaps, SwapStep, Owner
<1>3. TypeOK /\ StockInv => NeverOversold
  BY GateAssumption DEF StockInv, LongUnlessExcused, NeverOversold, TypeOK
<1> QED BY <1>1, <1>2, <1>3, Types, GateHolds, PTL DEF Spec
-----------------------------------------------------------------------------
\* A restart at any moment loses at most the decision under way, or what the
\* database refused to write.
THEOREM RestartSafe == Spec => []RestartLosesOneDecision
<1>1. Init => RestartLosesOneDecision
  BY DEF Init, RestartLosesOneDecision
<1>2. TypeOK /\ RestartLosesOneDecision /\ [Next]_vars => RestartLosesOneDecision'
  <2> SUFFICES ASSUME TypeOK, RestartLosesOneDecision, [Next]_vars
               PROVE  RestartLosesOneDecision'
    OBVIOUS
  <2> USE DEF RestartLosesOneDecision
  <2>1. CASE StartTick
    BY <2>1 DEF StartTick
  <2>2. CASE SkipReconcile
    BY <2>2 DEF SkipReconcile
  <2>3. CASE ReadBook
    BY <2>3 DEF ReadBook, CanReconcile
  <2>4. CASE ReadBookFails
    BY <2>4 DEF ReadBookFails
  <2>5. CASE Conclude
    BY <2>5 DEF Conclude
  <2>6. CASE WriteRaises
    BY <2>6 DEF WriteRaises
  <2>7. CASE SaveRefresh
    <3>1. PersistState
      BY <2>7 DEF SaveRefresh
    <3>2. (saved' = State /\ stale' = FALSE) \/ stale' = TRUE
      BY <3>1 DEF PersistState
    <3> QED BY <2>7, <3>2 DEF SaveRefresh, State
  <2>8. CASE Decide
    BY <2>8 DEF Decide, GateOpen
  <2>9. CASE NoDecision
    BY <2>9 DEF NoDecision, RollOrIdle
  <2>10. CASE NoOrder
    BY <2>10 DEF NoOrder
  <2>11. CASE PaperFill
    BY <2>11 DEF PaperFill
  <2>12. CASE RealFill
    BY <2>12 DEF RealFill
  <2>13. CASE RealFails
    BY <2>13 DEF RealFails
  <2>14. CASE Persist
    <3>1. PersistState
      BY <2>14 DEF Persist
    <3>2. (saved' = State /\ stale' = FALSE) \/ stale' = TRUE
      BY <3>1 DEF PersistState
    <3> QED BY <2>14, <3>2 DEF Persist, State
  <2>15. CASE EndDay
    <3>1. PersistState
      BY <2>15 DEF EndDay
    <3>2. (saved' = State /\ stale' = FALSE) \/ stale' = TRUE
      BY <3>1 DEF PersistState
    <3> QED BY <2>15, <3>2 DEF EndDay, State
  <2>16. CASE MarkDay
    BY <2>16 DEF MarkDay
  <2>17. CASE Promote
    BY <2>17 DEF Promote, SwapSource, GoOn
  <2>18. CASE Retry
    BY <2>18 DEF Retry, SwapSource, GoOn
  <2>19. CASE Sweep
    BY <2>19 DEF Sweep, GoOn
  <2>20. CASE Remint
    BY <2>20 DEF Remint, SwapSource, GoOn
  <2>21. CASE Crash
    BY <2>21 DEF Crash, NoSwap
  <2>22. CASE Recover
    BY <2>22 DEF Recover
  <2>23. CASE OpenMarket
    BY <2>23 DEF OpenMarket, inside
  <2>24. CASE CloseMarket
    BY <2>24 DEF CloseMarket, inside
  <2>25. CASE NewDay
    BY <2>25 DEF NewDay
  <2>26. CASE Login
    BY <2>26 DEF Login, GoOn
  <2>27. CASE SetArmed
    BY <2>27 DEF SetArmed, inside
  <2>28. CASE AckOrderError
    BY <2>28 DEF AckOrderError
  <2>29. CASE AckStrategyError
    BY <2>29 DEF AckStrategyError
  <2>30. ASSUME NEW w \in Swappers, Rebind(w) PROVE RestartLosesOneDecision'
    BY <2>30 DEF Rebind, Rebound, GoOn
  <2>31. ASSUME NEW w \in Swappers, Pend(w) PROVE RestartLosesOneDecision'
    BY <2>31 DEF Pend, Rebound, GoOn
  <2>32. ASSUME NEW u \in {-1, 1}, OwnerTrades(u) PROVE RestartLosesOneDecision'
    BY <2>32 DEF OwnerTrades
  <2>34. CASE DecideByHand
    BY <2>34 DEF DecideByHand
  <2>33. CASE UNCHANGED vars
    BY <2>33 DEF vars
  <2> QED
    BY <2>1, <2>2, <2>3, <2>4, <2>5, <2>6, <2>7, <2>8, <2>9, <2>10, <2>11,
       <2>12, <2>13, <2>14, <2>15, <2>16, <2>17, <2>18, <2>19, <2>20, <2>21, <2>22,
       <2>23, <2>24, <2>25, <2>26, <2>27, <2>28, <2>29, <2>30, <2>31, <2>32, <2>33, <2>34
    DEF Next, TickStep, Swaps, SwapStep, Owner
<1> QED BY <1>1, <1>2, Types, PTL DEF Spec

-----------------------------------------------------------------------------
\* The decision a daily run completed today is about to be marked, or is.
MarkedOnceDecided ==
  ~tickDriven /\ ~disturbed /\ decisions # 0
    => decisions = 1 /\ (pc \in {"endDay", "mark"} \/ decisionDay = day)

\* The decision of a tick under way is the first one.
DecidesFirst ==
  ~tickDriven /\ ~disturbed /\ ~byHand /\ pc \in {"decide", "record"}
    => decisions = 0

\* A process that is down and undisturbed came down on an earlier day.
DownSinceYesterday == ~up /\ ~disturbed => decisions = 0

DailyInv == MarkedOnceDecided /\ DecidesFirst /\ DownSinceYesterday

\* Without a crash or a failed write a daily run decides once a day.
THEOREM DailyOnce == Spec => []DecidesOnceUndisturbed
<1>1. Init => DailyInv
  BY DEF Init, DailyInv, MarkedOnceDecided, DecidesFirst, DownSinceYesterday
<1>2. TypeOK /\ GateInv /\ DailyInv /\ [Next]_vars => DailyInv'
  <2> SUFFICES ASSUME TypeOK, GateInv, DailyInv, [Next]_vars PROVE DailyInv'
    OBVIOUS
  <2> USE DEF DailyInv, MarkedOnceDecided, DecidesFirst, DownSinceYesterday,
              GateInv, DownIdle, TypeOK
  <2>1. CASE StartTick
    BY <2>1 DEF StartTick
  <2>2. CASE SkipReconcile
    BY <2>2 DEF SkipReconcile
  <2>3. CASE ReadBook
    BY <2>3 DEF ReadBook, CanReconcile
  <2>4. CASE ReadBookFails
    BY <2>4 DEF ReadBookFails
  <2>5. CASE Conclude
    BY <2>5 DEF Conclude
  <2>6. CASE WriteRaises
    BY <2>6 DEF WriteRaises
  <2>7. CASE SaveRefresh
    BY <2>7 DEF SaveRefresh, PersistState
  <2>8. CASE Decide
    BY <2>8 DEF Decide, GateOpen
  <2>9. CASE NoDecision
    BY <2>9 DEF NoDecision, RollOrIdle
  <2>10. CASE NoOrder
    BY <2>10 DEF NoOrder
  <2>11. CASE PaperFill
    BY <2>11 DEF PaperFill
  <2>12. CASE RealFill
    BY <2>12 DEF RealFill
  <2>13. CASE RealFails
    BY <2>13 DEF RealFails
  <2>14. CASE Persist
    BY <2>14 DEF Persist, PersistState
  <2>15. CASE EndDay
    BY <2>15 DEF EndDay, PersistState
  <2>16. CASE MarkDay
    BY <2>16 DEF MarkDay
  <2>17. CASE Promote
    BY <2>17 DEF Promote, SwapSource, GoOn
  <2>18. CASE Retry
    BY <2>18 DEF Retry, SwapSource, GoOn
  <2>19. CASE Sweep
    BY <2>19 DEF Sweep, GoOn
  <2>20. CASE Remint
    BY <2>20 DEF Remint, SwapSource, GoOn
  <2>21. CASE Crash
    BY <2>21 DEF Crash, NoSwap
  <2>22. CASE Recover
    BY <2>22 DEF Recover
  <2>23. CASE OpenMarket
    BY <2>23 DEF OpenMarket, inside
  <2>24. CASE CloseMarket
    BY <2>24 DEF CloseMarket, inside
  <2>25. CASE NewDay
    BY <2>25 DEF NewDay
  <2>26. CASE Login
    BY <2>26 DEF Login, GoOn
  <2>27. CASE SetArmed
    BY <2>27 DEF SetArmed, inside
  <2>28. CASE AckOrderError
    BY <2>28 DEF AckOrderError
  <2>29. CASE AckStrategyError
    BY <2>29 DEF AckStrategyError
  <2>30. ASSUME NEW w \in Swappers, Rebind(w) PROVE DailyInv'
    BY <2>30 DEF Rebind, Rebound, GoOn
  <2>31. ASSUME NEW w \in Swappers, Pend(w) PROVE DailyInv'
    BY <2>31 DEF Pend, Rebound, GoOn
  <2>32. ASSUME NEW u \in {-1, 1}, OwnerTrades(u) PROVE DailyInv'
    BY <2>32 DEF OwnerTrades
  <2>34. CASE DecideByHand
    BY <2>34 DEF DecideByHand
  <2>33. CASE UNCHANGED vars
    BY <2>33 DEF vars
  <2> QED
    BY <2>1, <2>2, <2>3, <2>4, <2>5, <2>6, <2>7, <2>8, <2>9, <2>10, <2>11,
       <2>12, <2>13, <2>14, <2>15, <2>16, <2>17, <2>18, <2>19, <2>20, <2>21, <2>22,
       <2>23, <2>24, <2>25, <2>26, <2>27, <2>28, <2>29, <2>30, <2>31, <2>32, <2>33, <2>34
    DEF Next, TickStep, Swaps, SwapStep, Owner
<1>3. TypeOK /\ DailyInv => DecidesOnceUndisturbed
  BY DEF DailyInv, MarkedOnceDecided, DecidesOnceUndisturbed, TypeOK
<1> QED BY <1>1, <1>2, <1>3, Types, GateHolds, PTL DEF Spec
=============================================================================
