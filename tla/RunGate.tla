------------------------------- MODULE RunGate -------------------------------
(***************************************************************************)
(* One LIVE-mode run (live/manager.py, live/recovery.py): the tick that    *)
(* prices, reconciles, decides and persists; the threads that meanwhile    *)
(* swap its quote source and its order adapter after a login, a quote      *)
(* error or a token rollover; the crash and the recovery from the row of   *)
(* the database; the owner who has the run decide at once, acknowledges    *)
(* halts, trades by hand, arms and disarms the account.                    *)
(*                                                                         *)
(* Abstractions.  The run holds zero or one unit of one contract and sends *)
(* at most one order in a decision (LiveOrder is the order, whole fills    *)
(* only).  It is alone on its account.  Hourly throttle and failure        *)
(* backoff are a tick that may skip the comparison; the decision time is a *)
(* tick that may not decide yet.  A tick does not last over the night.     *)
(* The owner's /run-decision finds no tick under way: two decisions at     *)
(* once on one session are left out here (SliceBook's overlap stands for   *)
(* them), and so is the refresh that begins /refresh?decide=true.          *)
(***************************************************************************)
EXTENDS Integers

CONSTANTS
  ResumeOrders,             \* settings.live_resume_orders_on_recovery
  Kinds,                    \* kinds of run: ticks decide (TRUE), or once a day
  MaxDays,                  \* bound: trading days in a behaviour
  MaxOwnerActs,             \* bound: logins, armings, disarmings and
                            \* decisions asked for
  MaxCrashes,               \* bound: crashes of the process
  MaxFaults,                \* bound: lost answers, failed writes, strategy
                            \* errors and trades of the owner
  MaxUnits                  \* bound: units at the account, either sign

ASSUME GateAssumption ==
  /\ ResumeOrders \in BOOLEAN /\ Kinds \subseteq BOOLEAN
  /\ MaxDays \in Nat \ {0} /\ MaxOwnerActs \in Nat /\ MaxCrashes \in Nat
  /\ MaxFaults \in Nat /\ MaxUnits \in Nat

VARIABLES
  \* the broker account and the market
  session,                  \* the day's token, and whether it still lives
  armed,                    \* the owner armed the account for real orders
  phase,                    \* of the trading day
  day,
  account,                  \* units the account holds at the broker
  \* the LiveRun
  up,                       \* the process runs
  tickDriven,               \* decides on every tick, not once a day
  broker,                   \* order_broker(): "paper" or "live"
  orderAdapter,             \* adapter frozen in the LiveBroker
  readAdapter,              \* adapter behind quote_source
  bound,                    \* ... and they are the same object
  resumePending, reconcilePending, backoff,
  quoteError, orderError, strategyError,
  book,                     \* units in the run's own portfolio
  decisionDay,              \* last_decision_day
  \* its tick thread
  pc,
  mismatch,                 \* what the comparison under way has found
  byHand,                   \* no tick: a /run-decision, on the event loop
  \* the threads that swap its adapters
  swap,                     \* next step of each
  sweeping,                 \* the loop's is the rebind of a sweep
  \* AlgoRun.state
  saved,
  \* bounds
  ownerActs, crashes, faults,
  \* observations
  verified,                 \* the broker book was compared since the last swap
  fresh,                    \* the comparison under way began after it
  raced,                    \* that swap overlapped a tick or a request
  excused,                  \* the owner unbalanced the books, or an order went
                            \* out unverified, or past a halt on unbalanced ones
  decisions,                \* decisions a daily run completed today
  disturbed,                \* a crash or a failed write today
  stale                     \* the last write of the state failed

\* No step of the run's own threads changes these, but for the end of what the
\* owner has asked for ...
world == <<session, armed, phase, day, up, tickDriven, ownerActs, crashes>>
outside == <<world, byHand>>
\* ... no step of its tick these ...
swapState == <<broker, orderAdapter, readAdapter, bound, resumePending, swap, sweeping>>
\* ... and no step of the others these.
haltVars == <<orderError, strategyError>>
bookVars == <<account, book, decisionDay, saved, faults>>
bookSeen == <<excused, decisions, disturbed, stale>>
tickState == <<backoff, haltVars, bookVars, bookSeen, pc, mismatch>>
swapSeen == <<verified, fresh, raced>>
vars == <<outside, swapState, quoteError, reconcilePending, tickState, swapSeen>>

NoAdapter == [token |-> 0, armed |-> FALSE]

\* make_adapter: what the account row says at that moment, frozen.
NewAdapter == [token |-> session.token, armed |-> armed]

\* A REST call through an adapter gets an answer.
Alive(a) == session.valid /\ a.token = session.token

Swappers == {"thread", "loop"}
NoSwap == [w \in Swappers |-> "done"]

-----------------------------------------------------------------------------
\* Deployed this morning on a fresh login, real orders injected.
Init ==
  /\ session = [token |-> 1, valid |-> TRUE]
  /\ armed = TRUE /\ phase = "pre" /\ day = 1 /\ account = 0
  /\ up = TRUE /\ tickDriven \in Kinds
  /\ broker = "live" /\ bound = TRUE
  /\ orderAdapter = NewAdapter /\ readAdapter = NewAdapter
  /\ reconcilePending = TRUE /\ resumePending = FALSE /\ backoff = FALSE
  /\ quoteError = FALSE /\ orderError = "none" /\ strategyError = FALSE
  /\ book = 0 /\ decisionDay = 0
  /\ pc = "idle" /\ mismatch = FALSE /\ byHand = FALSE
  /\ swap = NoSwap /\ sweeping = FALSE
  /\ saved = [book |-> 0, decisionDay |-> 0]
  /\ ownerActs = 0 /\ crashes = 0 /\ faults = 0
  /\ verified = FALSE /\ fresh = FALSE /\ raced = FALSE /\ excused = FALSE
  /\ decisions = 0 /\ disturbed = FALSE /\ stale = FALSE

-----------------------------------------------------------------------------
(* The tick, first half: LiveRun.refresh. *)

\* The loop hands a tick to the pool, in the session or with a working feed.
\* A feed may answer from its socket although its token is dead.
StartTick ==
  /\ up /\ pc = "idle" /\ swap["loop"] = "done"
  /\ phase = "open" \/ ~quoteError
  /\ quoteError' \in (IF readAdapter = NoAdapter THEN {FALSE} ELSE BOOLEAN)
  /\ raced' = (raced \/ (~verified /\ swap["thread"] = "pend"))
  /\ pc' = "reconcile"
  /\ UNCHANGED <<outside, swapState, reconcilePending, backoff, haltVars, bookVars,
                 bookSeen, mismatch, verified, fresh>>

\* Mutant of CanReconcile: a failed read is not tried again.
CanReconcileOnce ==
  broker = "live" /\ phase = "open" /\ readAdapter # NoAdapter /\ ~backoff

\* A live run compares in market hours, through the read adapter.
CanReconcile == broker = "live" /\ phase = "open" /\ readAdapter # NoAdapter

\* Throttled, unless pending; or backing off after a failure.
SkipReconcile ==
  /\ pc = "reconcile"
  /\ ~CanReconcile \/ ~reconcilePending \/ backoff
  /\ pc' = "save"
  /\ UNCHANGED <<outside, swapState, quoteError, reconcilePending, backoff, haltVars,
                 bookVars, bookSeen, mismatch, swapSeen>>

\* Mutant of Differs: only contracts both sides hold are compared.
DiffersIfBoth == book # 0 /\ account # 0 /\ account # book

\* Only contracts the run holds are looked up in the broker's book.
Differs == book # 0 /\ account # book

\* The broker's book has been read.
ReadBook ==
  /\ pc = "reconcile" /\ CanReconcile /\ Alive(readAdapter)
  /\ mismatch' = Differs
  /\ fresh' = TRUE
  /\ pc' = "compare"
  /\ UNCHANGED <<outside, swapState, quoteError, reconcilePending, backoff, haltVars,
                 bookVars, bookSeen, verified, raced>>

\* ReconcileUnavailable: not a mismatch, the run stays pending.
ReadBookFails ==
  /\ pc = "reconcile" /\ CanReconcile
  /\ backoff' = TRUE
  /\ pc' = "save"
  /\ UNCHANGED <<outside, swapState, quoteError, reconcilePending, haltVars,
                 bookVars, bookSeen, mismatch, swapSeen>>

\* A completed comparison lifts the gate; a mismatch halts the run instead.
Conclude ==
  /\ pc = "compare"
  /\ reconcilePending' = FALSE /\ backoff' = FALSE
  /\ orderError' = (IF mismatch /\ orderError = "none" THEN "mismatch"
                                                      ELSE orderError)
  /\ verified' = (verified \/ fresh)
  /\ raced' = (raced /\ ~verified')
  /\ mismatch' = FALSE /\ fresh' = FALSE
  /\ pc' = "save"
  /\ UNCHANGED <<outside, swapState, quoteError, strategyError, bookVars, bookSeen>>

-----------------------------------------------------------------------------
(* Writes of AlgoRun.state and of the trade rows; each may fail. *)

State == [book |-> book, decisionDay |-> decisionDay]

\* _persist_state swallows a failed write.
PersistState ==
  \/ saved' = State /\ stale' = FALSE /\ UNCHANGED <<faults, disturbed>>
  \/ /\ faults < MaxFaults
     /\ faults' = faults + 1
     /\ stale' = TRUE /\ disturbed' = TRUE
     /\ UNCHANGED saved

\* sync_positions or record_trades raises: the tick or the request ends there.
WriteRaises ==
  /\ pc \in {"save", "record"}
  /\ faults < MaxFaults
  /\ faults' = faults + 1
  /\ stale' = TRUE /\ disturbed' = TRUE
  /\ pc' = "idle" /\ byHand' = FALSE
  /\ UNCHANGED <<world, swapState, quoteError, reconcilePending, backoff, haltVars,
                 account, book, decisionDay, saved, excused, decisions, mismatch,
                 swapSeen>>

\* The end of refresh.
SaveRefresh ==
  /\ pc = "save"
  /\ PersistState
  /\ pc' = "gate"
  /\ UNCHANGED <<outside, swapState, quoteError, reconcilePending, backoff, haltVars,
                 account, book, decisionDay, excused, decisions, mismatch, swapSeen>>

-----------------------------------------------------------------------------
(* The tick, second half: the gate of _tick and run_decision. *)

GateOpen ==
  /\ phase = "open"
  /\ ~quoteError /\ orderError = "none" /\ ~strategyError
  /\ ~reconcilePending

Decide ==
  /\ pc = "gate" /\ GateOpen
  /\ tickDriven \/ decisionDay # day
  /\ pc' = "decide"
  /\ UNCHANGED <<outside, swapState, quoteError, reconcilePending, backoff, haltVars,
                 bookVars, bookSeen, mismatch, swapSeen>>

\* A tick-driven run ends its day on the first tick after the close.
RollOrIdle == IF tickDriven /\ phase = "post" /\ decisionDay # day
              THEN "endDay" ELSE "idle"

\* The gate is shut, or the decision time of a daily run is not reached.
NoDecision ==
  /\ pc = "gate"
  /\ ~(tickDriven /\ GateOpen)
  /\ pc' = RollOrIdle
  /\ UNCHANGED <<outside, swapState, quoteError, reconcilePending, backoff, haltVars,
                 bookVars, bookSeen, mismatch, swapSeen>>

\* /run-decision: neither the halts nor the hour nor the day's decision are
\* looked at.  It holds the event loop: no tick starts and nothing sweeps.
DecideByHand ==
  /\ up /\ pc = "idle" /\ swap["loop"] = "done"
  /\ ~reconcilePending
  /\ ownerActs < MaxOwnerActs
  /\ ownerActs' = ownerActs + 1
  /\ pc' = "decide" /\ byHand' = TRUE
  /\ raced' = (raced \/ (~verified /\ swap["thread"] = "pend"))
  /\ UNCHANGED <<session, armed, phase, day, up, tickDriven, crashes, swapState,
                 quoteError, reconcilePending, backoff, haltVars, bookVars,
                 bookSeen, mismatch, verified, fresh>>

\* The other side of what the run holds.
Traded == 1 - 2 * book

\* The strategy does nothing, or raises and halts the run.
NoOrder ==
  /\ pc = "decide"
  /\ \/ UNCHANGED <<strategyError, faults>>
     \/ /\ faults < MaxFaults
        /\ faults' = faults + 1
        /\ strategyError' = TRUE
  /\ pc' = "record"
  /\ UNCHANGED <<outside, swapState, quoteError, reconcilePending, backoff, orderError,
                 account, book, decisionDay, saved, bookSeen, mismatch, swapSeen>>

PaperFill ==
  /\ pc = "decide" /\ broker = "paper"
  /\ book' = book + Traded
  /\ pc' = "record"
  /\ UNCHANGED <<outside, swapState, quoteError, reconcilePending, backoff, haltVars,
                 account, decisionDay, saved, faults, bookSeen, mismatch, swapSeen>>

\* _ensure_armed asks the adapter, not the account; the exchange is open.
CanTrade ==
  /\ broker = "live" /\ phase = "open" /\ Alive(orderAdapter) /\ orderAdapter.armed
  /\ account + Traded \in -MaxUnits..MaxUnits

\* An order goes out on books not compared, or past a halt on unbalanced ones.
Unread == ~verified \/ (orderError # "none" /\ account # book)

RealFill ==
  /\ pc = "decide" /\ CanTrade
  /\ account' = account + Traded
  /\ book' = book + Traded
  /\ excused' = (excused \/ Unread)
  /\ pc' = "record"
  /\ UNCHANGED <<outside, swapState, quoteError, reconcilePending, backoff, haltVars,
                 decisionDay, saved, faults, decisions, disturbed, stale,
                 mismatch, swapSeen>>

\* OrderExecutionError: the order died, or it traded and nobody could tell.
RealFails ==
  /\ pc = "decide" /\ broker = "live"
  /\ \/ UNCHANGED <<account, faults, excused>>
     \/ /\ CanTrade
        /\ faults < MaxFaults
        /\ faults' = faults + 1
        /\ account' = account + Traded
        /\ excused' = (excused \/ Unread)
  /\ orderError' = "order"
  /\ pc' = "record"
  /\ UNCHANGED <<outside, swapState, quoteError, reconcilePending, backoff,
                 strategyError, book, decisionDay, saved, decisions, disturbed,
                 stale, mismatch, swapSeen>>

\* Mutant of Persist: the state waits for the end of the day.
PersistLater ==
  /\ pc = "record"
  /\ UNCHANGED <<saved, stale, faults, disturbed>>
  /\ pc' = (IF tickDriven \/ byHand THEN "idle" ELSE "endDay")
  /\ byHand' = FALSE
  /\ decisions' = (IF tickDriven \/ byHand \/ decisions = 2 THEN decisions
                                                            ELSE decisions + 1)
  /\ UNCHANGED <<world, swapState, quoteError, reconcilePending, backoff, haltVars,
                 account, book, decisionDay, excused, mismatch, swapSeen>>

\* The trades are recorded and the state follows, in two transactions.  A
\* decision of a tick-driven run was before the close: no roll in this tick.
\* The owner's does not end the day either.
Persist ==
  /\ pc = "record"
  /\ PersistState
  /\ pc' = (IF tickDriven \/ byHand THEN "idle" ELSE "endDay")
  /\ byHand' = FALSE
  /\ decisions' = (IF tickDriven \/ byHand \/ decisions = 2 THEN decisions
                                                            ELSE decisions + 1)
  /\ UNCHANGED <<world, swapState, quoteError, reconcilePending, backoff, haltVars,
                 account, book, decisionDay, excused, mismatch, swapSeen>>

\* Mutant of EndDay: the day is not marked.
EndDayUnmarked ==
  /\ pc = "endDay"
  /\ PersistState
  /\ pc' = "idle"
  /\ UNCHANGED <<outside, swapState, quoteError, reconcilePending, backoff, haltVars,
                 account, book, decisionDay, excused, decisions, mismatch, swapSeen>>

\* end_day persists before the caller marks the day as decided.
EndDay ==
  /\ pc = "endDay"
  /\ PersistState
  /\ pc' = "mark"
  /\ UNCHANGED <<outside, swapState, quoteError, reconcilePending, backoff, haltVars,
                 account, book, decisionDay, excused, decisions, mismatch, swapSeen>>

\* Mutant of MarkDay: tomorrow is marked.
MarkTomorrow ==
  /\ pc = "mark"
  /\ decisionDay' = day + 1
  /\ pc' = "idle"
  /\ UNCHANGED <<outside, swapState, quoteError, reconcilePending, backoff, haltVars,
                 account, book, saved, faults, bookSeen, mismatch, swapSeen>>

MarkDay ==
  /\ pc = "mark"
  /\ decisionDay' = day
  /\ pc' = "idle"
  /\ UNCHANGED <<outside, swapState, quoteError, reconcilePending, backoff, haltVars,
                 account, book, saved, faults, bookSeen, mismatch, swapSeen>>

-----------------------------------------------------------------------------
(* Swaps: promotion on a login (a daemon thread), the self-heal of a quote  *)
(* error and the sweep of the maintenance task (both on the event loop).    *)

GoOn(w, step) == swap' = [swap EXCEPT ![w] = step]

\* The read path moves to a fresh adapter.
SwapSource(w) ==
  /\ readAdapter' = NewAdapter
  /\ bound' = FALSE
  /\ quoteError' = FALSE
  /\ GoOn(w, "rebind")

\* A login promotes a run on cache quotes or with a quote error.
Promote ==
  /\ swap["thread"] = "check"
  /\ IF session.valid /\ (readAdapter = NoAdapter \/ quoteError)
     THEN SwapSource("thread")
     ELSE GoOn("thread", "done") /\ UNCHANGED <<readAdapter, bound, quoteError>>
  /\ UNCHANGED <<outside, broker, orderAdapter, resumePending, sweeping,
                 reconcilePending, tickState, swapSeen>>

\* _retry_quotes, from the loop between two ticks.
Retry ==
  /\ up /\ swap["loop"] = "done" /\ pc = "idle"
  /\ quoteError /\ session.valid
  /\ SwapSource("loop")
  /\ UNCHANGED <<outside, broker, orderAdapter, resumePending, sweeping,
                 reconcilePending, tickState, swapSeen>>

\* Mutant of RemintNeeded: trusts the quote path to have noticed.
RemintByQuotePath == session.valid /\ orderAdapter.token # readAdapter.token

\* _maybe_remint_order_adapter: the order path's token is not the account's.
RemintNeeded == session.valid /\ orderAdapter.token # session.token

\* _rebind_order_sweep: rebind, then look at the token.  A sweep that finds
\* nothing to do is left out.
Sweep ==
  /\ up /\ swap["loop"] = "done" /\ ~byHand /\ broker = "live"
  /\ (~bound /\ readAdapter.armed) \/ RemintNeeded
  /\ GoOn("loop", "rebind")
  /\ sweeping' = TRUE
  /\ UNCHANGED <<outside, broker, orderAdapter, readAdapter, bound, resumePending,
                 quoteError, reconcilePending, tickState, swapSeen>>

Remint ==
  /\ swap["loop"] = "token"
  /\ IF RemintNeeded
     THEN SwapSource("loop")
     ELSE GoOn("loop", "done") /\ UNCHANGED <<readAdapter, bound, quoteError>>
  /\ sweeping' = FALSE
  /\ UNCHANGED <<outside, broker, orderAdapter, resumePending, reconcilePending,
                 tickState, swapSeen>>

\* What a swapper does once the order path is rebound.
Rebound(w) == IF w = "loop" /\ sweeping THEN "token" ELSE "done"

\* _rebind_order_adapter, or the injection of _maybe_resume_orders, up to the
\* swap of the adapter: nothing is verified any more.
Rebind(w) ==
  /\ swap[w] = "rebind"
  /\ IF ~bound /\ readAdapter.armed /\ (broker = "live" \/ resumePending)
     THEN /\ broker' = "live"
          /\ orderAdapter' = readAdapter
          /\ bound' = TRUE
          /\ verified' = FALSE /\ fresh' = FALSE
          /\ raced' = ((raced /\ ~verified) \/ pc # "idle")
          /\ GoOn(w, "pend")
     ELSE GoOn(w, Rebound(w)) /\ UNCHANGED <<broker, orderAdapter, bound, swapSeen>>
  /\ UNCHANGED <<outside, readAdapter, resumePending, sweeping, quoteError,
                 reconcilePending, tickState>>

\* ... and the flag that gates the next decision.
Pend(w) ==
  /\ swap[w] = "pend"
  /\ resumePending' = FALSE
  /\ reconcilePending' = TRUE
  /\ GoOn(w, Rebound(w))
  /\ UNCHANGED <<outside, broker, orderAdapter, readAdapter, bound, sweeping,
                 quoteError, tickState, swapSeen>>

SwapStep(w) == Rebind(w) \/ Pend(w)

-----------------------------------------------------------------------------
(* The process, the calendar and the owner. *)

\* Memory is gone: flags, adapters, halts and the decision under way.
Crash ==
  /\ up /\ crashes < MaxCrashes
  /\ crashes' = crashes + 1
  /\ up' = FALSE /\ disturbed' = TRUE
  /\ broker' = "paper" /\ orderAdapter' = NoAdapter /\ readAdapter' = NoAdapter
  /\ bound' = FALSE /\ resumePending' = FALSE
  /\ swap' = NoSwap /\ sweeping' = FALSE
  /\ reconcilePending' = FALSE /\ backoff' = FALSE
  /\ quoteError' = FALSE /\ orderError' = "none" /\ strategyError' = FALSE
  /\ book' = 0 /\ decisionDay' = 0
  /\ pc' = "idle" /\ mismatch' = FALSE /\ byHand' = FALSE
  /\ verified' = FALSE /\ fresh' = FALSE /\ raced' = FALSE
  /\ UNCHANGED <<session, armed, phase, day, tickDriven, ownerActs, account, saved,
                 faults, excused, decisions, stale>>

\* Mutant of Recover: the recovered live run is not gated.
RecoverUngated ==
  /\ ~up /\ up' = TRUE
  /\ book' = saved.book /\ decisionDay' = saved.decisionDay
  /\ readAdapter' = (IF session.valid THEN NewAdapter ELSE NoAdapter)
  /\ broker' = (IF ResumeOrders /\ session.valid /\ armed THEN "live" ELSE "paper")
  /\ orderAdapter' = (IF broker' = "live" THEN readAdapter' ELSE NoAdapter)
  /\ bound' = (broker' = "live")
  /\ resumePending' = (ResumeOrders /\ broker' = "paper")
  /\ UNCHANGED <<session, armed, phase, day, tickDriven, ownerActs, crashes, swap,
                 sweeping, account, saved, faults, haltVars, quoteError, backoff,
                 reconcilePending, bookSeen, pc, byHand, mismatch, swapSeen>>

\* _rebuild: the saved book, cache quotes without a session, real orders only
\* if wanted, with a session and on an armed account; gated then, else
\* waiting for a login.
Recover ==
  /\ ~up /\ up' = TRUE
  /\ book' = saved.book /\ decisionDay' = saved.decisionDay
  /\ readAdapter' = (IF session.valid THEN NewAdapter ELSE NoAdapter)
  /\ broker' = (IF ResumeOrders /\ session.valid /\ armed THEN "live" ELSE "paper")
  /\ orderAdapter' = (IF broker' = "live" THEN readAdapter' ELSE NoAdapter)
  /\ bound' = (broker' = "live")
  /\ reconcilePending' = (broker' = "live")
  /\ resumePending' = (ResumeOrders /\ broker' = "paper")
  /\ UNCHANGED <<session, armed, phase, day, tickDriven, ownerActs, crashes, swap,
                 sweeping, account, saved, faults, haltVars, quoteError, backoff,
                 bookSeen, pc, byHand, mismatch, swapSeen>>

inside == <<swapState, quoteError, reconcilePending, tickState, byHand, swapSeen>>

OpenMarket ==
  /\ phase = "pre" /\ phase' = "open"
  /\ UNCHANGED <<session, armed, day, up, tickDriven, ownerActs, crashes, inside>>

CloseMarket ==
  /\ phase = "open" /\ phase' = "post"
  /\ UNCHANGED <<session, armed, day, up, tickDriven, ownerActs, crashes, inside>>

\* Overnight, with nothing under way; the token dies around six.
NewDay ==
  /\ phase = "post" /\ day < MaxDays
  /\ pc = "idle" /\ swap = NoSwap
  /\ phase' = "pre" /\ day' = day + 1
  /\ session' = [session EXCEPT !.valid = FALSE]
  /\ decisions' = 0 /\ disturbed' = FALSE
  /\ UNCHANGED <<armed, up, tickDriven, ownerActs, crashes, swapState, quoteError,
                 reconcilePending, backoff, haltVars, bookVars, excused, stale,
                 pc, byHand, mismatch, swapSeen>>

\* A login kills the older token and starts the promotion thread.
Login ==
  /\ up /\ ownerActs < MaxOwnerActs /\ swap["thread"] = "done"
  /\ ownerActs' = ownerActs + 1
  /\ session' = [token |-> session.token + 1, valid |-> TRUE]
  /\ GoOn("thread", "check")
  /\ UNCHANGED <<armed, phase, day, up, tickDriven, crashes, broker, orderAdapter,
                 readAdapter, bound, resumePending, sweeping, quoteError,
                 reconcilePending, tickState, byHand, swapSeen>>

\* Arm or disarm: the row of the account, and nothing else.
SetArmed ==
  /\ ownerActs < MaxOwnerActs
  /\ ownerActs' = ownerActs + 1
  /\ armed' = ~armed
  /\ UNCHANGED <<session, phase, day, up, tickDriven, crashes, inside>>

\* The owner trades by hand; he may put the account right, or out of balance.
OwnerTrades(u) ==
  /\ faults < MaxFaults
  /\ faults' = faults + 1
  /\ account' = account + u
  /\ account' \in -MaxUnits..MaxUnits
  /\ excused' = (excused \/ account' # book)
  /\ UNCHANGED <<outside, swapState, quoteError, reconcilePending, backoff, haltVars,
                 book, decisionDay, saved, decisions, disturbed, stale, pc,
                 mismatch, swapSeen>>

\* Acknowledged: nothing is checked.
AckOrderError ==
  /\ ~byHand /\ orderError # "none"
  /\ orderError' = "none"
  /\ excused' = (excused \/ account # book)
  /\ UNCHANGED <<outside, swapState, quoteError, reconcilePending, backoff,
                 strategyError, bookVars, decisions, disturbed, stale, pc,
                 mismatch, swapSeen>>

AckStrategyError ==
  /\ ~byHand /\ strategyError
  /\ strategyError' = FALSE
  /\ UNCHANGED <<outside, swapState, quoteError, reconcilePending, backoff,
                 orderError, bookVars, bookSeen, pc, mismatch, swapSeen>>

-----------------------------------------------------------------------------
TickStep ==
  \/ SkipReconcile \/ ReadBook \/ ReadBookFails \/ Conclude
  \/ WriteRaises \/ SaveRefresh
  \/ Decide \/ NoDecision
  \/ NoOrder \/ PaperFill \/ RealFill \/ RealFails
  \/ Persist \/ EndDay \/ MarkDay

Swaps == Promote \/ Retry \/ Sweep \/ Remint \/ \E w \in Swappers : SwapStep(w)

Owner == Login \/ SetArmed \/ DecideByHand \/ AckOrderError \/ AckStrategyError
               \/ \E u \in {-1, 1} : OwnerTrades(u)

Next ==
  \/ StartTick \/ TickStep
  \/ Swaps
  \/ Crash \/ Recover
  \/ OpenMarket \/ CloseMarket \/ NewDay
  \/ Owner

Spec == Init /\ [][Next]_vars

\* Threads run, the loop keeps ticking, the maintenance task wakes up again
\* and again, and a broker asked for ever answers for once.
FairSpec ==
  /\ Spec
  /\ WF_vars(TickStep) /\ SF_vars(StartTick) /\ SF_vars(ReadBook)
  /\ SF_vars(Sweep) /\ WF_vars(Remint) /\ \A w \in Swappers : WF_vars(SwapStep(w))

-----------------------------------------------------------------------------
(* Properties. *)

Adapters == [token : Nat, armed : BOOLEAN]

TickPcs == {"idle", "reconcile", "compare", "save", "gate", "decide", "record",
            "endDay", "mark"}

SwapPcs == {"done", "check", "rebind", "pend", "token"}

TypeOK ==
  /\ session \in [token : Nat, valid : BOOLEAN]
  /\ armed \in BOOLEAN /\ phase \in {"pre", "open", "post"} /\ day \in 1..MaxDays
  /\ account \in -MaxUnits..MaxUnits
  /\ up \in BOOLEAN /\ tickDriven \in BOOLEAN
  /\ broker \in {"paper", "live"} /\ bound \in BOOLEAN
  /\ orderAdapter \in Adapters /\ readAdapter \in Adapters
  /\ resumePending \in BOOLEAN /\ reconcilePending \in BOOLEAN
  /\ backoff \in BOOLEAN /\ quoteError \in BOOLEAN
  /\ orderError \in {"none", "order", "mismatch"} /\ strategyError \in BOOLEAN
  /\ book \in 0..1 /\ decisionDay \in 0..MaxDays
  /\ pc \in TickPcs /\ mismatch \in BOOLEAN /\ byHand \in BOOLEAN
  /\ swap \in [Swappers -> SwapPcs] /\ sweeping \in BOOLEAN
  /\ saved \in [book : 0..1, decisionDay : 0..MaxDays]
  /\ ownerActs \in 0..MaxOwnerActs /\ crashes \in 0..MaxCrashes /\ faults \in 0..MaxFaults
  /\ verified \in BOOLEAN /\ fresh \in BOOLEAN /\ raced \in BOOLEAN
  /\ excused \in BOOLEAN /\ decisions \in 0..2 /\ disturbed \in BOOLEAN
  /\ stale \in BOOLEAN

\* A decision that can send real orders is taken only on a book compared with
\* the broker's since real orders were injected or rebound: after a recovery,
\* a login or a token rollover, and however often the broker was unreadable.
\* Only a swap that overlaps the tick itself escapes the gate.  The owner's
\* /run-decision is held to it as well.
VerifiedUnlessRaced ==
  pc = "decide" /\ broker = "live" => verified \/ raced

\* The account is never sold short by the run: a unit sold and forgotten, by a
\* crash or a lost answer, is never sold again, unless the owner unbalanced the
\* books, waved a halt away over unbalanced ones, or had the run decide past it.
NeverOversold == account < 0 => excused

\* A restart at any moment loses at most the decision under way: the saved
\* book differs from the run's only inside run_decision, or when the database
\* refused the last write.
RestartLosesOneDecision ==
  up /\ saved.book # book => pc = "record" \/ stale

\* A once-a-day run completes one decision a day of its own, on a day without a
\* crash or a failed write, whatever the owner has it decide besides.
DecidesOnceUndisturbed == ~tickDriven /\ ~disturbed => decisions <= 1

\* Nothing happens to a run any more: it is up, in the session, on a valid
\* token and an armed account.
Calm == up /\ phase = "open" /\ session.valid /\ armed

\* _maybe_remint_order_adapter: whatever the quote path shows, the order path
\* ends on the account's current token.
OrderPathConverges ==
  <>[]Calm => <>[](broker = "live" => Alive(orderAdapter))

\* A pending run gets its comparison: no failure, backoff or throttle parks it.
PendingClears == <>[]Calm => []<>(~reconcilePending)

\* manager.py, _rebind_order_adapter: "After a rebind the book is re-verified
\* before the next decision (reconcile_pending), exactly like a fresh injection".
DecidesOnlyVerified == [][Decide /\ broker = "live" => verified]_vars

\* manager.py, LiveRun.__init__: "a fill a crash left unpersisted (the
\* double-fill window), is DETECTED and halts instead of being re-traded".
NeverBoughtTwice == account > 1 => excused

\* zerodha.py: "real orders only fire when the account is *armed*".
NoRealDecisionDisarmed == [][Decide /\ ~armed => ~CanTrade]_vars
=============================================================================
