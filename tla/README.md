# Verification of the live-trading core

TLA+ models of the part of this platform that sends real orders: the broker
object that works one order at an exchange, the book a decision moves, the live
run around it with its tick, its gates, its restart and its changes of session,
the loops that decide for a run, the runs that share an account, the feed their
prices come from; and of the options console, whose replayed book follows a
cursor. TLC checks the models on small instances; TLAPS proves
every safety invariant of them, and the refinement, for every value of the constants.

Paths below are under `src/skas_algo/` unless they begin with `docs/`.

- [The system](#the-system)
- [What is modelled](#what-is-modelled): LiveOrder, OrderIntent, RunGate, SliceBook,
  LoopSupervisor, AccountBook, PriceFeed, ConsoleJournal
- [Runs](#runs), bounds, fairness
- [What is proved](#what-is-proved)
- [Disagreements between code and documents](#disagreements-between-code-and-documents)
- [Plan](#plan) and [what stays outside](#what-stays-outside)

## The system

A single-operator platform: one engine runs the same strategy in a backtest, on
paper and live, and only the clock, the data and the broker differ. One server
process holds every live run in memory.

| Component | State it keeps | Operations | What makes it correct |
|---|---|---|---|
| **LiveBroker** `brokers/live_broker.py` | the day's order count, the adapter; per call: the order id, ladder rung, last status row | `execute`: rails, place, poll, re-price, cancel, re-check, one retry | never two working orders for one request, no overfill, answers only with what traded, keeps the caller's limit, always answers |
| **Adapters** `brokers/zerodha.py`, `dhan.py` | token and `armed`, frozen at construction | place, modify, cancel, status, positions | real orders only on an armed account |
| **Account rate governor** `brokers/live_broker.py` | next free slot of an account | reserve a slot, sleep | runs of one account are paced |
| **LiveRun** `live/manager.py` | adapters, halts (`quote_error`, `order_error`, `strategy_error`), `reconcile_pending`, `last_decision_day`, the session's portfolio | `refresh`, `run_decision`, `end_day`, manual orders, flatten | no decision on an unverified book, halts stay, one decision a day where promised |
| **LiveRunManager** `live/manager.py` | runs, loop tasks | start, stop, tick loop, watchdog, `promote_quote_source`, rebind, token sweep, account reconciliation | one loop per run, every run converges to the account's session |
| **Recovery** `live/recovery.py` | none of its own; reads `AlgoRun.state` | rebuild every run after a restart | what is restored is what was saved; real orders only behind the gate |
| **Account reconciliation** `live/manager.py`, `services/broker_book.py` | positions, holdings, today's trades | compare all runs of an account with the broker | every divergence halts, T+1 delivery counted once |
| **Execution layer and portfolio** `engine/execution.py`, `portfolio.py` | lots | buy, sell, partial events | book = fills |
| **Live session** `engine/live.py`, `stops.py`, `overrides.py`, `options/settlement.py` | strategy state, stops, overrides | `run_slice`, settlement | stops before decisions, nothing settles twice |
| **Price feed** `live/pricefeed.py`, `quotes.py` | sockets, subscriptions, last marks | subscribe, read, fall back to REST | no stale mark from an old token |
| **Broker session** `services/broker.py` | token, `armed` of the account row | login, arm, make adapter | the only valid token is the newest |
| **Live API** `api/routes/live.py` | the `AlgoRun` rows | acks, manual orders, flatten, run-decision | manual actions and the tick do not both trade a lot |
| **Options console** `services/options_console/` | a journal of fills, the cursor, the book of the slice before it, a file per session | seek, trade, edit in place, undo, delete, fork, reload | the book is what the journal says at the cursor, nothing outlives its expiry, undo is exact, a reload loses no trade |
| **Strategies, backtests, research, replay, imports, data, web** | see [What stays outside](#what-stays-outside) | | |

How they interact:

- The **event loop** runs one task per live run. A tick is handed to a **thread
  pool** (`_tick`) and awaited; it calls `refresh`, then, if no gate is shut,
  `run_decision`, which calls the strategy, whose orders go through the
  execution layer to `SimBroker` or `LiveBroker.execute`, synchronously.
- A **login** answers in a request thread and starts a daemon thread that
  promotes every run of the account: a new adapter for its quotes, then a
  re-bind of its order path, while its tick may be running.
- A **maintenance task** on the loop sweeps the runs: it rebinds order paths,
  and replaces adapters whose token is no longer the account's.
- **Requests** (acks, manual orders, flatten, start, stop, archive) are callbacks
  of the event loop: one at a time, but beside the tick threads.
- After a restart a **recovery thread** rebuilds the runs one by one, while the
  routes already serve.
- The **feed's sockets** call back on a reactor thread of their own.
- The **database** receives the state of a run (`_persist_state`), its trades
  and its positions in separate transactions; recovery reads the first.

There is no lock around a LiveRun or its session. The hard behaviours follow: the broker's rows
lag the exchange; a fill can be late, partial, unreported, or behind a call that
raised; adapters change under a tick; a crash falls between a fill and its row;
tokens die overnight and on every login. `PROJECT.json` lists each hazard at its
line with the properties that cover it.

## What is modelled

### LiveOrder: one order at the exchange

`LiveOrder` models `LiveBroker.execute` and everything `_execute_one` calls, for
a single-order request.

| State | Code |
|---|---|
| `pc`, `attempt`, `rung`, `st`, `kept`, `touch`, `hint` | where `_execute_one` stands and its locals: the row last read in the wait, the filled count carried over the cancel, the touch, the retry's `price_hint` |
| `request`, `answer` | the `BrokerOrder`; the `Fill` or `OrderExecutionError` |
| `ordersCount`, `ordersToday` | `_orders_count`, `_orders_day` |
| `orders[1]`, `orders[2]` | the first order and the cancel-and-replace: what was sent, what is at the exchange, and the last row shown of it |

Actions follow the control flow: `RailsRefuse`, `PlaceRaises`, `PlaceAccepted`
(rails, LIMIT at the touch or MARKET without one), `Poll` and `WaitExpires`
(`_await_terminal`), `Reprice` and `GoToMarket` (a rung), `Cancel`,
`PollAfterCancel`, `CancelUnconfirmed`, `RetryOnce` and `RecheckDisagrees`
(`_recheck_after_cancel`, `_retry_once`).

The environment is hostile: `Trade`, `Refuse` and `Pull` happen at any moment to
any working order; `place_order` may raise although the exchange took the order;
modify and cancel may be ignored; a status row may show any earlier count, an
empty row, a COMPLETE without a count, and a CANCELLED that hides a late trade
for `LagReads` reads. Two assumptions about the broker remain, both named: a
count never goes back, and a CANCELLED row misses a trade in at most one read
(`LagReads \in {0, 1}`), which is what one re-check can cover. With two such
reads the code's second look would not be enough.

Abstractions: a BUY stands for both sides; prices are ticks, 0 is "no price";
time is absent, so a deadline may pass after any number of reads.

### OrderIntent: what the engine is promised

The abstract order: units trade one at a time, never more than asked for; the
caller gets one answer, a fill of at least one and at most the traded units, or
an error. `LiveOrder!ImplementsIntent` maps it by
`want <- request.qty, traded <- orders[1].filled + orders[2].filled,
reply <- answer`. The abstract specification is what later modules (slices,
sessions) use in place of the ladder.

### RunGate: the live run

One LIVE-mode run on its account, with every thread that touches it.

| State | Code |
|---|---|
| `pc`, `mismatch` | the tick in its pool thread: `refresh` (with `_maybe_reconcile`), the gate of `_tick`, `run_decision`, `end_day` |
| `byHand` | the decision under way is no tick's but the owner's `/run-decision` |
| `broker`, `orderAdapter`, `readAdapter`, `bound` | `order_broker()`, `LiveBroker.adapter`, `quote_source.adapter`, and whether they are one object |
| `resumePending`, `reconcilePending`, `backoff` | flags of `LiveRun` |
| `quoteError`, `orderError`, `strategyError` | the three halts |
| `book`, `decisionDay`, `saved` | the portfolio (zero or one unit), `last_decision_day`, `AlgoRun.state` |
| `swap[w]`, `sweeping` | the login's daemon thread and the loop's self-heal or sweep, each at its next step |
| `session`, `armed`, `account` | the row of the account, and what the broker holds |

The tick is split where another thread can get between two of its steps:
`StartTick`, `SkipReconcile` / `ReadBook` / `ReadBookFails`, `Conclude`,
`SaveRefresh`, `Decide` / `NoDecision` (the gate), `NoOrder` / `PaperFill` /
`RealFill` / `RealFails` (the decision), `Persist`, `EndDay`, `MarkDay`.
`WriteRaises` is a database write that fails. The swap threads go through
`Promote`, `Retry`, `Sweep`, `Remint`, `Rebind`, `Pend`: the exchange of the
adapter and the setting of `reconcile_pending` are two steps, as they are two
statements of `_rebind_order_adapter` without a lock. `Crash` drops everything
in memory, `Recover` is `_rebuild`. The owner logs in, arms, disarms, trades by
hand, acknowledges halts, and has the run decide at once (`DecideByHand`): that
route looks at `reconcile_pending` and at no halt, hour or decided day, holds the
event loop until it is done, and leaves `last_decision_day` alone.

Observation variables say what a property needs and the code does not keep:
`verified` (the broker's book was compared since the last swap), `fresh` (the
comparison under way began after it), `raced` (the swap overlapped a tick or a
request), `excused` (the owner unbalanced the books, or an order went out
unverified or past a halt on unbalanced books), `decisions`, `disturbed`, `stale`.

Abstractions: one contract, at most one unit of it and one order per decision,
filled whole (LiveOrder is the order itself); the hourly throttle and the
failure backoff are a comparison that may be skipped; the decision time of a
daily run is a tick that may not decide; a tick and a swap do not last over the
night; one run per account; one login thread at a time. A request to decide finds
no tick under way: nothing in the code prevents that (there is no lock), and two
decisions at once on one book are what SliceBook's overlap of a slice and the
owner's list stands for. A sweep that finds nothing to do is left out.
`/refresh?decide=true` is the same request; the refresh it
begins with is left out.

### SliceBook: the book of one session

A decision is a list of orders, and the owner's hand makes such lists too. Each
order of a list is `LiveBroker.execute` on one side and a change of the
portfolio on the other; this module has both, and two threads that do it.

| State | Code |
|---|---|
| `lots`, `nextId` | every `Lot` opened, its id and its units (0 once closed); `Portfolio._ids` |
| `lots[b].log`, `.trail`, `.due` | what `session.transactions` and the Order table say of the lot, and the events a list has made and not yet handed over |
| `stops`, `managedBy`, `halted` | `StopBook._stops`, the session's `managed_by`, either halt |
| `stage`, `todo`, `order` | per thread: where it is, the actions left, the order out and its children |
| `settling` | `executor.broker` swapped for `_SettledPriceBroker` |
| `account`, `outside` | what the broker holds; what closed it but the run |

A slice is `StartSlice` (settlement, then the stops that fired), `Decide` (the
resolver's list), the orders, `EndSlice`. The owner's jobs are `Flatten`,
`ManualOrder`, `AdoptBrokerClose`, ended by `EndJob` with the handover. An order
is `Send`, children that fill or fail (`ChildFills`, `ChildFails`: the freeze
split, each child as OrderIntent promises, with a stray trade behind an error),
then `BookEntry` or `BookExit`. `Raise` is the exception out of any of them: it
differs between the stops, the actions and the owner's list, as in the code.

Abstractions: no prices, cash or charges; no override rules; a symbol is held
long or written short, never both.

### LoopSupervisor: who decides for a run

One run id, and everything that starts, stops or replaces what ticks it.

| State | Code |
|---|---|
| `row` | the `AlgoRun` row: status, archived, auto, saved book |
| `runs`, `task` | `manager.runs[id]`, `manager._tasks[id]` |
| `object`, `loops`, `ticks` | `LiveRun` objects, asyncio tasks, tick threads, forgotten ones included |
| `starts`, `recovery` | `_start_loop_on_loop` callbacks in the queue; the recovery thread |

A route is one step of the event loop (`Start`, `Stop`, `Archive`, `Delete`,
`Unarchive`, `Activate`, `Pause`, `Resume`, `Acknowledge`; `StopFails` when the
report or the row cannot be written), as are `StartFires`, `Watchdog`,
`LoopTicks`, `LoopResumes` (with the strategy's own stop) and `LoopDies`. A tick
thread decides, trades and saves in steps of its own and goes on when its loop
is cancelled. `Crash` and the `Recover...` steps are the process and its
recovery thread.

Abstractions: a book is a number of units and a decision enters one or leaves
all; the strategy sells (one that never does may be stopped holding). The owner's
`/run-decision`, a decision of no tick, is RunGate's.

### AccountBook: several runs of one account

One symbol, several runs, the broker's two reports of it: `holdings`, settled and
a day behind, and `positions`, the day's trades, which show yesterday's until
the session rolls (`rolled`). Adoption (`AdoptReads`, `AdoptCounts`,
`AdoptBooks`) and reconciliation (`ReconcileCounts`, `Compare`) are split where
another run's thread can get between the read and its use; so are a decision's
fill, its booking and its log (`Decide`, `BookTrade`, `LogTrade`). `Close`,
`Night`, `OpenMarket`, `Roll` are the calendar.

Abstractions: Dhan, whose two reports the code adds (for Kite the holdings win,
which is not modelled); one unit and one decision a run a day; reads succeed.

### PriceFeed: the streaming feed of an account

A `KiteTickerFeed` per login token (`ticker`, `known`, `cache`), the KiteTickers
made so far (`sockets`), the run that reads (`reader`), and the feed each run
holds (`source`). A read goes through `_ensure_ticker` (building and assigning
are two steps, without a lock), `ensure_subscribed` (resolve, then subscribe) and
`get` and `stale`. The socket thread connects, resubscribes, ticks and drops;
the event loop gives a run the feed of a new token (`FeedFor`).

Abstractions: a price is the time of its tick; a read is followed for one of its
symbols; KiteTicker reconnects by itself and loses what it is sent meanwhile.

### ConsoleJournal: a book that follows a cursor

A replay session of the options console. Every fill is a row of a journal, and
the book is what the rows up to the cursor come to.

| State | Code |
|---|---|
| `journal`, `clock`, `group` | `self.journal` with the rows an edit replaced, the cursor, `_group` |
| `book` | `legs`, `_leg_seq` and the number of `fills` they came from |
| `file`, `key` | `<id>.json` as `registry.persist` wrote it, `_change_key` |

`Seek` is `_rebuild_to` (with `_settle_expired` and the shortcut of
`_replay_book`), `Act` an action of one item or a whole basket, a flatten or a
rescale, applied item by item as `_apply` does, edits in place of
`_rewrite_fresh` included; `UndoLast`, `DeleteLeg`, `TruncateAfterCursor` (fork)
and `ResetBook` take back; `Rehydrate` is a restart or an eviction and the
reload. Every request that succeeds ends in `Notify`, the write-through. An item
without a price refuses its whole action, but a flatten is staged unpriced and
closes the legs that have a price, none perhaps; it and the switch of a leg for
the payoff are then actions that raise `group` and make no row (the empty action
of `Actions`).

Abstractions: no prices, so no P&L, cycles and alerts; lots of one size;
contracts of one expiry; requests one at a time (the routes run in a thread pool
without a lock on the session, so a double click may overlap: not modelled);
writes of the file succeed (the registry logs one that fails and goes on, with the
key already moved: not modelled); what the switch of a leg switches.

**Excuse flags.** The four modules before it keep a set `disturbed` of what has come
between so far: named races and failures of which the code, read closely, does
not hold its promise. A property says which of them break it (`Without({...})`)
and so says two things: that these do (each is needed: without it TLC finds a
counterexample) and that nothing else does. The disagreements below list them, and
so do the notes of the hazards in `PROJECT.json`: a hazard that a property excuses
is one the code is known to have, not one it is shown to be free of.

## Runs

| Run | Module | Question | Result |
|---|---|---|---|
| `order_safety` | LiveOrder | four safety properties of two consecutive orders, the refinement of OrderIntent, and that `execute` always comes back | holds |
| `caller_limit` | LiveOrder | does a caller's limit bound every order? | violated |
| `run_gate` | RunGate | a once-a-day run: gate, stock, saved book, one decision a day, under a crash, a login, disarming or decision by hand, and a fault | holds |
| `rollover` | RunGate | a tick-driven run over a night that kills the token: does the order path end on the new token, does the gate lift? | holds |
| `slice_book` | SliceBook | two slices, one intervention of the owner, one fault, restart or overlap: lots, stops, both logs, the account, the handover | holds |
| `supervisor` | LoopSupervisor | four acts of the owner, a restart, a failure: one loop, one decider, row and account true, dead loops come back, a pause comes to rest | holds |
| `account_book` | AccountBook | two runs of an account over nights: nothing claimed twice, no false halt, what the owner adds is adopted | holds |
| `console` | ConsoleJournal | three items on two contracts over an expiry, cursor both ways, a deletion, fork or reload: cursor, expiry, undo, file | holds |
| `price_feed` | PriceFeed | two readers, a socket thread, a lost connection, a login: fresh prices, a full subscription, one socket | holds |
| `rebind_race` | RunGate | is every decision of a live run on a verified book? | violated |
| `bought_twice` | RunGate | does the restart gate stop a buy from being repeated? | violated |
| `disarmed` | RunGate | do decisions stop trading when the account is disarmed? | violated |

**What the properties say.**
`ReplacesOnlyTheDead`: the retry exists only above an order dead and empty *at
the exchange*. `FillsAreReal`: so a call never trades more than it was asked
for, late trades included (`NoOverfill`), and never answers with units that did
not trade (`BookedIsReal`). `NeverAbandonsWorking`: no working order is left
behind uncancelled. `WithinItsLimits`: one re-price a rung and none on the
retry, every priced order within the caller's limit, the day's cap counting the
retries. `VerifiedUnlessRaced`: only a swap that overlaps a
tick lets a decision past the comparison, the owner's included. `NeverOversold`: the
run alone never takes the account short: what it still believes to hold after a lost
answer or a crash is compared before it is sold again, unless the owner has it decide
past the halt (`Unread`). `RestartLosesOneDecision`: outside
a decision and a refused write, the saved book is the book.
`DecidesOnceUndisturbed`: one decision a day of its own without crash or failed
write, whatever is asked for besides.
`OrderPathConverges`, `PendingClears`: see fairness.

SliceBook: `StopsGuardTheirLots` relates the ids that stops and strategies keep
to the lots they were given for, over closes and restarts. `LogsMatchBook`:
every unit of every lot is accounted for by the session's log and by the order
table, through lists that fail half-way on
each of the three paths. `AccountMatchesBook`: children and refusals included,
the broker holds what the book does plus what is in flight. `HandedOver`,
`FlattenLeavesNothing`: after the owner's hand the strategy does not decide, and
a flatten that ends leaves nothing. LoopSupervisor: `NoOrphanLoop`, `OneDecider`
(no second loop, no second tick), `BookIsAccount` (no trade is lost to a loop
nobody owns), `RowTellsTheTruth` (what a restart would recover is what ran).
AccountBook: `NoPhantomUnits` (the runs never claim more than the account has),
`HaltsAreReal` (no mismatch is the product of the T+1 arithmetic). PriceFeed:
`ServedFresh`, `KnownIsSubscribed` (a connected feed streams what it knows, so
that no symbol is silently left to REST), `NoStraySocket`.
ConsoleJournal: `RewindUnwinds` (the book is what the journal says at the cursor,
however the cursor came there), `NothingOutlivesExpiry`, `UndoTakesBackTheAction`
(undo after an action that made a row gives the same rows back), `FileKeepsTheTrades` (what a
reload would rebuild is what was traded). Their excuses are states, not flags:
rows that do nothing (`EveryRowCounts`), trades from 15:30 of the expiry day on
(`InHours`), a contract held on both sides (`OneSided`), settlements derived
before the last trade (`SettledAfresh`), and a close that takes more than its leg
has left (`NoneOvershoots`): no button makes one, but a trade made behind a later
close may leave that close too little, and the settlement, which counts every
close in full, is then too small. That takes more items than the instance has;
the proof of `NothingOutlivesExpiry` did not go through without it. `unseen`
alone is an observation.

**Bounds and why they are enough.**

| Run | Instance | Why |
|---|---|---|
| `order_safety`, `caller_limit` | quantities 1 and 2, touches 1 and 3, limits 2 and 4, a two-rung ladder (1, 3 ticks), cap 2, notional 4, two requests | two units give partial fills; a touch below and above a limit makes the clamp bite both ways; two rungs tell entry, exit and retry apart; the cap of 2 is reached by a retry in the middle of a request, and by two requests |
| `run_gate` | `Kinds = {FALSE}`, 2 days, 1 owner act, 1 crash, 1 fault, account within -1..1 | a crash plus a fault is the smallest history in which a fill can be lost twice; two days are needed for the daily flag to roll; an account of -1..1 leaves room to oversell (`bought_twice` has -2..2, to buy twice); one act of the owner keeps the run at two million states: a login *and* a decision by hand, whose overlap makes `raced` true, are in the theorems only |
| `rollover` | `Kinds = {TRUE}`, 2 days, 1 owner act, no crash, no fault | one night kills the token, one login replaces it |
| `slice_book` | a stock bought and an option written, entries of 2, freeze 1, lists of 2, 2 lots at most, 2 slices, 1 job of the owner, 1 fault | two units give partial exits, partial fills and two children; two actions give a failure after a fill; two slices let the second meet what the first or the owner left |
| `supervisor` | 3 objects, 3 loops, 2 ticks, 4 acts, 1 crash, 1 failure, 1 unit, one kind of disturbance at a time | a loop too many needs two starts, a third finds what they left; four acts are start, pause, resume, stop; one kind of disturbance shows that each excuse is broken by nothing else |
| `account_book` | 2 runs live or on paper, cap 2, 2 units, 1 act of the owner, one kind of disturbance | two runs are enough to adopt the same unit; the calendar repeats, so nights are not bounded |
| `price_feed` | 2 readers, 2 symbols, staleness 0, 2 instants, 2 tokens, 2 sockets, 1 drop; readers are symmetric | two readers build a ticker at once; the second token replaces the feed; a stale price needs one instant |
| `console` | 2 contracts, orders of 1 lot, legs resized up to 2, four cursor positions (before the expiry day, on it before and after 15:30, the day after), 3 items (an action without one counts as one), 1 deletion, fork, reset or reload; strikes are symmetric | an edit, the leg it hides and a later leg are three items; an action that fails half-way takes five and is reached only by TLC's random simulation at larger bounds, where the same properties hold |
| the three violations | as above, with the crash or the act of the owner they need | counterexamples are found within these |

The theorems remove these bounds for every safety invariant of every module; what
remains bounded is liveness and `UndoTakesBackTheAction`. Deadlock checking is off in the runs whose behaviour
is bounded by days, acts or sockets and may really end; `order_safety`,
`caller_limit` and `console` keep it on.

**Fairness.** `LiveOrder!FairSpec` assumes that the order thread moves on, and
that every poll loop runs into its deadline (`_await_terminal` loops on
`monotonic() < deadline`): weak fairness of the broker's steps, of `WaitExpires`
and of `CancelUnconfirmed`. Nothing is assumed of the exchange.
`RunGate!FairSpec` assumes weak fairness of the tick's, the request's and the swap's own steps
(threads run to their end), strong fairness of `StartTick` and `Sweep` (the loop
and the maintenance task wake up on a timer, again and again, though a swap or a
tick may be under way at that moment), and strong fairness of `ReadBook`: a
broker asked for ever answers for once. Both liveness properties are conditional
on `<>[]Calm`: the process stays up, in the session, on a valid token and an
armed account. Without the last assumption a run may well stay behind its gate
for ever, and should.

`LoopSupervisor!Spec` assumes weak fairness of the event loop's callbacks and of
the tick and recovery threads; the watchdog's is its five-minute timer. The
owner and the failures may stay away. `AccountBook!Spec` assumes that the
calendar goes on, that a tick that has begun ends, and strong fairness of
`AdoptReads`: a trading day is longer than the five minutes of its throttle
(`TopUpsAreAdopted` says nothing any more of a behaviour that has had a race).
SliceBook, PriceFeed and ConsoleJournal state no liveness.

**Mutants.** Every property of a passing run has a mutant, an operator next to
the definition it would replace, that changes it as a plausible slip in the code
would: the retry without the second read, a replace after an unconfirmed cancel,
a clamp missing on the rungs, a recovery that injects real orders without the
gate, a comparison of common contracts only, a token check through the quote
path. TLC finds the property violated with each one.

## What is proved

`LiveOrderProofs` (assumption `OrderAssumption`: sets of positive numbers,
a ladder of any length, `LagReads \in {0, 1}`), `RunGateProofs` (`GateAssumption`:
the bounds are natural numbers, at least one day), `LoopSupervisorProofs`
(`SupervisorAssumption`: any sets of objects, loops and threads, numbers as
bounds), `PriceFeedProofs` (`FeedAssumption`: any readers and symbols),
`AccountBookProofs` (`AccountAssumption`: any finite set of runs, any cap),
`SliceBookProofs` (`BookAssumption`: any symbols, at least one, any of them
written or options, positive sizes and freeze) and `ConsoleJournalProofs`
(`JournalAssumption`: any contracts, positive lots, at least one minute, the
expiry day before its 15:30 before the night). `Sums` and `SumLemmas` hold the
sum over a finite set that the last three count units with, and its theory.

| Theorem | Statement |
|---|---|
| `LiveOrderProofs!TypeCorrect` | `Spec => []TypeOK` |
| `NeverDoubles`, `FillsReal`, `NeverAbandons`, `LimitsHold` | the four safety properties of `order_safety`; two of them from `NeverOverfills` and `BooksOnlyTrades`, and from `LimitsAreKept`, `ChaseIsBounded` and `CapHolds` |
| `Refinement` | `Spec => ImplementsIntent` |
| `RunGateProofs!Types` | `Spec => []TypeOK` |
| `Gated`, `NotOversold`, `RestartSafe`, `DailyOnce` | the four safety properties of `run_gate` |
| `LoopSupervisorProofs!TypeCorrect`, `OneLoop`, `OneTick`, `RowIsRight`, `AccountIsBook` | `TypeOK` and the four safety properties of `supervisor` |
| `SliceBookProofs!TypeCorrect`, `StopsGuard`, `LogsAccount`, `AccountAgrees`, `HandsOver`, `FlattenEmpties` | `TypeOK` and the five safety properties of `slice_book` |
| `AccountBookProofs!TypeCorrect`, `NothingPhantom`, `HaltsReal` | `TypeOK` and the two safety properties of `account_book` |
| `PriceFeedProofs!TypeCorrect`, `FreshPrices`, `OneConnection`, `KnownIsStreamed` | `TypeOK` and the three safety properties of `price_feed` |
| `ConsoleJournalProofs!TypeCorrect`, `RestartKeepsTheTrades`, `RewindsUnwind`, `ExpiryEndsAll` | `TypeOK` and the three other invariants of `console` |

**LiveOrder.** `ReplacesOnlyTheDead` is not inductive: when the retry is sent,
nothing in it says why the first order is dead. The invariant `IInv` adds what
the code knows at each point: an order shown in a terminal row is no longer live
(`OrdersOK`); at the re-check the first row was an empty CANCELLED, so the
second one, at `LagReads <= 1`, has the exchange's own count (`CallOK`,
`RowFacts`); from the second attempt on the first order is dead and empty
(`AttemptsOK`); the rung counter is ahead of the re-prices (`LadderOK`).
`NextInv` has one lemma per action. The cap and the limit have invariants of
their own on top (`CapInv`, `LimitStep`); the refinement maps each action to a
step of OrderIntent or a stutter: `Execute` to `Ask`, `Trade` to `Trade`, the
answers to `AnswerFill` or `AnswerError`.

**RunGate.** Four inductive invariants, each one step per action:

- `GateInv`: `VerifiedUnlessRaced` needs that an unverified, unraced live run is
  pending, or has a swap about to make it so with *no tick under way*
  (`PendingUnlessRaced`: the loop cannot start one during its own swap, and a
  tick started during the login thread's is a race); that a comparison begun
  before a swap cannot pass for a fresh one (`ComparesFresh`); and that a
  process that is down has no thread left (`DownIdle`).
- `StockInv`: `NeverOversold` needs that a verified, live, unhalted run holds no
  more than its account (`CoveredOnceVerified`), carried through the comparison
  (`CoveredByComparison`, which `ComparesLive` makes of a live run). An order past
  a halt is covered if the books are balanced, and excused if not. A restart
  resets `verified`, so the covering is not claimed until it is established
  again.
- `RestartLosesOneDecision` is inductive.
- `DailyInv`: a completed decision is about to be marked or is
  (`MarkedOnceDecided`), so the decision of a tick under way is the first
  (`DecidesFirst`), and a process down since an earlier day has decided nothing
  today (`DownSinceYesterday`).

**LoopSupervisor.** A tower of invariants, each with one step per action.
`LoopInv` says which objects loops, ticks and the recovery can hold, so that
every object handed out as free really is: with it, `NoOrphanLoop`. `TickInv`
ties a deciding tick to a loop that awaits it or to a stop that came while it
ran: `OneDecider`. `RowInv` carries `RowTellsTheTruth` through the recovery,
which is where row and manager may differ. `BookInv` has the account agree with
the book at every step of a tick, the order it is about to send included.

**PriceFeed.** `FreshInv` (a reader at `stale` holds the last tick of its symbol,
or was overtaken) gives `ServedFresh`. `NoStraySocket` needs `SocketInv`: without
the two races at most one thread builds, and every open socket is accounted for.
`KnownIsSubscribed` needs `SentInv`: what a feed knows and its connected socket
does not stream is in the hands of a thread about to subscribe it, or of the
callback about to resubscribe.

**SliceBook.** A tower on `ThreadInv`, which says what two threads without a lock
can hold: one at rest has nothing out and nothing unwritten, an order out is of
the action whose turn it is (`OrdersAreActions`), the owner's lists only enter or
only close (`HandLists`), ids given are below `nextId`. On it:

- `LotInv`: without a restart the id is the place in `lots` (`NamedByBirth`), so
  an attach or a stop can name no later lot. `IdsAreUnique` holds with restarts.
- `BookInv`: while nobody overlaps, a list never asks a lot for more than it has
  and nothing earlier in the list touches that lot (`ExitsFit`), so the order
  out finds what it was sent for (`OrdersFit`). This is the invariant that
  relates a list made at one time to the book at another. From it: `LogInv`
  (what leaves a lot is what the event says, `EventIsExit`).
- `AccountInv`: `AccountMatchesBook` compares a sum over lots with the broker.
  It needs that an order which has not come back short has filled or is still
  to send what it asked for (`OrdersFillWhole`), that a symbol being adopted is
  gone from the account (`SettlingIsGone`) and that its lots are all to be
  closed (`ClosingOut`), for the moment when the adoption declares it normal.
- `FlattenInv`: each open lot still has its action to come (`ClosingOut`).
- `HandedInv`: while the strategy has a book that the owner's hand was in, the
  owner's list is under way and has something unwritten (`HandedSoon`), for
  which it must not have entered what it is to exit (`HandExitsOnly`).

**AccountBook.** `DayInv` says who has traded today, who looks, and that nobody
looks while another trades unless the ticks overlapped. `ClaimInv` carries what a
thread has read to the moment it books (`ReadIsThere`); `HaltInv` carries what it
has counted (`CountHolds`), and `PositionsAreTrades` makes yesterday's positions,
which the session has not rolled, harmless.

**ConsoleJournal.** `TypeInv` is the type with what the replay needs of it: the
journal is in order, its rows and the rows an edit carries are well formed, and
a leg stands on a row that opened it, whose place an edit takes. On it:

- `FileKeepsTheTrades` by `KeyInv`: the row count in the registry's key is that
  of the journal it last looked at, so an unchanged count means an unchanged
  `Restored` journal, unless an edit or an error came between (`unseen`);
  settlements do not touch `Restored`, and restoring twice is restoring once.
- `RewindUnwinds` is inductive on `TypeInv`. A seek only adds settlements, which
  `InHours` puts behind every trade (`SettledExtends`). When every row counts,
  each prefix makes exactly one fill a row (`CountingIs`), so a book that is kept
  for its fill count came from the same rows. An action replays, unless it
  failed; it fails over a leg that is gone, and a leg its list was aimed at
  (`ActionsAim`) goes only when an edit in place has rebuilt the book (`Aimed`,
  `FailsRight`), so the book it leaves is a replay as well.
- `NothingOutlivesExpiry` needs no induction over steps of its own. When no close
  overshoots, the lots a contract's legs hold are the net of its rows
  (`HeldIsNet`); one-sided, they are one leg, and its settlement, of exactly that
  net, empties it (`SettlementEmpties`, over all contracts `SettlementsEmpty`).
  The whole journal is what the cursor sees from the next day on (`WholeReplay`).

What the replay of a journal computes is an induction over rows; like those over
sums it is done by minimal counterexample.

**Sums.** The three books total units with `SumOver`, a fold, and what a fold
computes is an induction over data, whose theorems in the library take a
predicate. `SumLemmas` does the induction by minimal counterexample instead: a
nonempty set of wrong subsets has a minimal one (`MinimalSubset`, from the
library's `WFMin`), taking one element out of it gives a right one, and the
recursion equation a contradiction. From the existence of the recursive function
on (`SumsExist`) every fact used is proved that way: a sum does not depend on the
order (`SumRemove`), one changed term changes it by as much (`SumChange`).

Only model-checked:

- liveness (`AlwaysAnswers`, `OrderPathConverges`, `PendingClears`,
  `DeadLoopsComeBack`, `PausedGoesQuiet`, `TopUpsAreAdopted`), which rests on
  fairness and ENABLED and is out of TLAPS's reach here;
- the four counterexamples, which are behaviours;
- `UndoTakesBackTheAction`, an action property that compares two journals as
  bags, an edit's carried rows included. Its proof is planned below.

## Disagreements between code and documents

Shown by a run:

1. `caller_limit`: a LIMIT order whose touch cannot be read is turned into a
   MARKET order by the ladder (`live_broker.py:421`), though the header promises
   that every rung is clamped to the caller's limit.
2. `rebind_race`: between the swap of the adapter and the pending flag
   (`manager.py:2064-2065`), or past the gate, a decision runs unverified.
3. `bought_twice`: the comparison looks only at contracts the run holds
   (`manager.py:2209-2214`), so a fill lost with the process is not seen and the
   buy is repeated. The comments and `docs/ARCHITECTURE.md` say it is detected.
   The opposite loss, a sale, *is* detected: that is `NeverOversold`.
4. `disarmed`: disarming writes the account row; adapters in use stay armed.

Read while modelling, without a run of their own; where a model shows one, the
excuse flag of its property is named:

- **Halts** do not stop a decision the owner asks for: `/run-decision` and
  `/refresh?decide=true` look at the pending comparison alone (`Unread` of
  `NeverOversold`). Nor are they saved; two passages of `docs/ARCHITECTURE.md` describe an
  older recovery and an older ladder; a partial count the broker has shown is
  forgotten when all later reads fail; a crash between the last write of the day
  and the mark of the day lets a daily run decide again (`disturbed` of
  `DecidesOnceUndisturbed`).
- **Book** (SliceBook): the execution layer books the requested units of a
  partial fill (`partial`); a stop exit that fails loses the events before it
  (`stop`), a manual action that fails loses its own and the handover (`hand`);
  adopting a broker close swaps the broker under a running tick (`overlap`).
- **Supervision** (LoopSupervisor): a stop or pause in the middle of a tick
  leaves that tick trading (`late`); archive and delete do not look at the book
  (`unguarded`); recovery does not look again at what the routes have done
  meanwhile (`activated`, `early`, `removedEarly`); a stop whose report fails
  leaves a row that says running (`halfStopped`); `reactivate`'s docstring
  describes an older finalization.
- **Account** (AccountBook): adoption and reconciliation differ in whose trades
  and whose lots they count (`sibling`, paper runs), against the comment between
  them.
- **Feed** (PriceFeed): price and age are read apart (`overtaken`), and a ticker
  may be built twice or after the feed was stopped (`raced`, `revived`).
- **Console** (ConsoleJournal): a rewind past a fill keeps its leg when rows and
  fills count the same (`EveryRowCounts`); an edit in place is not written
  (`unseen`); a contract is settled once (`SettledAfresh`) and on one side
  (`OneSided`), though a roll may leave two, and for the net of all closes
  (`NoneOvershoots`), though one may have found too little; an action that makes no
  row still raises the group, so that Undo right after it takes back the action
  before (`journal' # journal` in `UndoTakesBackTheAction`); a reload forgets what edits
  replaced; a rebuild sizes legs by the selected series' lot.

All are in `PROJECT.json` with their lines.

## Plan

Done: LiveOrder over OrderIntent, RunGate, SliceBook, LoopSupervisor,
AccountBook, PriceFeed, ConsoleJournal, with the proofs above: every safety
invariant of every run. Left, in order:

1. `RateGovernor`: the order slots of an account, over a clock.
2. RunGate: the owner arming late, and what the owner has been *told* when a
   mismatch meets an unacknowledged error.
3. AccountBook: the accounts whose holdings win over their positions.
4. A proof of `UndoTakesBackTheAction`. Two parts: that undo gives back, row by
   row, as many as there were (counts of a row over insertions and edits, with
   the sums above); and that a rescale never edits what it has edited already,
   for which its items must come in the order of their legs' ids, and an edit in
   place must not raise the id of any leg (a comparison of two replays).
5. Replay and capture jobs: their cancel and resume.

## What stays outside

- **Strategies**: forty sets of trading rules; their decisions are
  nondeterministic inputs of the models.
- **Backtest engine, option mathematics, indicators, margin**: floating-point
  computation without a protocol.
- **The console's view of a live run** (`console_live.py`): it keeps a staged basket
  but no book of its own, and commits through the manual orders of SliceBook.
- **Research, run analytics, replay and capture jobs, imports,
  bids, portfolio sync**: single-user tools and batch jobs over recorded data or
  external rows. The replay jobs are a candidate for a later extension.
- **Market data, notifications, persistence schema, encryption, web clients**:
  I/O, best-effort output, declarations, user interface.
- **Prices and money** in the live core: amounts appear only where a property
  tells them apart (ticks of the ladder, notional of the rails).
