------------------------------ MODULE LiveOrder ------------------------------
(***************************************************************************)
(* One LiveBroker (brokers/live_broker.py) working the orders of one run:  *)
(* the rails, LIMIT at the touch, the ladder of protected re-prices, the   *)
(* cancel, the re-check and the single cancel-and-replace, against an      *)
(* exchange that trades, refuses and pulls orders whenever it likes and a  *)
(* broker back end whose status rows lag the exchange.                     *)
(*                                                                         *)
(* Abstractions.  A BUY is modelled; a SELL is its mirror image.  A price  *)
(* is a number of ticks, 0 is "no price".  A poll loop is any number of    *)
(* status reads followed, perhaps, by the deadline.  A request above the   *)
(* exchange freeze is split before it gets here.  The tick snap, the       *)
(* traces and the notifications are left out.                              *)
(***************************************************************************)
EXTENDS Integers

CONSTANTS
  Quantities,               \* unit counts a caller asks for
  Touches,                  \* prices a touch read may return
  Limits,                   \* limits a caller may set
  Ladder,                   \* ticks rung 1, 2, ... crosses the touch by
  Rungs,                    \* number of rungs of the full ladder
  RetryAfterCancel,         \* settings.live_retry_after_cancel
  MaxOrdersPerDay,          \* settings.live_max_orders_per_day
  MaxNotional,              \* settings.live_max_order_notional
  LagReads,                 \* CANCELLED rows that may still hide a late trade
  MaxRequests               \* bound: requests in a behaviour

ASSUME OrderAssumption ==
  /\ Quantities \subseteq Nat \ {0}
  /\ Touches \subseteq Nat \ {0}
  /\ Limits \subseteq Nat \ {0}
  /\ Rungs \in Nat \ {0}
  /\ Ladder \in [1..Rungs -> Nat]
  /\ RetryAfterCancel \in BOOLEAN
  /\ MaxOrdersPerDay \in Nat
  /\ MaxNotional \in Nat
  /\ LagReads \in {0, 1}    \* what one re-check can cover
  /\ MaxRequests \in Nat

VARIABLES
  \* the call in progress
  pc,                       \* where _execute_one stands
  request,                  \* the BrokerOrder it was called with
  attempt,                  \* 1, or 2 for the cancel-and-replace
  rung,                     \* rung of the ladder being waited on
  touch,                    \* the touch this attempt started from
  hint,                     \* price_hint of the second attempt
  st,                       \* the status row last read in this wait
  kept,                     \* filled count carried over the cancel
  answer,                   \* what execute returned or raised
  \* the LiveBroker object
  ordersCount,              \* _orders_count
  ordersToday,              \* _orders_day is today
  \* the world
  orders,                   \* per attempt, the order at the broker
  marketOpen,
  asked,                    \* requests so far (bound)
  acksToday                 \* observation: order ids received today

callVars == <<request, attempt, rung, touch, hint, kept, answer>>
railVars == <<ordersCount, ordersToday, acksToday>>
worldVars == <<marketOpen, asked>>
vars == <<pc, request, attempt, rung, touch, hint, st, kept, answer,
          ordersCount, ordersToday, orders, marketOpen, asked, acksToday>>

NoPrice == 0
Attempts == 1..2
Terminal == {"COMPLETE", "REJECTED", "CANCELLED"}

Row(s, f) == [status |-> s, filled |-> f]
Unknown == Row("UNKNOWN", 0)

NoAnswer == [kind |-> "none", units |-> 0]
Failed == [kind |-> "error", units |-> 0]
Filled(k) == [kind |-> "fill", units |-> k]

\* An order as the broker and the exchange know it.  "lost": the exchange may
\* have it, but the call that placed it raised and no id came back.
NoOrder == [sent |-> "no", kind |-> "LIMIT", placed |-> NoPrice,
            price |-> NoPrice, live |-> FALSE, filled |-> 0,
            rejected |-> FALSE, cancelled |-> FALSE, shown |-> Unknown,
            empties |-> 0, rungs |-> 0]

\* A LIMIT when there is a price to give it, a MARKET order otherwise.
NewOrder(sent, p) ==
  [NoOrder EXCEPT !.sent = sent, !.live = TRUE, !.placed = p, !.price = p,
                  !.kind = IF p = NoPrice THEN "MARKET" ELSE "LIMIT"]

\* A BUY never pays above the caller's limit.
Clamp(p) ==
  IF request.limit # NoPrice /\ (p = NoPrice \/ p > request.limit)
  THEN request.limit ELSE p

\* The price an attempt is placed at: the hint, else the touch, clamped.
PlacePrice(t) == Clamp(IF hint # NoPrice THEN hint ELSE t)

\* Mutant of RungsOf: an exit gets a rung beyond the ladder.
RungsOfOneTooMany(a) ==
  IF a > 1 THEN 0 ELSE IF request.reduceOnly THEN Rungs + 1 ELSE 1

\* An exit walks the whole ladder, an entry its first rung, a retry none.
RungsOf(a) == IF a > 1 THEN 0 ELSE IF request.reduceOnly THEN Rungs ELSE 1

\* Mutant of Protected: the rung's price is not clamped.
ProtectedUnclamped(i, base) == IF base = NoPrice THEN NoPrice ELSE base + Ladder[i]

\* The protected price of a rung; nothing when there is no price basis.
Protected(i, base) == IF base = NoPrice THEN NoPrice ELSE Clamp(base + Ladder[i])

\* A fresh touch, or the one the attempt started from.
Basis(fresh) == IF fresh # NoPrice THEN fresh ELSE touch

-----------------------------------------------------------------------------
(* What order_status may return for an order.  A count never goes back and *)
(* a terminal row is final.  A CANCELLED row may miss trades of the        *)
(* exchange, for LagReads reads; a COMPLETE row may come without a count,  *)
(* and an answer may be empty.                                             *)

OpenRows(o) ==
  IF o.shown.status \in Terminal THEN {}
  ELSE {Row("OPEN", f) : f \in o.shown.filled..o.filled}

CompleteRows(o) ==
  IF o.filled = request.qty
  THEN {Row("COMPLETE", o.filled), Row("COMPLETE", 0)} ELSE {}

RejectedRows(o) == IF o.rejected THEN {Row("REJECTED", 0)} ELSE {}

CancelledRows(o) ==
  IF o.live \/ o.rejected \/ (o.filled = request.qty /\ ~o.cancelled) THEN {}
  ELSE {Row("CANCELLED", f) : f \in
         {g \in o.shown.filled..o.filled :
            g < request.qty /\ (o.empties >= LagReads => g = o.filled)}}

Rows(o) == OpenRows(o) \cup CompleteRows(o) \cup RejectedRows(o)
                       \cup CancelledRows(o) \cup {Unknown}

\* The attempt's order after its row v has been read.
Read(v) ==
  IF v = Unknown THEN UNCHANGED orders
  ELSE orders' = [orders EXCEPT ![attempt].shown = v,
         ![attempt].empties = IF v.status = "CANCELLED" THEN @ + 1 ELSE @]

-----------------------------------------------------------------------------
Init ==
  /\ pc = "idle"
  /\ request = [qty |-> 0, reduceOnly |-> FALSE, limit |-> NoPrice]
  /\ attempt = 1 /\ rung = 0 /\ touch = NoPrice /\ hint = NoPrice
  /\ st = Unknown /\ kept = 0
  /\ answer = Failed
  /\ ordersCount = 0 /\ ordersToday = FALSE
  /\ orders = [a \in Attempts |-> NoOrder]
  /\ marketOpen = TRUE
  /\ asked = 0 /\ acksToday = 0

\* The engine calls execute with one order.
Execute(q, exit, lim) ==
  /\ pc = "idle"
  /\ asked < MaxRequests
  /\ asked' = asked + 1
  /\ request' = [qty |-> q, reduceOnly |-> exit, limit |-> lim]
  /\ pc' = "place"
  /\ attempt' = 1 /\ rung' = 0 /\ touch' = NoPrice /\ hint' = NoPrice
  /\ st' = Unknown /\ kept' = 0
  /\ answer' = NoAnswer
  /\ orders' = [a \in Attempts |-> NoOrder]
  /\ UNCHANGED <<railVars, marketOpen>>

Answer(r) ==
  /\ answer' = r
  /\ pc' = "idle"

-----------------------------------------------------------------------------
(* Rails and placement. *)

\* _check_rails counts within the day: a new day starts from zero.
CountToday == IF ordersToday THEN ordersCount ELSE 0

RailsPass(t) ==
  /\ marketOpen
  /\ CountToday < MaxOrdersPerDay
  /\ t # NoPrice => t * request.qty <= MaxNotional

\* The day counter rolls once the market-hours check is behind it.
RollDay(placed) ==
  /\ ordersCount' = (IF marketOpen THEN CountToday ELSE ordersCount)
                      + (IF placed THEN 1 ELSE 0)
  /\ ordersToday' = (ordersToday \/ marketOpen)
  /\ acksToday' = acksToday + (IF placed THEN 1 ELSE 0)

RailsRefuse(t) ==
  /\ pc = "place"
  /\ ~RailsPass(t)
  /\ RollDay(FALSE)
  /\ Answer(Failed)
  /\ UNCHANGED <<request, attempt, rung, touch, hint, st, kept, orders, worldVars>>

\* place_order raises: the order never arrived, or the exchange has it and
\* the response was lost.  The day counter does not move.
PlaceRaises(t) ==
  /\ pc = "place"
  /\ RailsPass(t)
  /\ \/ UNCHANGED orders
     \/ orders' = [orders EXCEPT ![attempt] = NewOrder("lost", PlacePrice(t))]
  /\ RollDay(FALSE)
  /\ Answer(Failed)
  /\ UNCHANGED <<request, attempt, rung, touch, hint, st, kept, worldVars>>

PlaceAccepted(t) ==
  /\ pc = "place"
  /\ RailsPass(t)
  /\ orders' = [orders EXCEPT ![attempt] = NewOrder("acked", PlacePrice(t))]
  /\ RollDay(TRUE)
  /\ touch' = t
  /\ st' = Unknown
  /\ pc' = "wait"
  /\ UNCHANGED <<request, attempt, rung, hint, kept, answer, worldVars>>

-----------------------------------------------------------------------------
(* Waiting for a terminal row, and walking the ladder when none comes. *)

BookedUnits(v) == IF v.filled > 0 THEN v.filled ELSE request.qty

\* A terminal row in the first wait or on a rung.
Outcome(v) ==
  IF v.status = "COMPLETE" THEN Filled(BookedUnits(v))
  ELSE IF v.filled > 0 THEN Filled(v.filled) ELSE Failed

Poll ==
  /\ pc \in {"wait", "rungWait"}
  /\ \E v \in Rows(orders[attempt]) :
       /\ Read(v)
       /\ st' = v
       /\ IF v.status \in Terminal
          THEN Answer(Outcome(v)) ELSE UNCHANGED <<pc, answer>>
  /\ UNCHANGED <<request, attempt, rung, touch, hint, kept, railVars, worldVars>>

\* Mutant of WaitExpires: a partial is answered while its rest still works.
WaitExpiresOnPartial ==
  /\ pc \in {"wait", "rungWait"}
  /\ st.filled > 0
  /\ Answer(Filled(st.filled))
  /\ UNCHANGED <<request, attempt, rung, touch, hint, st, kept, orders,
                 railVars, worldVars>>

\* Mutant of WaitExpires: the last rung is tried again and again.
WaitExpiresForever ==
  /\ pc \in {"wait", "rungWait"}
  /\ IF orders[attempt].placed # NoPrice /\ RungsOf(attempt) > 0
     THEN /\ pc' = "escalate"
          /\ rung' = IF rung < RungsOf(attempt) THEN rung + 1 ELSE rung
     ELSE pc' = "cancel" /\ UNCHANGED rung
  /\ UNCHANGED <<request, attempt, touch, hint, st, kept, answer, orders,
                 railVars, worldVars>>

\* The deadline passes: the next rung, or the cancel when none is left.
WaitExpires ==
  /\ pc \in {"wait", "rungWait"}
  /\ IF orders[attempt].placed # NoPrice /\ rung < RungsOf(attempt)
     THEN pc' = "escalate" /\ rung' = rung + 1
     ELSE pc' = "cancel" /\ UNCHANGED rung
  /\ UNCHANGED <<request, attempt, touch, hint, st, kept, answer, orders,
                 railVars, worldVars>>

\* A modify that reaches a working order re-prices it; one that raises, or
\* that the broker ignores, is swallowed.
Modify(kind, p) ==
  \/ UNCHANGED orders
  \/ /\ orders[attempt].live
     /\ orders' = [orders EXCEPT ![attempt].kind = kind, ![attempt].price = p,
                                 ![attempt].rungs = @ + 1]

\* A rung with a price basis.  Resting at the caller's limit already, it
\* only waits.
Reprice(fresh) ==
  LET want == Protected(rung, Basis(fresh)) IN
  /\ pc = "escalate"
  /\ Basis(fresh) # NoPrice
  /\ IF request.limit # NoPrice /\ want = orders[attempt].placed
     THEN UNCHANGED orders ELSE Modify("LIMIT", want)
  /\ pc' = "rungWait"
  /\ st' = Unknown
  /\ UNCHANGED <<callVars, railVars, worldVars>>

\* No touch now and none at the start: the order is turned into a MARKET
\* order, and the ladder ends there.
GoToMarket(fresh) ==
  /\ pc = "escalate"
  /\ Basis(fresh) = NoPrice
  /\ Modify("MARKET", NoPrice)
  /\ rung' = RungsOf(attempt)
  /\ pc' = "rungWait"
  /\ st' = Unknown
  /\ UNCHANGED <<request, attempt, touch, hint, kept, answer, railVars, worldVars>>

-----------------------------------------------------------------------------
(* The cancel, its confirmation, and the one retry. *)

\* The cancel is sent; whether it raises is not looked at.
Cancel ==
  /\ pc = "cancel"
  /\ kept' = st.filled
  /\ orders' = [orders EXCEPT ![attempt].cancelled = TRUE]
  /\ st' = Unknown
  /\ pc' = "postCancel"
  /\ UNCHANGED <<request, attempt, rung, touch, hint, answer, railVars, worldVars>>

\* Mutant of KnownFilled: the carried count is added to the row's.
KnownFilledTwice(v) == v.filled + kept

KnownFilled(v) == IF v.filled > 0 THEN v.filled ELSE kept

\* After the cancel only a known count is a fill, whatever the status.
AfterCancel(v) == IF KnownFilled(v) > 0 THEN Filled(KnownFilled(v)) ELSE Failed

ConfirmedEmpty(v) == v.status = "CANCELLED" /\ KnownFilled(v) = 0

MayRetry == attempt = 1 /\ RetryAfterCancel

PollAfterCancel ==
  /\ pc = "postCancel"
  /\ \E v \in Rows(orders[attempt]) :
       /\ Read(v)
       /\ st' = v
       /\ CASE v.status \notin Terminal -> UNCHANGED <<pc, answer>>
            [] ConfirmedEmpty(v) /\ MayRetry -> pc' = "recheck" /\ UNCHANGED answer
            [] OTHER -> Answer(AfterCancel(v))
  /\ UNCHANGED <<request, attempt, rung, touch, hint, kept, railVars, worldVars>>

\* Mutant of CancelUnconfirmed: an unconfirmed cancel is replaced too.
CancelUnconfirmedReplaces ==
  /\ pc = "postCancel"
  /\ KnownFilled(st) = 0 /\ MayRetry
  /\ attempt' = 2 /\ rung' = 0 /\ touch' = NoPrice /\ kept' = 0
  /\ pc' = "place"
  /\ UNCHANGED <<request, hint, st, answer, orders, railVars, worldVars>>

\* Five seconds without a terminal row: the outcome is what was last known.
CancelUnconfirmed ==
  /\ pc = "postCancel"
  /\ Answer(AfterCancel(st))
  /\ UNCHANGED <<request, attempt, rung, touch, hint, st, kept, orders,
                 railVars, worldVars>>

\* Mutant of RetryOnce: the order is not read a second time.
RetryOnceUnread(fresh) ==
  /\ pc = "recheck"
  /\ hint' = Protected(1, Basis(fresh))
  /\ attempt' = 2 /\ rung' = 0 /\ touch' = NoPrice /\ kept' = 0
  /\ pc' = "place"
  /\ st' = Unknown
  /\ UNCHANGED <<request, orders, answer, railVars, worldVars>>

\* The second read agrees with the cancel: replace, once, at the protected
\* price off a fresh touch.
RetryOnce(fresh) ==
  /\ pc = "recheck"
  /\ \E v \in Rows(orders[attempt]) :
       /\ v.status = "CANCELLED" /\ v.filled = 0
       /\ Read(v)
       /\ st' = v
  /\ hint' = Protected(1, Basis(fresh))
  /\ attempt' = 2 /\ rung' = 0 /\ touch' = NoPrice /\ kept' = 0
  /\ pc' = "place"
  /\ UNCHANGED <<request, answer, railVars, worldVars>>

\* The second read disagrees, or fails: book what it says, replace nothing.
RecheckDisagrees ==
  /\ pc = "recheck"
  /\ \/ \E v \in Rows(orders[attempt]) :
          /\ ~(v.status = "CANCELLED" /\ v.filled = 0)
          /\ Read(v)
          /\ st' = v
          /\ Answer(Outcome(v))
     \/ /\ st' = Unknown
        /\ Answer(Failed)
        /\ UNCHANGED orders
  /\ UNCHANGED <<request, attempt, rung, touch, hint, kept, railVars, worldVars>>

-----------------------------------------------------------------------------
(* The exchange and the calendar: nothing the broker object controls. *)

Trade(a) ==
  /\ orders[a].live
  /\ orders' = [orders EXCEPT ![a].filled = @ + 1,
                              ![a].live = orders[a].filled + 1 < request.qty]
  /\ UNCHANGED <<pc, st, callVars, railVars, worldVars>>

Refuse(a) ==
  /\ orders[a].live /\ orders[a].filled = 0
  /\ orders' = [orders EXCEPT ![a].live = FALSE, ![a].rejected = TRUE]
  /\ UNCHANGED <<pc, st, callVars, railVars, worldVars>>

\* The rest of an order is pulled: our cancel, the owner's, or the close.
Pull(a) ==
  /\ orders[a].live
  /\ orders' = [orders EXCEPT ![a].live = FALSE]
  /\ UNCHANGED <<pc, st, callVars, railVars, worldVars>>

MarketCloses ==
  /\ marketOpen
  /\ marketOpen' = FALSE
  /\ UNCHANGED <<pc, st, callVars, railVars, orders, asked>>

\* Overnight: DAY orders are gone, no call is in progress.
NewDay ==
  /\ pc = "idle" /\ ~marketOpen
  /\ \A a \in Attempts : ~orders[a].live
  /\ marketOpen' = TRUE
  /\ ordersToday' = FALSE
  /\ acksToday' = 0
  /\ UNCHANGED <<pc, st, callVars, ordersCount, orders, asked>>

-----------------------------------------------------------------------------
AnyTouch == Touches \cup {NoPrice}

Broker ==
  \/ \E t \in AnyTouch : \/ RailsRefuse(t)
                         \/ PlaceRaises(t)
                         \/ PlaceAccepted(t)
                         \/ Reprice(t)
                         \/ GoToMarket(t)
                         \/ RetryOnce(t)
  \/ Poll
  \/ WaitExpires
  \/ Cancel
  \/ PollAfterCancel
  \/ CancelUnconfirmed
  \/ RecheckDisagrees

Exchange == \E a \in Attempts : Trade(a) \/ Refuse(a) \/ Pull(a)

Next ==
  \/ \E q \in Quantities, exit \in BOOLEAN, lim \in Limits \cup {NoPrice} :
       Execute(q, exit, lim)
  \/ Broker
  \/ Exchange
  \/ MarketCloses
  \/ NewDay

Spec == Init /\ [][Next]_vars

\* The order thread moves on, and every poll loop of it has a deadline.
FairSpec == Spec /\ WF_vars(Broker) /\ WF_vars(WaitExpires)
                 /\ WF_vars(CancelUnconfirmed)

-----------------------------------------------------------------------------
(* Properties. *)

Answers == {NoAnswer, Failed} \cup [kind : {"fill"}, units : Nat]

Waits == {"wait", "rungWait", "postCancel"}
Pcs == {"idle", "place", "escalate", "cancel", "recheck"} \cup Waits

StatusRow == [status : Terminal \cup {"UNKNOWN", "OPEN"}, filled : Nat]

OrderRecord ==
  [sent : {"no", "lost", "acked"}, kind : {"LIMIT", "MARKET"},
   placed : Nat, price : Nat, live : BOOLEAN, filled : Nat,
   rejected : BOOLEAN, cancelled : BOOLEAN, shown : StatusRow,
   empties : Nat, rungs : Nat]

TypeOK ==
  /\ pc \in Pcs
  /\ request \in [qty : Quantities \cup {0}, reduceOnly : BOOLEAN,
                  limit : Limits \cup {NoPrice}]
  /\ attempt \in Attempts /\ rung \in 0..Rungs
  /\ touch \in AnyTouch /\ hint \in Nat
  /\ st \in StatusRow
  /\ kept \in Nat
  /\ answer \in Answers
  /\ orders \in [Attempts -> OrderRecord]
  /\ ordersCount \in Nat /\ ordersToday \in BOOLEAN /\ acksToday \in Nat
  /\ marketOpen \in BOOLEAN /\ asked \in Nat

Traded == orders[1].filled + orders[2].filled

\* A second order is only ever sent on top of a first one that is dead and
\* traded nothing, at the exchange and not just in the row the broker showed
\* (_recheck_after_cancel: "a fresh order on top of an unknown one is how a
\* position doubles").
ReplacesOnlyTheDead ==
  orders[2].sent # "no" => ~orders[1].live /\ orders[1].filled = 0

\* Both orders of a call together never trade more than was asked for, late
\* trades after the answer included.
NoOverfill == Traded <= request.qty

\* A fill answered to the engine is of units the exchange traded, one at least.
BookedIsReal ==
  answer.kind = "fill" => answer.units \in 1..Traded

\* The units of a call are real on both sides: the exchange never trades more
\* of them than the engine asked for, over both orders and whatever comes late,
\* and the engine is never told of one the exchange did not trade.
FillsAreReal == NoOverfill /\ BookedIsReal

\* The call never returns or raises over an order it knows to exist and never
\* tried to cancel, unless that order can no longer trade.
NeverAbandonsWorking ==
  pc = "idle" => \A a \in Attempts :
    orders[a].sent = "acked" => ~orders[a].live \/ orders[a].cancelled

\* An entry is re-priced once at most, an exit once a rung, and a retry,
\* already at the protected price, never.
ChasesWithinTheLadder ==
  /\ orders[1].rungs <= RungsOf(1)
  /\ orders[2].rungs = 0

\* No priced order ever rests past the limit the caller set: not when placed,
\* not on a rung, not on the retry.
LimitOrdersWithinCallersLimit ==
  request.limit # NoPrice => \A a \in Attempts :
    orders[a].sent # "no" /\ orders[a].kind = "LIMIT"
      => orders[a].price \in 1..request.limit

\* The broker never hands out more order ids in a day than the daily cap,
\* retries counted.
DailyCapHolds == acksToday <= MaxOrdersPerDay

\* The broker's own limits hold together on every path, ladder and retry: the
\* caller's price, the rungs of the ladder, the orders of the day.
WithinItsLimits ==
  LimitOrdersWithinCallersLimit /\ ChasesWithinTheLadder /\ DailyCapHolds

\* execute always comes back with a fill or an error, whatever the broker does.
AlwaysAnswers == pc # "idle" ~> pc = "idle"

\* What the engine sees of the whole exchange with the broker is the abstract
\* order of OrderIntent.
Intent == INSTANCE OrderIntent
            WITH want <- request.qty, traded <- Traded, reply <- answer
ImplementsIntent == Intent!Spec

\* live_broker.py, "A CALLER'S LIMIT": "every rung of the ladder -- and the one
\* retry -- is CLAMPED to it: a BUY never pays above it".  A MARKET order pays
\* whatever the book asks.
CallersLimitHeld ==
  request.limit # NoPrice => \A a \in Attempts :
    orders[a].sent # "no" =>
      orders[a].kind = "LIMIT" /\ orders[a].price <= request.limit
=============================================================================
