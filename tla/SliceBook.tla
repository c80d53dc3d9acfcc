------------------------------ MODULE SliceBook ------------------------------
(***************************************************************************)
(* The book of one live session (engine/live.py, engine/execution.py,      *)
(* engine/portfolio.py, engine/stops.py): a slice settles what expired,    *)
(* runs the stops that fired, then executes what the strategy decided, in  *)
(* the run's tick thread; the owner flattens, orders by hand or adopts     *)
(* what the broker has closed, on the event loop, beside it and without a  *)
(* lock.  Each action is one order of LiveBroker.execute, sent in children *)
(* of at most the exchange's freeze, and booked when the last has ended.   *)
(*                                                                         *)
(* Abstractions.  Prices, cash and charges are left out.  A symbol is held *)
(* long or written short, never both.  A child order ends as OrderIntent   *)
(* promises, with a fill or an error, and may trade after an error.  The   *)
(* actions of a list may come in any order, but for a trailing stop, which *)
(* follows the partial exit it belongs to; no list names a lot twice.      *)
(* Writes of the state do not fail and the process restarts at rest only   *)
(* (RunGate has both).  Each lot carries what the two logs say of it.      *)
(***************************************************************************)
EXTENDS Integers, Sequences, FiniteSetsExt, Sums

CONSTANTS
  Symbols,
  Shorts,                   \* those written short; the others are bought
  Options,                  \* those that are option contracts: freeze, expiry
  Sizes,                    \* units of an entry
  Freeze,                   \* units an option order may have at the exchange
  MaxActions,               \* bound: actions in a list
  MaxLots,                  \* bound: lots opened
  MaxSlices, MaxJobs,       \* bounds: slices, and interventions of the owner
  MaxFaults                 \* bound: short and failing child orders, restarts,
                            \* and slices beside the owner

ASSUME BookAssumption ==
  /\ Symbols # {}
  /\ Shorts \subseteq Symbols /\ Options \subseteq Symbols
  /\ Sizes \subseteq Nat \ {0} /\ Freeze \in Nat \ {0}
  /\ MaxActions \in Nat /\ MaxLots \in Nat /\ MaxSlices \in Nat
  /\ MaxJobs \in Nat /\ MaxFaults \in Nat

VARIABLES
  lots,                     \* every lot ever opened, in order
  nextId,                   \* Portfolio._ids
  stops,                    \* StopBook._stops
  managedBy,                \* "strategy" or "manual"
  halted,                   \* order_error or strategy_error
  settling,                 \* symbols the executor's broker books without an
                            \* order; none: it is the LiveBroker
  \* the two threads
  stage, todo, order,
  job,                      \* what the owner's is about
  \* the broker
  account,                  \* units open per symbol
  outside,                  \* ... and what closed them but the run's orders
  \* bounds
  slices, jobs, faults,
  \* observations
  handled,                  \* the owner's hand has been in the open book
  disturbed                 \* what has gone wrong so far

Threads == {"tick", "hand"}
portfolio == <<lots, nextId>>
threads == <<stage, todo, order>>
broker == <<account, outside>>
session == <<stops, managedBy, halted, settling, job>>
bounds == <<slices, jobs, faults>>
seen == <<handled, disturbed>>
vars == <<portfolio, session, threads, broker, bounds, seen>>

Birth == DOMAIN lots
Open(b) == lots[b].units > 0
LotsOf(s) == {b \in Birth : Open(b) /\ lots[b].symbol = s}
GetLot(s, id) == {b \in LotsOf(s) : lots[b].id = id}
Held == {s \in Symbols : LotsOf(s) # {}}
UnitsIn(S) == SumOver([b \in Birth |-> lots[b].units], S)
Units(s) == UnitsIn(LotsOf(s))
\* The lot b, its units and what the logs say of it changed; and with an exit
\* booked by t, of units from the book and of others in the event.
LotAs(b, units, log, trail, due) ==
  [id |-> lots[b].id, symbol |-> lots[b].symbol, units |-> units,
   log |-> log, trail |-> trail, due |-> due]
Reduced(b, t, units, event) ==
  LotAs(b, lots[b].units - units, lots[b].log, lots[b].trail,
        [lots[b].due EXCEPT ![t] = @ - event])
Managed(b) == \E st \in stops : st.lot = lots[b].id

Idle(t) == stage[t] = "idle"
Alongside(t) == IF \A u \in Threads \ {t} : Idle(u) THEN {} ELSE {"overlap"}
Trouble(what) ==
  /\ what # {} => faults < MaxFaults
  /\ faults' = IF what = {} THEN faults ELSE faults + 1

-----------------------------------------------------------------------------
(* The actions the resolver and the manual orders make.                    *)

Action == [kind : {"open", "close", "whole", "pool", "attach", "stop"},
           symbol : Symbols, lot : Nat, units : Nat]
Entry(s, q) == [kind |-> "open", symbol |-> s, lot |-> 0, units |-> q]
OnLot(k, b, q) == [kind |-> k, symbol |-> lots[b].symbol, lot |-> lots[b].id, units |-> q]
Pool(s) == [kind |-> "pool", symbol |-> s, lot |-> 0, units |-> 0]

\* A whole exit of a short lot asks for the units the lot has by then, one of
\* a long lot for those it had when the list was made.
WholeExit(b) ==
  OnLot(IF lots[b].symbol \in Shorts THEN "whole" ELSE "close", b, lots[b].units)
CloseOut(s) == IF s \in Shorts THEN {WholeExit(b) : b \in LotsOf(s)} ELSE {Pool(s)}

Tradable == {s \in Symbols : outside[s] # "expired"}
Entries == {{Entry(s, q)} : s \in Tradable, q \in Sizes}
Exits(S) == {{WholeExit(b)} : b \in S}
PartialExits(S) ==
  UNION {{{OnLot("close", b, q)} : q \in 1..(lots[b].units - 1)} : b \in S}
Trails(S) ==
  UNION {{x \cup {OnLot("attach", b, 0)} : x \in {{}} \cup PartialExits({b})} : b \in S}

\* What a strategy may signal: it sees the lots that no stop manages.
Signals ==
  LET visible == {b \in Birth : Open(b) /\ ~Managed(b)}
      long == {b \in visible : lots[b].symbol \notin Shorts}
  IN  Entries \cup Exits(visible) \cup PartialExits(long) \cup Trails(long)
        \cup {CloseOut(s) : s \in Held}

Apart(a, b) ==
  \/ "open" \in {a.kind, b.kind}
  \/ a.symbol # b.symbol
  \/ "pool" \notin {a.kind, b.kind} /\ a.lot # b.lot

Decisions ==
  LET One == {a \in UNION Signals : {a} \in Signals}
  IN
  IF managedBy = "manual"
    THEN {{}, UNION {CloseOut(s) : s \in Held}}
    ELSE {{}} \cup Signals
           \cup {{p[1], p[2]} : p \in {x \in One \X One : Apart(x[1], x[2])}}

\* FIFO over the records of a symbol, as the console's exits by units.
Reduce(s, q) ==
  LET before(b) == UnitsIn({c \in LotsOf(s) : c < b})
      take(b) == Min({q - before(b), lots[b].units})
  IN  {IF take(b) = lots[b].units THEN WholeExit(b) ELSE OnLot("close", b, take(b)) :
         b \in {c \in LotsOf(s) : before(c) < q}}
ManualOrders ==
  {x \cup y : x \in {{}} \cup UNION {{Reduce(s, q) : q \in 1..Units(s)} : s \in Held},
              y \in {{}} \cup Entries} \ {{}}

Opens(x) == Cardinality({a \in x : a.kind = "open"})
Roomy(x) ==
  /\ Cardinality(x) <= MaxActions
  /\ Len(lots) + Opens(x) <= MaxLots
  /\ Opens(x) > 0 => \A t \in Threads :
       /\ order[t].kind # "open"
       /\ \A i \in DOMAIN todo[t] : todo[t][i].kind # "open"

\* The lists that execute x: a stop is attached after its lot's exit.
Lists(x) ==
  {f \in UNION {[1..n -> x] : n \in 0..MaxActions} :
     /\ \A a \in x : \E i \in DOMAIN f : f[i] = a
     /\ \A i, j \in DOMAIN f :
          i < j => /\ f[i] # f[j]
                   /\ f[i].kind = "attach" => f[j].lot # f[i].lot}

-----------------------------------------------------------------------------
(* One order: the broker's children, then the book.                        *)

NoOrder == [kind |-> "none", symbol |-> CHOOSE s \in Symbols : TRUE, lot |-> 0,
            ask |-> 0, left |-> 0, filled |-> 0, parts |-> <<>>]

Asked(a) ==
  CASE a.kind = "open" -> a.units
    [] a.kind = "pool" -> Units(a.symbol)
    [] a.kind = "close" /\ a.symbol \notin Shorts -> a.units
    [] a.kind = "close" /\ a.symbol \in Shorts ->
         Min({a.units} \cup {lots[b].units : b \in GetLot(a.symbol, a.lot)})
    [] OTHER -> Min({lots[b].units : b \in GetLot(a.symbol, a.lot)})

\* Nothing to do by the time its turn comes.
Gone(a) ==
  CASE a.kind = "open" -> FALSE
    [] a.kind = "pool" -> LotsOf(a.symbol) = {}
    [] OTHER -> GetLot(a.symbol, a.lot) = {}

NextAction(t) == todo' = [todo EXCEPT ![t] = Tail(@)]
NoOrders(t) == todo[t] # <<>> /\ order[t] = NoOrder

Attach(t) ==
  LET a == Head(todo[t])
  IN  /\ ~Idle(t) /\ NoOrders(t) /\ a.kind = "attach"
      /\ NextAction(t)
      /\ stops' = {st \in stops : st.lot # a.lot}
           \cup {[symbol |-> a.symbol, lot |-> a.lot, of |-> GetLot(a.symbol, a.lot)]}
      /\ UNCHANGED <<portfolio, managedBy, halted, settling, stage, order, job, broker, bounds, seen>>

Skip(t) ==
  LET a == Head(todo[t])
  IN  /\ ~Idle(t) /\ NoOrders(t) /\ a.kind # "attach" /\ Gone(a)
      /\ NextAction(t)
      /\ stops' = IF a.kind = "stop" THEN {st \in stops : st.lot # a.lot} ELSE stops
      /\ UNCHANGED <<portfolio, managedBy, halted, settling, stage, order, job, broker, bounds, seen>>

Send(t) ==
  LET a == Head(todo[t])
      known == settling = {} \/ a.symbol \in settling
      covers == a.symbol \in Shorts /\ \A b \in GetLot(a.symbol, a.lot) : Asked(a) = lots[b].units
      sent == [kind |-> IF a.kind = "close" /\ covers THEN "whole" ELSE a.kind, symbol |-> a.symbol, lot |-> a.lot, ask |-> Asked(a),
               left |-> IF settling = {} THEN Asked(a) ELSE 0, filled |-> 0,
               parts |-> IF a.kind = "pool" THEN [b \in Birth |-> IF b \in LotsOf(a.symbol) THEN lots[b].units ELSE 0] ELSE <<>>]
  IN  /\ ~Idle(t) /\ NoOrders(t) /\ a.kind # "attach" /\ ~Gone(a) /\ known
      /\ order' = [order EXCEPT ![t] = sent]
      /\ UNCHANGED <<portfolio, session, stage, todo, broker, bounds, seen>>

\* An order of which so much is left, and so much filled.
Progress(o, left, filled) ==
  [kind |-> o.kind, symbol |-> o.symbol, lot |-> o.lot, ask |-> o.ask,
   left |-> left, filled |-> filled, parts |-> o.parts]
Child(o) == IF o.symbol \in Options THEN Min({Freeze, o.left}) ELSE o.left
Opened(o, q) == IF o.kind = "open" THEN q ELSE -q

ChildFills(t) ==
  LET o == order[t]
      n == Child(o)
  IN  /\ o.left > 0 /\ outside[o.symbol] # "expired"
      /\ \E q \in 1..n :
           /\ LET short == IF q < n THEN {"partial"} ELSE {}
              IN  Trouble(short) /\ disturbed' = disturbed \cup short
           /\ order' = [order EXCEPT ![t] = Progress(o, o.left - n, o.filled + q)]
           /\ account' = [account EXCEPT ![o.symbol] = @ + Opened(o, q)]
      /\ UNCHANGED <<portfolio, session, stage, todo, outside, slices, jobs, handled>>

\* The list ends in an exception.  OrderExecutionError is the one that the
\* owner's path takes care of: what filled goes to the order table, and the
\* run halts.
Written(t, inLog, inTrail) ==
  [b \in Birth |->
     LotAs(b, lots[b].units, IF inLog THEN lots[b].log + lots[b].due[t] ELSE lots[b].log,
           IF inTrail THEN lots[b].trail + lots[b].due[t] ELSE lots[b].trail,
           [lots[b].due EXCEPT ![t] = 0])]
Unwritten(t) == \E b \in Birth : lots[b].due[t] # 0
EndList(t) ==
  /\ stage' = [stage EXCEPT ![t] = "idle"]
  /\ todo' = [todo EXCEPT ![t] = <<>>]
  /\ order' = [order EXCEPT ![t] = NoOrder]
  /\ settling' = IF t = "hand" THEN {} ELSE settling

\* Mutant of Raise: the events of the orders before are lost to the log.
RaiseLosing(t, failedOrder, also) ==
  LET inStops == t = "tick" /\ stage[t] = "stops"
      inActions == t = "tick" /\ ~inStops
      lost == IF Unwritten(t) /\ inStops THEN {"stop"}
              ELSE IF Unwritten(t) /\ t = "hand" THEN {"hand"} ELSE {}
  IN  /\ EndList(t)
      /\ lots' = Written(t, FALSE, inActions \/ (t = "hand" /\ failedOrder))
      /\ halted' = (halted \/ t = "tick" \/ failedOrder)
      /\ disturbed' = disturbed \cup also \cup lost
      /\ UNCHANGED <<nextId, stops, managedBy, job, slices, jobs, handled>>

\* LiveSession.run_decision guards the strategy's actions, not the stops.
Raise(t, failedOrder, also) ==
  LET inStops == t = "tick" /\ stage[t] = "stops"
      inActions == t = "tick" /\ ~inStops
      lost == IF Unwritten(t) /\ inStops THEN {"stop"}
              ELSE IF Unwritten(t) /\ t = "hand" THEN {"hand"} ELSE {}
  IN  /\ EndList(t)
      /\ lots' = Written(t, inActions, inActions \/ (t = "hand" /\ failedOrder))
      /\ halted' = (halted \/ t = "tick" \/ failedOrder)
      /\ disturbed' = disturbed \cup also \cup lost
      /\ UNCHANGED <<nextId, stops, managedBy, job, slices, jobs, handled>>

\* A first child that fails raises, a later one leaves the rest unasked.  The
\* exchange refuses an expired contract every time.
ChildFails(t) ==
  LET o == order[t]
      n == Child(o)
      expired == outside[o.symbol] = "expired"
  IN  /\ o.left > 0 /\ Trouble(IF expired THEN {} ELSE {"refused"})
      /\ UNCHANGED outside
      /\ \E stray \in IF expired THEN {0} ELSE {0, n} :
           LET also == IF stray > 0 THEN {"stray"} ELSE {}
           IN  /\ account' = [account EXCEPT ![o.symbol] = @ + Opened(o, stray)]
               /\ \/ o.filled = 0 /\ Raise(t, TRUE, also)
                  \/ /\ o.filled > 0
                     /\ order' = [order EXCEPT ![t] = Progress(o, 0, o.filled)]
                     /\ disturbed' = disturbed \cup also \cup {"partial"}
                     /\ UNCHANGED <<portfolio, session, stage, todo, slices, jobs, handled>>

\* No broker behind the settled prices for this symbol: ValueError.
SendFails(t) ==
  /\ ~Idle(t) /\ NoOrders(t) /\ ~Gone(Head(todo[t]))
  /\ Head(todo[t]).kind # "attach"
  /\ settling # {} /\ Head(todo[t]).symbol \notin settling
  /\ Raise(t, FALSE, {})
  /\ UNCHANGED <<broker, faults>>

-----------------------------------------------------------------------------
(* The book takes the units asked for, not those filled.                   *)

Target(o) == IF o.kind = "pool" THEN LotsOf(o.symbol) ELSE GetLot(o.symbol, o.lot)
\* Mutant of Removed: a partial exit closes the lot.
RemovedWhole(o, b) == IF b \in Target(o) THEN lots[b].units ELSE 0

\* Mutant of Removed: a lot is reduced by more than it has.
RemovedUnbounded(o, b) ==
  IF b \notin Target(o) THEN 0
  ELSE IF o.kind \in {"whole", "pool"} THEN lots[b].units ELSE o.ask

Removed(o, b) ==
  IF b \notin Target(o) THEN 0
  ELSE IF o.kind \in {"whole", "pool"} THEN lots[b].units ELSE Min({o.ask, lots[b].units})
InEvent(o, b) ==
  IF o.kind = "pool" THEN IF b \in DOMAIN o.parts THEN o.parts[b] ELSE 0
  ELSE IF b \notin Target(o) THEN 0
  ELSE IF o.kind = "whole" THEN lots[b].units ELSE o.ask

\* Mutant of NewLot: the id follows those of the open lots.
NewLotReusing(t, o) ==
  [id |-> 1 + Max({0} \cup {lots[b].id : b \in {c \in Birth : Open(c)}}),
   symbol |-> o.symbol, units |-> o.ask, log |-> 0, trail |-> 0,
   due |-> [u \in Threads |-> IF u = t THEN o.ask ELSE 0]]

NewLot(t, o) ==
  [id |-> nextId, symbol |-> o.symbol, units |-> o.ask, log |-> 0, trail |-> 0,
   due |-> [u \in Threads |-> IF u = t THEN o.ask ELSE 0]]

Done(t) == order[t].kind # "none" /\ order[t].left = 0

BookEntry(t) ==
  /\ Done(t) /\ order[t].kind = "open"
  /\ lots' = Append(lots, NewLot(t, order[t]))
  /\ nextId' = nextId + 1
  /\ NextAction(t)
  /\ order' = [order EXCEPT ![t] = NoOrder]
  /\ handled' = (handled \/ t = "hand")
  /\ UNCHANGED <<session, stage, broker, bounds, disturbed>>

BookExit(t) ==
  LET o == order[t]
      open(b) == lots'[b].units > 0
  IN  /\ Done(t) /\ o.kind # "open"
      /\ o.kind = "pool" \/ Target(o) # {}
      /\ lots' = IF Target(o) = {} THEN lots
                 ELSE [b \in Birth |-> Reduced(b, t, Removed(o, b), InEvent(o, b))]
      /\ stops' = IF o.kind = "stop" THEN {st \in stops : st.lot # o.lot} ELSE stops
      /\ NextAction(t)
      /\ order' = [order EXCEPT ![t] = NoOrder]
      /\ handled' = ((handled \/ t = "hand") /\ \E b \in Birth : open(b))
      /\ UNCHANGED <<nextId, managedBy, halted, settling, job, stage, broker, bounds, disturbed>>

\* The lot went while the order was out: KeyError.
BookFails(t) ==
  /\ Done(t) /\ order[t].kind \notin {"open", "pool"} /\ Target(order[t]) = {}
  /\ Raise(t, FALSE, {})
  /\ UNCHANGED <<broker, faults>>

-----------------------------------------------------------------------------
(* LiveSession.run_decision in the tick thread.                            *)

\* What expired is settled first, where its underlying has a price; the stops
\* of lots with a price fire or not.
StartSlice ==
  /\ Idle("tick") /\ ~halted /\ slices < MaxSlices
  /\ slices' = slices + 1
  /\ \E fired \in SUBSET stops :
     \E list \in Lists({[kind |-> "stop", symbol |-> st.symbol, lot |-> st.lot, units |-> 0] : st \in fired}) :
       todo' = [todo EXCEPT !["tick"] = list]
  /\ \E priced \in SUBSET {s \in Symbols : outside[s] = "expired"} :
       lots' = [b \in Birth |->
                  IF lots[b].symbol \notin priced THEN lots[b]
                  ELSE Reduced(b, "tick", lots[b].units, lots[b].units)]
  /\ stage' = [stage EXCEPT !["tick"] = "stops"]
  /\ disturbed' = disturbed \cup Alongside("tick") /\ Trouble(Alongside("tick"))
  /\ handled' = (handled /\ \E b \in Birth : lots'[b].units > 0)
  /\ UNCHANGED <<nextId, session, order, broker, jobs>>

ListDone(t) == todo[t] = <<>> /\ order[t] = NoOrder

Decide ==
  /\ stage["tick"] = "stops" /\ ListDone("tick")
  /\ \E x \in {y \in Decisions : Roomy(y)} : \E list \in Lists(x) :
       todo' = [todo EXCEPT !["tick"] = list]
  /\ stage' = [stage EXCEPT !["tick"] = "actions"]
  /\ UNCHANGED <<portfolio, session, order, broker, bounds, seen>>

EndSlice ==
  /\ stage["tick"] = "actions" /\ ListDone("tick")
  /\ lots' = Written("tick", TRUE, TRUE)
  /\ EndList("tick")
  /\ UNCHANGED <<nextId, stops, managedBy, halted, job, broker, bounds, seen>>

-----------------------------------------------------------------------------
(* The owner, on the event loop.                                           *)

Intervene(kind, x, without) ==
  /\ Idle("hand") /\ jobs < MaxJobs /\ Roomy(x)
  /\ \E list \in Lists(x) : todo' = [todo EXCEPT !["hand"] = list]
  /\ stage' = [stage EXCEPT !["hand"] = "actions"]
  /\ job' = kind
  /\ settling' = without
  /\ jobs' = jobs + 1
  /\ disturbed' = disturbed \cup Alongside("hand") /\ Trouble(Alongside("hand"))
  /\ UNCHANGED <<portfolio, stops, managedBy, halted, order, broker, slices, handled>>

\* Mutant of Flatten: what is under a stop is left to the stop.
FlattenUnmanaged ==
  Intervene("flatten",
            UNION {CloseOut(s) : s \in {x \in Held : \A st \in stops : st.symbol # x}}, {})

Flatten == Intervene("flatten", UNION {CloseOut(s) : s \in Held}, {})
ManualOrder == \E x \in ManualOrders : Intervene("order", x, {})
AdoptBrokerClose ==
  \E S \in SUBSET {s \in Held : outside[s] = "closed" /\ account[s] = 0} \ {{}} :
    Intervene("adopt", UNION {CloseOut(s) : s \in S}, S)

\* Mutant of EndJob: only a manual order hands the book over.
EndJobKeeping ==
  /\ stage["hand"] = "actions" /\ ListDone("hand")
  /\ lots' = Written("hand", TRUE, TRUE)
  /\ EndList("hand")
  /\ managedBy' = IF Held = {} \/ job # "order" THEN managedBy ELSE "manual"
  /\ outside' = [s \in Symbols |-> IF s \in settling THEN "no" ELSE outside[s]]
  /\ UNCHANGED <<nextId, stops, halted, job, account, bounds, seen>>

\* Whatever is left after a hand on the book hands it over to the manual rail.
EndJob ==
  /\ stage["hand"] = "actions" /\ ListDone("hand")
  /\ lots' = Written("hand", TRUE, TRUE)
  /\ EndList("hand")
  /\ managedBy' = IF Held = {} THEN managedBy ELSE "manual"
  /\ outside' = [s \in Symbols |-> IF s \in settling THEN "no" ELSE outside[s]]
  /\ UNCHANGED <<nextId, stops, halted, job, account, bounds, seen>>

ResumeStrategy ==
  /\ Idle("hand") /\ managedBy = "manual" /\ Held = {}
  /\ managedBy' = "strategy"
  /\ UNCHANGED <<portfolio, stops, halted, settling, threads, job, broker, bounds, seen>>

Acknowledge ==
  /\ Idle("hand") /\ halted
  /\ halted' = FALSE
  /\ UNCHANGED <<portfolio, stops, managedBy, settling, threads, job, broker, bounds, seen>>

-----------------------------------------------------------------------------
(* What happens around the session.                                        *)

\* The process restarts from the saved state: ids go on from the open lots.
Restart ==
  /\ \A t \in Threads : Idle(t)
  /\ Trouble({"restart"}) /\ disturbed' = disturbed \cup {"restart"}
  /\ nextId' = 1 + Max({0} \cup {lots[b].id : b \in {c \in Birth : Open(c)}})
  /\ halted' = FALSE
  /\ UNCHANGED <<lots, stops, managedBy, settling, threads, job, broker, slices, jobs, handled>>

Flight(s) == \E t \in Threads : order[t].kind # "none" /\ order[t].symbol = s

\* The owner squares off in the broker's own screen; a contract expires.
ClosedOutside(s, how) ==
  /\ outside[s] = "no" /\ account[s] > 0 /\ ~Flight(s)
  /\ account' = [account EXCEPT ![s] = 0]
  /\ outside' = [outside EXCEPT ![s] = how]
  /\ UNCHANGED <<portfolio, session, threads, bounds, seen>>
SquareOff(s) == ClosedOutside(s, "closed")
Expire(s) == s \in Options /\ ClosedOutside(s, "expired")

\* A session starts with the lots that its saved state holds.
Init ==
  /\ \E held \in UNION {[1..n -> Symbols \X Sizes] : n \in 0..MaxLots} :
       lots = [b \in DOMAIN held |->
                 [id |-> b, symbol |-> held[b][1], units |-> held[b][2],
                  log |-> held[b][2], trail |-> held[b][2], due |-> [t \in Threads |-> 0]]]
  /\ nextId = Len(lots) + 1
  /\ stops = {} /\ managedBy = "strategy" /\ halted = FALSE
  /\ settling = {} /\ job = "flatten"
  /\ stage = [t \in Threads |-> "idle"]
  /\ todo = [t \in Threads |-> <<>>]
  /\ order = [t \in Threads |-> NoOrder]
  /\ account = [s \in Symbols |-> Units(s)]
  /\ outside = [s \in Symbols |-> "no"]
  /\ slices = 0 /\ jobs = 0 /\ faults = 0
  /\ handled = FALSE /\ disturbed = {}

ThreadStep(t) ==
  \/ Attach(t) \/ Skip(t) \/ Send(t) \/ SendFails(t)
  \/ ChildFills(t) \/ ChildFails(t)
  \/ BookEntry(t) \/ BookExit(t) \/ BookFails(t)
TickStep == ThreadStep("tick") \/ Decide \/ EndSlice
HandStep == ThreadStep("hand") \/ EndJob
Outside ==
  \/ StartSlice \/ Flatten \/ ManualOrder \/ AdoptBrokerClose
  \/ ResumeStrategy \/ Acknowledge \/ Restart
  \/ \E s \in Symbols : SquareOff(s) \/ Expire(s)
Next == TickStep \/ HandStep \/ Outside

Spec == Init /\ [][Next]_vars

-----------------------------------------------------------------------------
(* Properties.                                                             *)

Order ==
  [kind : {"none", "open", "close", "whole", "pool", "stop"}, symbol : Symbols, lot : Nat,
   ask : Nat, left : Nat, filled : Nat, parts : Seq(Nat)]
Lot == [id : Nat, symbol : Symbols, units : Nat, log : Int, trail : Int, due : [Threads -> Int]]

\* Every variable stays in its type.
TypeOK ==
  /\ lots \in Seq(Lot) /\ nextId \in Nat
  /\ stops \subseteq [symbol : Symbols, lot : Nat, of : SUBSET Nat]
  /\ managedBy \in {"strategy", "manual"} /\ halted \in BOOLEAN
  /\ settling \subseteq Symbols
  /\ stage \in [Threads -> {"idle", "stops", "actions"}]
  /\ todo \in [Threads -> Seq(Action)]
  /\ order \in [Threads -> Order]
  /\ job \in {"flatten", "order", "adopt"}
  /\ account \in [Symbols -> Int] /\ outside \in [Symbols -> {"no", "closed", "expired"}]
  /\ slices \in Nat /\ jobs \in Nat /\ faults \in Nat
  /\ handled \in BOOLEAN
  /\ disturbed \subseteq {"overlap", "partial", "stray", "stop", "hand", "restart"}

Without(what) == disturbed \cap what = {}

\* An id names one open lot, restarts included (Portfolio.load_state takes the
\* next id from the lots that are left).
IdsAreUnique ==
  \A a, b \in Birth : Open(a) /\ Open(b) /\ lots[a].id = lots[b].id => a = b

\* An id names one open lot; and a stop, and the strategy's blindness for the lot
\* it manages, concern the lot the stop was attached to.  A restart breaks the
\* second: an id may be given again while the stop of its former lot is there.
StopsGuardTheirLots ==
  /\ IdsAreUnique
  /\ Without({"restart"}) =>
       \A st \in stops : \A b \in Birth : Open(b) /\ lots[b].id = st.lot => b \in st.of

Accounted(b, written) == lots[b].units = written + lots[b].due["tick"] + lots[b].due["hand"]

\* The session's own trade log and the order table, with the events under way,
\* account for every lot, through failing orders, settlement and stops
\* (execution.py's partial_events).  Two things break both: two threads in the
\* book, a failing stop after another stop or a settlement.  A manual action that
\* fails after its first fill breaks the log alone.
LogsMatchBook ==
  Without({"overlap", "stop"}) => \A b \in Birth :
    /\ Accounted(b, lots[b].trail)
    /\ Without({"hand"}) => Accounted(b, lots[b].log)

\* The account holds what the book does and the orders out have filled, as long
\* as every order fills whole, even in children, even when others are refused.
Flows(t, s) == IF order[t].symbol = s THEN Opened(order[t], order[t].filled) ELSE 0
InFlight(s) == Flows("tick", s) + Flows("hand", s)
AccountMatchesBook ==
  Without({"overlap", "partial", "stray"}) =>
    \A s \in Symbols : outside[s] = "no" => account[s] = Units(s) + InFlight(s)

\* Once the owner's hand has been in a book that is still open, the strategy
\* does not decide on it: the rail does (_after_book_change).
HandedOver ==
  Idle("hand") /\ handled /\ Without({"overlap", "hand"}) => managedBy = "manual"

\* A flatten that comes to its end, beside no slice, leaves no lot.
FlattenLeavesNothing ==
  stage["hand"] = "actions" /\ job = "flatten" /\ ListDone("hand") /\ Without({"overlap"})
    => Held = {}
=============================================================================
