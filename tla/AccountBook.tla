----------------------------- MODULE AccountBook -----------------------------
(***************************************************************************)
(* The delivery book of one account under several runs, for one symbol     *)
(* (live/manager.py): each run adopts, in its tick thread, units that the  *)
(* broker holds and no run claims (_maybe_adopt_fund_holding), and         *)
(* compares the books of the real-order runs with the broker's             *)
(* (reconcile_account_book), which halts it when they differ.              *)
(*                                                                         *)
(* The broker's holdings lag a day and its positions have the day's trades *)
(* (Dhan, the account whose reports are added up; for others holdings      *)
(* win).  Positions still show yesterday's trades until the session rolls. *)
(*                                                                         *)
(* Abstractions.  A run decides once a day and trades one unit, and the    *)
(* broker does not refuse.  Every read of the broker succeeds and has a    *)
(* price (RunGate has failing reads and restarts); holdings change         *)
(* overnight only, so they are read together with what follows.  The owner *)
(* repairs a run that is not in a decision (SliceBook has the owner's hand *)
(* beside one).                                                            *)
(***************************************************************************)
EXTENDS Integers, FiniteSetsExt, Sums

CONSTANTS
  Runs,                     \* those that may adopt the symbol
  Cap,                      \* units a run wants of it (fund_units_wanted)
  MaxUnits,                 \* bound: units anywhere
  MaxOwner,                 \* bound: acts of the owner
  MaxDisturbed              \* bound: kinds of disturbance that come together

ASSUME AccountAssumption ==
  /\ IsFiniteSet(Runs)
  /\ Cap \in Nat /\ MaxUnits \in Nat /\ MaxOwner \in Nat /\ MaxDisturbed \in Nat

VARIABLES
  \* the broker
  holdings, positions,
  rolled,                   \* positions are today's
  market,                   \* "open", "closed" or, settled, "night"
  \* the runs
  mode,                     \* "live": LIVE on a LiveBroker; "paper"
  book,                     \* units of the run's lots
  traded,                   \* its transactions have a fill of today
  halted,                   \* "no", or what the mismatch was: "real", "false"
  thread,                   \* the run's tick
  \* the owner, and what has happened
  owner, outside, disturbed

broker == <<holdings, positions, rolled, market>>
runs == <<mode, book, traded, halted>>
vars == <<broker, runs, thread, owner, outside, disturbed>>

At(pc, units) == [pc |-> pc, units |-> units, fold |-> FALSE]
Idle == At("idle", 0)
Total(S) == SumOver(book, S)
Live == {r \in Runs : mode[r] = "live"}
\* Filled at the broker, not yet in the book.
Fills == [r \in Runs |-> IF thread[r].pc = "filled" THEN thread[r].units ELSE 0]
Flying == SumOver(Fills, Live)
Account == holdings + IF rolled THEN positions ELSE 0
\* _broker_delivery_book: the day's trades are added for a symbol traded today.
DeliveryBook(fold) == holdings + IF fold THEN positions ELSE 0
Agree == Total(Runs) + Flying = Account

Reading(r) == thread[r].pc \in {"book", "adopt", "counted"}
Trading(r) == thread[r].pc \in {"filled", "booked"}
Raced(S) == IF \E r \in S : Reading(r) THEN {"raced"} ELSE {}
RacedBy(S) == IF \E r \in S : Trading(r) THEN {"raced"} ELSE {}
Note(what) ==
  /\ disturbed' = disturbed \cup what
  /\ what \subseteq disturbed \/ Cardinality(disturbed') <= MaxDisturbed
Others(r) == Runs \ {r}
Goes(r, step) == thread' = [thread EXCEPT ![r] = step]

-----------------------------------------------------------------------------
(* _maybe_adopt_fund_holding.                                              *)

\* Mutant of FoldsDay: the day's trades are added whoever made them.
FoldsDayAlways(S) == TRUE

\* _traded_today
FoldsDay(S) == \E s \in S : traded[s]

\* The throttled look at the broker, with this run's own trades of the day.
AdoptReads(r) ==
  /\ market = "open" /\ thread[r] = Idle
  /\ Goes(r, At("book", DeliveryBook(FoldsDay({r}))))
  /\ Note(RacedBy(Others(r)) \cup IF ~traded[r] /\ \E s \in Live : traded[s] THEN {"sibling"} ELSE {})
  /\ UNCHANGED <<broker, runs, owner, outside>>

\* Mutant of AdoptCounts: only the run's own lots are counted.
AdoptCountsOwn(r) ==
  LET missing == thread[r].units - book[r]
      share == Min({missing, Cap - book[r]})
  IN  /\ thread[r].pc = "book"
      /\ Goes(r, IF share < 1 THEN Idle ELSE At("adopt", share))
      /\ UNCHANGED <<broker, runs, owner, outside, disturbed>>

\* What no run of the account claims, up to what this run wants.
AdoptCounts(r) ==
  LET missing == thread[r].units - Total(Runs)
      share == Min({missing, Cap - book[r]})
  IN  /\ thread[r].pc = "book"
      /\ Goes(r, IF share < 1 THEN Idle ELSE At("adopt", share))
      /\ UNCHANGED <<broker, runs, owner, outside, disturbed>>

\* Mutant of AdoptBooks: the units are not booked.
AdoptBooksNothing(r) ==
  /\ thread[r].pc = "adopt"
  /\ Goes(r, Idle)
  /\ UNCHANGED <<broker, runs, owner, outside, disturbed>>

AdoptBooks(r) ==
  /\ thread[r].pc = "adopt"
  /\ book' = [book EXCEPT ![r] = @ + thread[r].units]
  /\ Goes(r, Idle)
  /\ disturbed' = disturbed \cup Raced(Others(r))
  /\ UNCHANGED <<broker, mode, traded, halted, owner, outside>>

-----------------------------------------------------------------------------
(* _maybe_reconcile and reconcile_account_book, of a real-order run.       *)

\* A symbol that no counted run has a lot of is not compared.
ReconcileCounts(r) ==
  /\ market = "open" /\ mode[r] = "live" /\ thread[r] = Idle
  /\ Total(Live) > 0
  /\ Goes(r, [pc |-> "counted", units |-> Total(Live), fold |-> FoldsDay(Live)])
  /\ Note(RacedBy(Others(r)))
  /\ UNCHANGED <<broker, runs, owner, outside>>

Compare(r) ==
  LET difference == DeliveryBook(thread[r].fold) - thread[r].units
  IN  /\ thread[r].pc = "counted"
      /\ halted' = IF difference = 0 \/ halted[r] # "no" THEN halted
                   ELSE [halted EXCEPT ![r] = IF Agree THEN "false" ELSE "real"]
      /\ Goes(r, Idle)
      /\ disturbed' = disturbed \cup IF difference # 0 /\ outside THEN {"unseen"} ELSE {}
      /\ UNCHANGED <<broker, mode, book, traded, owner, outside>>

-----------------------------------------------------------------------------
(* The run's decision: the fill, the book, and the trade log at the end.   *)

Decide(r) ==
  /\ market = "open" /\ rolled /\ halted[r] = "no" /\ thread[r] = Idle
  /\ ~traded[r]
  /\ \E q \in {-1, 1} :
       /\ book[r] + q \in 0..MaxUnits
       /\ Goes(r, At("filled", q))
       /\ IF mode[r] = "paper" THEN UNCHANGED positions
          ELSE Account + q \in 0..MaxUnits /\ positions' = positions + q
  /\ Note(Raced(Others(r)))
  /\ UNCHANGED <<holdings, rolled, market, runs, owner, outside>>

BookTrade(r) ==
  /\ thread[r].pc = "filled"
  /\ book' = [book EXCEPT ![r] = @ + thread[r].units]
  /\ Goes(r, At("booked", 0))
  /\ disturbed' = disturbed \cup Raced(Others(r))
  /\ UNCHANGED <<broker, mode, traded, halted, owner, outside>>

LogTrade(r) ==
  /\ thread[r].pc = "booked"
  /\ traded' = [traded EXCEPT ![r] = TRUE]
  /\ Goes(r, Idle)
  /\ disturbed' = disturbed \cup Raced(Others(r))
  /\ UNCHANGED <<broker, mode, book, halted, owner, outside>>

-----------------------------------------------------------------------------
(* The owner and the calendar.                                             *)

OwnerActs == owner < MaxOwner /\ owner' = owner + 1

\* Units bought or sold in the broker's own screen.
OwnerTrades(q) ==
  /\ market = "open" /\ rolled /\ OwnerActs
  /\ Account + q \in 0..MaxUnits
  /\ positions' = positions + q
  /\ outside' = TRUE
  /\ Note(Raced(Runs) \cup IF q < 0 THEN {"sold"} ELSE {})
  /\ UNCHANGED <<holdings, rolled, market, runs, thread>>

\* Mutant of SetHoldingUnits: the target is taken for a difference.
SetHoldingUnitsBy(r) ==
  LET units == book[r] + Account - Total(Runs)
  IN  /\ OwnerActs /\ ~Trading(r) /\ units \in 0..MaxUnits /\ units # book[r]
      /\ book' = [book EXCEPT ![r] = units - @]
      /\ Note(Raced(Runs) \cup RacedBy(Runs))
      /\ UNCHANGED <<broker, mode, traded, halted, thread, outside>>

\* set_holding_units, to what makes the books agree.
SetHoldingUnits(r) ==
  LET units == book[r] + Account - Total(Runs)
  IN  /\ OwnerActs /\ ~Trading(r) /\ units \in 0..MaxUnits /\ units # book[r]
      /\ book' = [book EXCEPT ![r] = units]
      /\ Note(Raced(Runs) \cup RacedBy(Runs))
      /\ UNCHANGED <<broker, mode, traded, halted, thread, outside>>

Acknowledge(r) ==
  /\ halted[r] # "no"
  /\ halted' = [halted EXCEPT ![r] = "no"]
  /\ UNCHANGED <<broker, mode, book, traded, thread, owner, outside, disturbed>>

Close ==
  /\ market = "open" /\ market' = "closed"
  /\ UNCHANGED <<holdings, positions, rolled, runs, thread, owner, outside, disturbed>>

\* The day's trades settle; positions do not know it yet.
Night ==
  /\ market = "closed" /\ rolled /\ \A r \in Runs : thread[r] = Idle
  /\ market' = "night"
  /\ holdings' = holdings + positions
  /\ rolled' = FALSE
  /\ traded' = [r \in Runs |-> FALSE]
  /\ outside' = FALSE
  /\ UNCHANGED <<positions, mode, book, halted, thread, owner, disturbed>>

\* Trading starts when the session has rolled, pricing perhaps before.
OpenMarket ==
  /\ market = "night" /\ market' = "open"
  /\ UNCHANGED <<holdings, positions, rolled, runs, thread, owner, outside, disturbed>>
Roll ==
  /\ ~rolled /\ rolled' = TRUE /\ positions' = 0
  /\ UNCHANGED <<holdings, market, runs, thread, owner, outside, disturbed>>

\* Books that agree, or units that nobody has adopted yet.
Init ==
  /\ mode \in [Runs -> {"live", "paper"}]
  /\ book \in [Runs -> 0..1]
  /\ holdings \in 0..MaxUnits /\ holdings >= Total(Runs)
  /\ positions = 0 /\ rolled = TRUE /\ market = "open"
  /\ traded = [r \in Runs |-> FALSE]
  /\ halted = [r \in Runs |-> "no"]
  /\ thread = [r \in Runs |-> Idle]
  /\ owner = 0 /\ outside = FALSE /\ disturbed = {}

Continue(r) ==
  \/ AdoptCounts(r) \/ AdoptBooks(r)
  \/ Compare(r)
  \/ BookTrade(r) \/ LogTrade(r)
Calendar == Close \/ Night \/ OpenMarket \/ Roll
Next ==
  \/ \E r \in Runs : \/ AdoptReads(r) \/ ReconcileCounts(r) \/ Decide(r) \/ Continue(r)
                     \/ SetHoldingUnits(r) \/ Acknowledge(r)
  \/ \E q \in {-1, 1} : OwnerTrades(q)
  \/ Calendar

\* A tick that has begun ends, days come and go, and a day is long enough for
\* a look at the holdings every five minutes.
Spec ==
  /\ Init /\ [][Next]_vars
  /\ WF_vars(Close) /\ WF_vars(Night) /\ WF_vars(OpenMarket) /\ WF_vars(Roll)
  /\ \A r \in Runs : WF_vars(Continue(r)) /\ SF_vars(AdoptReads(r))

-----------------------------------------------------------------------------
(* Properties.                                                             *)

\* Every variable stays in its type; no run's book goes below zero.
TypeOK ==
  /\ holdings \in Nat /\ positions \in Int /\ rolled \in BOOLEAN /\ market \in {"open", "closed", "night"}
  /\ mode \in [Runs -> {"live", "paper"}]
  /\ book \in [Runs -> Nat]
  /\ traded \in [Runs -> BOOLEAN]
  /\ halted \in [Runs -> {"no", "real", "false"}]
  /\ thread \in [Runs -> [pc : {"idle", "book", "adopt", "counted",
                                "filled", "booked"}, units : Int, fold : BOOLEAN]]
  /\ owner \in Nat /\ outside \in BOOLEAN
  /\ disturbed \subseteq {"raced", "sibling", "sold", "unseen"}

Without(what) == disturbed \cap what = {}

\* The runs together never claim more than the account holds: what was sold is
\* not adopted again while holdings lag, what was bought is not adopted twice.
\* Broken by a tick that reads while another run trades or adopts, by a sale a
\* sibling run has made today, by a sale of the owner's, and by paper runs.
NoPhantomUnits ==
  Live = Runs /\ Without({"raced", "sibling", "sold"}) => Total(Runs) + Flying <= Account

\* A run halts only when books and account really differ, on the day of its
\* trades and on the next, before and after the session rolls.  Broken by the
\* same overlap of ticks, on a day the owner trades by hand, and by paper runs.
HaltsAreReal ==
  Live = Runs /\ Without({"raced", "unseen"}) => \A r \in Runs : halted[r] # "false"

\* What the owner adds to the account ends up with a run that wants it, unless
\* the reads of its ticks meet another run's trades every day.
TopUpsAreAdopted ==
  Total(Runs) + Flying < Account ~>
    \/ Total(Runs) + Flying >= Account \/ \A r \in Runs : book[r] >= Cap
    \/ ~Without({"raced", "sibling"})
=============================================================================
