---------------------------- MODULE ConsoleJournal ----------------------------
(***************************************************************************)
(* One replay session of the options console (options_console/session.py   *)
(* and registry.py): the owner moves a cursor over recorded minutes and    *)
(* trades by hand.  What was traded is a journal of rows stamped with      *)
(* their minute; the book is what the rows up to the cursor come to.  The  *)
(* registry writes the session through to a file and rebuilds it from      *)
(* there after a restart or an eviction.                                   *)
(*                                                                         *)
(* Abstractions.  Requests come one at a time, and writes of the file      *)
(* succeed (the registry logs one that fails and goes on).  Prices and     *)
(* charges are left out; quantities are lots of one size.  All contracts   *)
(* are of one expiry and one right, and differ in their strike.  A minute  *)
(* is a number; a journal is kept in the order of its minutes, into which  *)
(* _settle_expired sorts it.  An item that has no price refuses its whole  *)
(* action, which changes nothing; a flatten has no items of its own and    *)
(* closes the legs that have a price.  The switch of a leg for the payoff  *)
(* is an action without a row, like a flatten that finds no price; what it *)
(* switches is left out.  A candidate of mixed operations (apply_ops) is   *)
(* one of the actions here.                                                *)
(***************************************************************************)
EXTENDS Sums, SequencesExt

CONSTANTS
  Contracts,
  Lots,                     \* lots of an order
  Minutes,                  \* where the cursor may be
  ExpiryDay, ExpiryAt,      \* first minute of the expiry day; its 15:30
  Overnight,                \* first minute of the day after
  MaxOrders,                \* bound: items of the owner's actions, in all
  MaxHeld,                  \* bound: lots of a leg an order may lead to
  MaxUpsets                 \* bound: deletions, forks, resets and reloads, in all

ASSUME JournalAssumption ==
  /\ Lots \subseteq Nat \ {0}
  /\ Minutes \subseteq Nat /\ Minutes # {}
  /\ {ExpiryDay, ExpiryAt, Overnight} \subseteq Nat
  /\ ExpiryDay <= ExpiryAt /\ ExpiryAt < Overnight
  /\ {MaxOrders, MaxHeld, MaxUpsets} \subseteq Nat

VARIABLES
  journal,                  \* the rows, in order
  clock,                    \* the cursor
  book,                     \* legs, _leg_seq and how many fills they come from
  group,                    \* _group: the last action's number
  file, key,                \* what the registry wrote, and _change_key
  unseen,                   \* observed: changes _change_key cannot see, unwritten
  \* bounds
  orders, upsets

bounds == <<orders, upsets>>
vars == <<journal, clock, book, group, file, key, unseen, bounds>>

Opening == {"BUY", "SHORT"}
Entry(side) == IF side = "B" THEN "BUY" ELSE "SHORT"
Exit(side) == IF side = "B" THEN "SELL" ELSE "COVER"
SideOf(act) == IF act \in {"BUY", "SELL"} THEN "B" ELSE "S"
Other(side) == IF side = "B" THEN "S" ELSE "B"

Row(m, c, act, g, n, rows) ==
  [at |-> m, symbol |-> c, action |-> act, group |-> g, lots |-> n, replaces |-> rows]

\* The first of some positions (0: there is none), and what is at them.
First(I) == IF I = {} THEN 0 ELSE Min(I)
Nth(I, k) == CHOOSE i \in I : Cardinality({h \in I : h <= i}) = k
Pick(j, I) == [k \in 1..Cardinality(I) |-> j[Nth(I, k)]]

\* How many rows the journal has by a minute: they are its beginning.
Upto(j, m) == Cardinality({i \in DOMAIN j : j[i].at <= m})
Kept(j, m) == SubSeq(j, 1, Upto(j, m))
\* The journal's order: after the rows of the same minute.
Insert(j, row) == InsertAt(j, Upto(j, row.at) + 1, row)
RowsOf(j, c) == Pick(j, {i \in DOMAIN j : j[i].symbol = c})
Without(j, c) == Pick(j, {i \in DOMAIN j : j[i].symbol # c})
Opens(j) == Pick(j, {i \in DOMAIN j : j[i].action \in Opening})

-----------------------------------------------------------------------------
(* The book, and what a row does to it.                                    *)

EmptyBook == [legs |-> <<>>, seq |-> 0, fills |-> 0]

\* Merged into the leg of the same contract and side.
Open(b, c, side, n) ==
  LET i == First({k \in DOMAIN b.legs : b.legs[k].symbol = c /\ b.legs[k].side = side})
  IN  IF i > 0
        THEN [b EXCEPT !.legs[i].lots = @ + n, !.fills = @ + 1]
        ELSE [legs |-> Append(b.legs, [id |-> b.seq + 1, symbol |-> c, side |-> side, lots |-> n]),
              seq |-> b.seq + 1, fills |-> b.fills + 1]

\* Mutant of Close: an emptied leg stays in the book.
CloseKeeping(b, i, n) == [b EXCEPT !.legs[i].lots = @ - n, !.fills = @ + 1]

Close(b, i, n) ==
  LET left == b.legs[i].lots - n
  IN  [b EXCEPT !.legs = IF left <= 0 THEN RemoveAt(@, i) ELSE [@ EXCEPT ![i].lots = left],
                !.fills = @ + 1]

\* A sale closes a long leg, a cover a short one, a settlement whichever comes
\* first; a close without its leg does nothing.
Reapply(b, row) ==
  LET i == First({k \in DOMAIN b.legs : /\ b.legs[k].symbol = row.symbol
                                        /\ row.action \in {"SETTLE", Exit(b.legs[k].side)}})
  IN  CASE row.action = "NOOP" -> b
        [] row.action \in Opening -> Open(b, row.symbol, SideOf(row.action), row.lots)
        [] OTHER -> IF i = 0 THEN b ELSE Close(b, i, row.lots)

Books(rows) ==
  LET after[n \in 0..Len(rows)] ==
        IF n = 0 THEN EmptyBook ELSE Reapply(after[n - 1], rows[n])
  IN  after
Replay(rows) == Books(rows)[Len(rows)]

\* Mutant of ReplayBook: only a longer slice is rebuilt.
ReplayBookForward(j, m) ==
  LET rows == Kept(j, m)
  IN  IF j = <<>> \/ (Len(rows) <= book.fills /\ book.legs # <<>>) THEN book ELSE Replay(rows)

\* Nothing is rebuilt when the book already has as many fills as there are rows.
ReplayBook(j, m) ==
  LET rows == Kept(j, m)
  IN  IF j = <<>> \/ (Len(rows) = book.fills /\ book.legs # <<>>) THEN book ELSE Replay(rows)

-----------------------------------------------------------------------------
(* Expiry: a row of its own, once per contract.                            *)

Net(j, c) ==
  SumOver([i \in DOMAIN j |-> IF j[i].action \in Opening THEN j[i].lots ELSE -j[i].lots],
          {i \in DOMAIN j : j[i].symbol = c})

\* Mutant of Settle: one settlement is enough for all contracts.
SettleOnce(j, c) ==
  IF Net(j, c) <= 0 \/ \E i \in DOMAIN j : j[i].action = "SETTLE"
    THEN j
    ELSE Insert(j, Row(ExpiryAt, c, "SETTLE", 0, Net(j, c), <<>>))

Settle(j, c) ==
  IF Net(j, c) <= 0 \/ \E i \in DOMAIN j : j[i].symbol = c /\ j[i].action = "SETTLE"
    THEN j
    ELSE Insert(j, Row(ExpiryAt, c, "SETTLE", 0, Net(j, c), <<>>))

Settlements(j, rows) ==
  LET settled[n \in 0..Len(rows)] ==
        IF n = 0 THEN j ELSE Settle(settled[n - 1], rows[n].symbol)
  IN  settled
SettleExpired(j, m) ==
  IF m < ExpiryDay THEN j ELSE Settlements(j, Opens(j))[Len(Opens(j))]

-----------------------------------------------------------------------------
(* What the registry writes, at the end of every request that succeeds.    *)

\* A changed book is written, a moved cursor at most every two seconds.
Written(booked) ==
  LET moved == clock' # key.clock
      now == [journal |-> journal', clock |-> clock']
  IN  /\ key' = [rows |-> Len(journal'), clock |-> clock']
      /\ \/ booked /\ file' = now
         \/ ~booked /\ moved /\ file' \in {file, now}
         \/ ~booked /\ ~moved /\ file' = file
      /\ unseen' = IF file' = now THEN {}
                   ELSE unseen \cup {c \in {"edit"} : group' > group /\ journal' # journal}

\* Mutant of Notify: an edit that _rev counts is not looked at.
NotifyCountingRows(bumped) == Written(Len(journal') # key.rows)

\* The signature of the book counts rows and undone actions; _rev other edits.
Notify(bumped) == Written(bumped \/ Len(journal') # key.rows)

-----------------------------------------------------------------------------
(* Moving the cursor.                                                      *)

\* seek, step, set_day, shift_day and jump all end in _rebuild_to.  A request
\* that only looks at the session is a seek to where it is.
Seek(m) ==
  /\ clock' = m
  /\ journal' = SettleExpired(journal, m)
  /\ book' = ReplayBook(journal', m)
  /\ UNCHANGED <<group, bounds>>
  /\ Notify(FALSE)

-----------------------------------------------------------------------------
(* An action: its items are made against the book as it is, then applied   *)
(* one after the other.                                                    *)

Legs == {book.legs[i] : i \in DOMAIN book.legs}
Item(kind, id, c, side, n) == [kind |-> kind, leg |-> id, symbol |-> c, side |-> side, lots |-> n]
OnLeg(kind, leg, c, n) == Item(kind, leg.id, c, leg.side, n)

Adds == {Item("add", 0, c, side, n) : c \in Contracts, side \in {"B", "S"}, n \in Lots}
Exits == UNION {{OnLeg("exit", leg, leg.symbol, n) : n \in 1..leg.lots} : leg \in Legs}
Rolls == UNION {{OnLeg("roll", leg, c, leg.lots) : c \in Contracts \ {leg.symbol}} : leg \in Legs}
Resizes ==
  UNION {{OnLeg("resize", leg, leg.symbol, n) : n \in (0..MaxHeld) \ {leg.lots}} : leg \in Legs}
\* flatten closes the legs that have a price, each as it stands.  Without a
\* price it makes no row, and no more does the switch of a leg (toggle).
Flattens ==
  IF Legs = {} THEN {} ELSE
  LET all == [i \in DOMAIN book.legs |->
                LET leg == book.legs[i] IN OnLeg("exit", leg, leg.symbol, leg.lots)]
  IN  {Pick(all, {i \in DOMAIN all : all[i].symbol \in priced}) : priced \in SUBSET Contracts}

\* The multiplier rounds halves to even and takes no leg below a lot.
Double == [n \in Nat |-> 2 * n]
Halve == [n \in Nat |-> IF n % 4 = 3 THEN (n + 1) \div 2 ELSE n \div 2]
Scale(by) ==
  IF Legs = {} \/ \E leg \in Legs : by[leg.lots] \notin 1..MaxHeld THEN {}
  ELSE {[i \in DOMAIN book.legs |->
           LET leg == book.legs[i] IN OnLeg("resize", leg, leg.symbol, by[leg.lots])]}

Single(items) == {<<it>> : it \in items}
Baskets == {<<a, b>> : a \in Adds, b \in Adds}
Actions ==
  Single(Adds \cup Exits \cup Rolls \cup Resizes) \cup Baskets
    \cup Flattens \cup Scale(Double) \cup Scale(Halve)

\* What the items of an action do, one after the other; a leg that is gone
\* fails the action (ok).
With(st, j, b) == [journal |-> j, book |-> b, group |-> st.group, ok |-> st.ok]
Failed(st) == [journal |-> st.journal, book |-> st.book, group |-> st.group, ok |-> FALSE]

Opened(st, c, side, n) ==
  IF n <= 0 THEN st
  ELSE With(st, Insert(st.journal, Row(clock, c, Entry(side), st.group, n, <<>>)),
            Open(st.book, c, side, n))
Closed(st, i, n) ==
  LET leg == st.book.legs[i]
      m == IF n < leg.lots THEN n ELSE leg.lots
  IN  With(st, Insert(st.journal, Row(clock, leg.symbol, Exit(leg.side), st.group, m, <<>>)),
           Close(st.book, i, m))

\* Against the leg of the other side first.
Add(st, it) ==
  LET legs == st.book.legs
      i == First({k \in DOMAIN legs : legs[k].symbol = it.symbol /\ legs[k].side = Other(it.side)})
      rest == IF i = 0 THEN it.lots ELSE it.lots - legs[i].lots
      netted == IF i = 0 THEN st ELSE Closed(st, i, it.lots)
  IN  Opened(netted, it.symbol, it.side, rest)

\* A leg of this minute is still being shaped: all its rows open it here.
Fresh(st, leg) ==
  \A r \in Range(RowsOf(st.journal, leg.symbol)) : r.at = clock /\ r.action \in Opening

\* ... and an edit takes the place of the contract's rows, and carries them.
RewriteFresh(st, leg, c, n) ==
  LET rows == RowsOf(st.journal, leg.symbol)
      edit == IF n > 0 THEN Row(clock, c, Entry(leg.side), st.group, n, rows)
              ELSE Row(clock, leg.symbol, "NOOP", st.group, 0, rows)
      at == First({i \in DOMAIN st.journal : st.journal[i].symbol = leg.symbol})
      edited == InsertAt(Without(st.journal, leg.symbol), at, edit)
  IN  With(st, edited, Replay(Kept(edited, clock)))

Apply(st, it) ==
  LET i == First({k \in DOMAIN st.book.legs : st.book.legs[k].id = it.leg})
      leg == st.book.legs[i]
  IN  CASE ~st.ok -> st
        [] st.ok /\ it.kind = "add" -> Add(st, it)
        [] st.ok /\ it.kind # "add" /\ i = 0 -> Failed(st)
        [] st.ok /\ it.kind = "exit" /\ i > 0 -> Closed(st, i, it.lots)
        [] st.ok /\ it.kind = "roll" /\ i > 0 ->
             IF Fresh(st, leg) THEN RewriteFresh(st, leg, it.symbol, leg.lots)
             ELSE Opened(Closed(st, i, leg.lots), it.symbol, leg.side, leg.lots)
        [] st.ok /\ it.kind = "resize" /\ i > 0 ->
             IF Fresh(st, leg) THEN RewriteFresh(st, leg, leg.symbol, it.lots)
             ELSE IF it.lots < leg.lots THEN Closed(st, i, leg.lots - it.lots)
             ELSE Opened(st, leg.symbol, leg.side, it.lots - leg.lots)

Applied(start, items) ==
  LET st[n \in 0..Len(items)] == IF n = 0 THEN start ELSE Apply(st[n - 1], items[n])
  IN  st

\* An action is counted even if it makes no row.
Cost(items) == IF items = <<>> THEN 1 ELSE Len(items)

\* stage, apply_basket, apply_ops, apply_preset and scale_book.  A leg that is
\* gone ends the request with an error, which notifies nobody.
Act(items) ==
  LET start == [journal |-> journal, book |-> book, group |-> group + 1, ok |-> TRUE]
      end == Applied(start, items)[Len(items)]
  IN  /\ clock < Overnight /\ orders + Cost(items) <= MaxOrders
      /\ orders' = orders + Cost(items)
      /\ group' = group + 1
      /\ journal' = end.journal
      /\ UNCHANGED <<clock, upsets>>
      /\ IF end.ok
           THEN book' = Replay(Kept(journal', clock)) /\ Notify(FALSE)
           ELSE /\ book' = end.book
                /\ unseen' = unseen \cup {"error"}
                /\ UNCHANGED <<file, key>>

-----------------------------------------------------------------------------
(* Taking back.                                                            *)

GivenBack(row, last) == IF row.group = last THEN row.replaces ELSE <<row>>
Back(j, last) ==
  LET back[n \in 0..Len(j)] ==
        IF n = 0 THEN <<>> ELSE back[n - 1] \o GivenBack(j[n], last)
  IN  back

\* Mutant of Undone: what an edit replaced is not given back.
UndoneDropping(j) ==
  LET last == Max({j[i].group : i \in DOMAIN j})
  IN  Pick(j, {i \in DOMAIN j : j[i].group # last})

\* The rows of the last action go, and give back what they replaced.
Undone(j) ==
  Back(j, Max({j[i].group : i \in DOMAIN j}))[Len(j)]

UndoLast ==
  /\ \E i \in DOMAIN journal : journal[i].group > 0
  /\ journal' = Undone(journal)
  /\ book' = Replay(Kept(journal', clock))
  /\ UNCHANGED <<clock, group, bounds>>
  /\ Notify(TRUE)

Discard(j, bumped) ==
  /\ upsets < MaxUpsets
  /\ upsets' = upsets + 1
  /\ journal' = j
  /\ book' = Replay(Kept(j, clock))
  /\ UNCHANGED <<clock, group, orders>>
  /\ Notify(bumped)

DeleteLeg(c) == Without(journal, c) # journal /\ Discard(Without(journal, c), FALSE)
TruncateAfterCursor == Kept(journal, clock) # journal /\ Discard(Kept(journal, clock), TRUE)
ResetBook == journal # <<>> /\ Discard(<<>>, FALSE)

-----------------------------------------------------------------------------
(* The backend restarts, or the registry drops the session, and the next   *)
(* request rebuilds it.                                                    *)

\* Settlements and empty edits go, and so does what an edit replaced.
Restored(j) ==
  LET rows == Pick(j, {i \in DOMAIN j : j[i].action \notin {"SETTLE", "NOOP"}})
  IN  [i \in DOMAIN rows |-> [rows[i] EXCEPT !.replaces = <<>>]]

Rehydrate ==
  /\ upsets < MaxUpsets
  /\ upsets' = upsets + 1
  /\ clock' = file.clock
  /\ journal' = SettleExpired(Restored(file.journal), clock')
  /\ group' = Max({0} \cup {r.group : r \in Range(Restored(file.journal))})
  /\ book' = Replay(Kept(journal', clock'))
  /\ key' = [rows |-> Len(journal'), clock |-> clock']
  /\ unseen' = {}
  /\ UNCHANGED <<file, orders>>

Init ==
  /\ journal = <<>> /\ clock = Min(Minutes) /\ book = EmptyBook /\ group = 0
  /\ file = [journal |-> <<>>, clock |-> clock] /\ key = [rows |-> 0, clock |-> clock]
  /\ unseen = {}
  /\ orders = 0 /\ upsets = 0

Next ==
  \/ \E m \in Minutes : Seek(m)
  \/ \E items \in Actions : Act(items)
  \/ UndoLast \/ TruncateAfterCursor \/ ResetBook \/ Rehydrate
  \/ \E c \in Contracts : DeleteLeg(c)

Spec == Init /\ [][Next]_vars

-----------------------------------------------------------------------------
(* Properties.                                                             *)

\* The rows an edit replaced are rows without a history of their own.
OfRow(r) ==
  /\ r.at \in Minutes \cup {ExpiryAt} /\ r.symbol \in Contracts
  /\ r.group \in 0..group /\ r.lots \in Nat
  /\ r.action \in {"BUY", "SELL", "SHORT", "COVER", "SETTLE", "NOOP"}
  /\ r.action # "NOOP" => r.lots > 0

\* The journal is in the order of its minutes, and no leg is empty, known by
\* an id of another or by one still to be given.
TypeOK ==
  /\ \A r \in Range(journal) : OfRow(r)
  /\ \A i, k \in DOMAIN journal : i < k => journal[i].at <= journal[k].at
  /\ clock \in Minutes /\ group \in Nat
  /\ book.seq \in Nat /\ book.fills \in Nat
  /\ \A i \in DOMAIN book.legs :
       book.legs[i] \in [id : 1..book.seq, symbol : Contracts, side : {"B", "S"}, lots : Nat \ {0}]
  /\ \A i, k \in DOMAIN book.legs : book.legs[i].id = book.legs[k].id => i = k
  /\ file.clock \in Minutes /\ key \in [rows : Nat, clock : Minutes]
  /\ unseen \subseteq {"edit", "error"}

Owners == Pick(journal, {i \in DOMAIN journal : journal[i].action # "SETTLE"})

\* Every row does what it says: none is an edit to nothing, and no close comes
\* after its leg is gone (a trade made behind a later one may do that).
EveryRowCounts == Replay(journal).fills = Len(journal)

\* No close takes more than its leg has left (one made behind a later one may
\* leave that too little).
NoneOvershoots ==
  \A i \in DOMAIN Owners :
    Owners[i].action \in {"SELL", "COVER"} =>
      \E leg \in Range(Books(Owners)[i - 1].legs) :
        /\ leg.symbol = Owners[i].symbol /\ Owners[i].action = Exit(leg.side)
        /\ Owners[i].lots <= leg.lots

\* The owner trades before the settlement's minute.
InHours == \A i \in DOMAIN Owners : Owners[i].at < ExpiryAt

\* No contract reaches its settlement bought and written (a roll onto the
\* strike of the other side leaves both).
OneSided ==
  LET legs == Replay(Owners).legs
  IN  \A i, k \in DOMAIN legs : legs[i].symbol = legs[k].symbol => i = k

\* The settlements are those of the rows as they are now: they are derived
\* when the cursor moves, and once a contract.
SettledAfresh == SettleExpired(Owners, clock) = journal

\* The book is what the journal says at the cursor, wherever the cursor came
\* from (session.py: "rewinding past a fill unwinds it").  Rows that do nothing
\* break it, and trades after the settlement do: ReplayBook counts rows.
RewindUnwinds ==
  EveryRowCounts /\ InHours => book = Replay(Kept(journal, clock))

\* No leg is alive the day after its expiry, whichever way the cursor came
\* there, and with whatever trades since (_settle_expired).
NothingOutlivesExpiry ==
  EveryRowCounts /\ NoneOvershoots /\ InHours /\ OneSided /\ SettledAfresh
    => (clock >= Overnight => book.legs = <<>>)

\* Undo right after an action that made a row gives the journal back that was
\* there before, rows that an in-place edit replaced included (undo_last: "the
\* whole action").  After an action without a row it takes back an earlier one.
UndoTakesBackTheAction ==
  [][group' > group /\ journal' # journal => ToBag(Undone(journal')) = ToBag(journal)]_vars

\* What a restart would rebuild is what was traded, but for an edit that kept
\* the number of rows and an action that failed half-way (registry.py: "a
\* restart, an eviction or the idle sweep costs a reload, not the book").
FileKeepsTheTrades ==
  unseen = {} => Restored(file.journal) = Restored(journal)
=============================================================================
