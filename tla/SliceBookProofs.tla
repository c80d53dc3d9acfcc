--------------------------- MODULE SliceBookProofs ---------------------------
(***************************************************************************)
(* The book of a session, for any symbols, sizes, freeze, lists of         *)
(* actions, slices and interventions: lots and stops, both logs, the       *)
(* account, the handover and the flatten.                                  *)
(***************************************************************************)
EXTENDS SliceBook, SumLemmas, SequenceTheorems

Quiet == Without({"overlap"})
Closing == {"whole", "pool"}
Exiting == {"close", "whole", "pool", "stop"}

\* An action or an order takes units out of the lot b.
Touches(a, b) ==
  a.kind \in Exiting /\ lots[b].symbol = a.symbol /\ (a.kind = "pool" \/ lots[b].id = a.lot)

(* The threads.                                                            *)

\* A thread at rest has no order, nothing to do and nothing unwritten.
AtRest ==
  \A t \in Threads : Idle(t) => todo[t] = <<>> /\ order[t] = NoOrder /\ ~Unwritten(t)

\* An order out is of the action whose turn it is.
OrderIsOf(o, a) ==
  /\ o.symbol = a.symbol /\ o.lot = a.lot
  /\ o.kind = a.kind \/ (a.kind = "close" /\ o.kind = "whole")
  /\ a.kind = "open" => o.ask = a.units
OrdersAreActions ==
  \A t \in Threads : order[t] # NoOrder => todo[t] # <<>> /\ OrderIsOf(order[t], Head(todo[t]))

\* One thread at a time, unless they have overlapped.
OneThread == Quiet => Idle("tick") \/ Idle("hand")

\* The owner's lists: entries and exits of some units, or the end of lots.
HandLists ==
  /\ stage["hand"] # "stops"
  /\ \A i \in DOMAIN todo["hand"] :
       todo["hand"][i].kind \in IF job = "order" THEN {"open", "close", "whole"} ELSE Closing
  /\ settling # {} =>
       /\ ~Idle("hand") /\ job = "adopt"
       /\ \A i \in DOMAIN todo["hand"] : todo["hand"][i].symbol \in settling
  /\ \A s \in settling : outside[s] = "closed"

\* Entries and partial exits are of some units, and no list names a lot that is yet to come.
ListsAreReal ==
  \A t \in Threads : \A i \in DOMAIN todo[t] :
    LET a == todo[t][i]
    IN  /\ a.kind \in {"open", "close"} => a.units > 0
        /\ a.kind \in {"close", "whole", "attach"} => a.lot < nextId

IdsAreTaken == \A b \in Birth : Open(b) => lots[b].id < nextId
ListInv == AtRest /\ OrdersAreActions /\ OneThread /\ HandLists /\ ListsAreReal
ThreadInv == TypeOK /\ ListInv /\ IdsAreUnique /\ IdsAreTaken

(* Lots and stops.                                                         *)

NamedByBirth ==
  Without({"restart"}) => nextId = Len(lots) + 1 /\ \A b \in Birth : lots[b].id = b
AttachesAreReal ==
  Without({"restart"}) =>
    \A t \in Threads : \A i \in DOMAIN todo[t] :
      LET a == todo[t][i]
      IN  a.kind = "attach" => a.lot \in Birth /\ lots[a.lot].symbol = a.symbol
StopsAreReal == Without({"restart"}) => \A st \in stops : st.lot < nextId
LotInv ==
  /\ ThreadInv /\ StopsGuardTheirLots
  /\ NamedByBirth /\ AttachesAreReal /\ StopsAreReal

(* The orders and the book.                                                *)

\* A partial exit asks for no more than its lot has, and nothing before it in
\* its list touches the lot.
ExitsFit ==
  Quiet => \A t \in Threads : \A j \in DOMAIN todo[t] :
    todo[t][j].kind = "close" /\ todo[t][j].symbol \notin Shorts =>
      \A b \in Birth : Open(b) /\ Touches(todo[t][j], b) =>
        /\ todo[t][j].units <= lots[b].units
        /\ \A i \in 1..(j - 1) : ~Touches(todo[t][i], b)

\* What an order was sent for is still in the book.
OrderFits(o) ==
  /\ o.kind \notin {"none", "pool"} => o.ask > 0
  /\ o.kind \in Exiting => Target(o) # {}
  /\ o.kind = "whole" => \A b \in Target(o) : o.ask = lots[b].units
  /\ o.kind \in {"close", "stop"} => \A b \in Target(o) : o.ask <= lots[b].units
  /\ o.kind = "pool" =>
       /\ o.ask = Units(o.symbol)
       /\ o.parts = [b \in Birth |-> IF b \in LotsOf(o.symbol) THEN lots[b].units ELSE 0]
OrdersFit == Quiet => \A t \in Threads : OrderFits(order[t])
BookInv == LotInv /\ ExitsFit /\ OrdersFit
LogInv == BookInv /\ LogsMatchBook

(* The account.                                                            *)

\* While no order has come back short, what is asked for is filled or still to
\* come; the orders of an adoption send nothing, for what the account has not.
Whole == Without({"overlap", "partial"})
Filling(o) == IF settling = {} THEN o.filled + o.left = o.ask ELSE o.filled = 0 /\ o.left = 0
OrdersFillWhole == Whole => \A t \in Threads : Filling(order[t])
SettlingIsGone == Whole => \A s \in settling : account[s] = 0

\* Each lot that a flatten or an adoption is to close has its action to come.
ClosingOut ==
  Quiet /\ ~Idle("hand") =>
    \A b \in Birth : Open(b) /\ (job = "flatten" \/ lots[b].symbol \in settling) =>
      \E i \in DOMAIN todo["hand"] : Touches(todo["hand"][i], b)
FlattenInv == BookInv /\ ClosingOut
AccountInv == FlattenInv /\ OrdersFillWhole /\ SettlingIsGone /\ AccountMatchesBook

(* The handover.                                                           *)

HandledIsOpen == handled => \E b \in Birth : Open(b)
\* What the owner's list is still to exit, it has not entered.
HandExitsOnly ==
  Quiet => \A i \in DOMAIN todo["hand"] : \A b \in Birth :
    Open(b) /\ Touches(todo["hand"][i], b) => lots[b].due["hand"] <= 0
\* The strategy has an open book with the owner's hand in it only while the
\* owner's list is under way and has something to write.
HandedSoon ==
  Without({"overlap", "hand"}) /\ handled /\ managedBy = "strategy" =>
    ~Idle("hand") /\ Unwritten("hand")
HandedInv == BookInv /\ HandledIsOpen /\ HandExitsOnly /\ HandedSoon

-----------------------------------------------------------------------------
(* Least and greatest, and the recorded sequences.                         *)

LEMMA LeastNat ==
  ASSUME NEW T \in SUBSET Nat, T # {}
  PROVE  Min(T) \in T /\ \A y \in T : Min(T) <= y
<1>1. \E x \in T : \A y \in T : x <= y
  BY MinimalNat
<1> QED BY <1>1 DEF Min

\* Of finitely many numbers one is the greatest.
LEMMA BoundExists ==
  ASSUME NEW n \in Nat, NEW f, \A i \in 1..n : f[i] \in Nat
  PROVE  \E B \in Nat : \A i \in 1..n : f[i] <= B
<1> DEFINE Bounded(k) == \E B \in Nat : \A i \in Nat : 1 <= i /\ i <= k => f[i] <= B
           Bad == {k \in 0..n : ~Bounded(k)}
<1>1. ASSUME Bad # {} PROVE FALSE
  <2>1. Bad \in SUBSET Nat
    OBVIOUS
  <2>2. PICK k \in Bad : \A m \in Bad : k <= m
    <3> HIDE DEF Bad
    <3> QED BY <1>1, <2>1, MinimalNat
  <2>3. k # 0
    <3>1. 0 \in Nat /\ \A i \in Nat : 1 <= i /\ i <= 0 => f[i] <= 0
      OBVIOUS
    <3> QED BY <2>2, <3>1
  <2>4. k \in Nat /\ k <= n /\ k - 1 \in 0..n /\ ~(k <= k - 1) /\ f[k] \in Nat
    BY <2>2, <2>3
  <2>5. Bounded(k - 1) /\ ~Bounded(k)
    <3> HIDE DEF Bounded
    <3>1. k - 1 \notin Bad
      BY <2>2, <2>4
    <3> QED BY <2>2, <2>4, <3>1
  <2>6. PICK B \in Nat : \A i \in Nat : 1 <= i /\ i <= k - 1 => f[i] <= B
    BY <2>5
  <2>7. \A i \in Nat : 1 <= i /\ i <= k => f[i] \in Nat /\ (i = k \/ i <= k - 1)
    BY <2>4
  <2>8. CASE f[k] <= B
    <3>1. \A i \in Nat : 1 <= i /\ i <= k => f[i] <= B
      BY <2>6, <2>7, <2>8
    <3> QED BY <2>5, <3>1
  <2>9. CASE f[k] > B
    <3>1. \A i \in Nat : 1 <= i /\ i <= k => f[i] <= f[k]
      BY <2>4, <2>6, <2>7, <2>9
    <3> QED BY <2>4, <2>5, <3>1
  <2> QED BY <2>4, <2>8, <2>9
<1>2. Bounded(n)
  BY <1>1
<1> QED BY <1>2

LEMMA GreatestNat ==
  ASSUME NEW T \in SUBSET Nat, T # {}, NEW B \in Nat, \A x \in T : x <= B
  PROVE  Max(T) \in T /\ \A y \in T : y <= Max(T)
<1> DEFINE D == {d \in Nat : \E x \in T : d = B - x}
<1>1. D # {}
  <2>1. PICK x \in T : TRUE
    OBVIOUS
  <2>2. B - x \in Nat
    BY <2>1
  <2> QED BY <2>1, <2>2
<1>2. PICK d \in D : \A e \in D : d <= e
  <2> HIDE DEF D
  <2>1. D \in SUBSET Nat
    BY DEF D
  <2> QED BY <1>1, <2>1, MinimalNat
<1>3. PICK x \in T : d = B - x
  BY <1>2
<1>4. \A y \in T : y <= x
  <2> SUFFICES ASSUME NEW y \in T PROVE y <= x
    OBVIOUS
  <2>1. B - y \in D
    OBVIOUS
  <2> QED BY <1>2, <1>3, <2>1
<1> QED BY <1>4 DEF Max

\* A function on 1..n is a sequence of length n.
LEMMA FunctionIsSeq ==
  ASSUME NEW S, NEW n \in Nat, NEW f \in [1..n -> S]
  PROVE  f \in Seq(S) /\ Len(f) = n
<1>1. f \in Seq(S)
  BY SeqDef
<1>2. DOMAIN f = 1..Len(f) /\ Len(f) \in Nat /\ DOMAIN f = 1..n
  BY <1>1, LenProperties
<1> QED BY <1>1, <1>2

LEMMA LotsTyped ==
  ASSUME TypeOK
  PROVE  /\ Len(lots) \in Nat /\ Birth = 1..Len(lots) /\ IsFiniteSet(Birth)
         /\ lots \in [Birth -> Lot]
         /\ \A b \in Birth : lots[b] \in Lot
<1>1. lots \in Seq(Lot)
  BY DEF TypeOK
<1>2. Len(lots) \in Nat /\ lots \in [1..Len(lots) -> Lot] /\ DOMAIN lots = 1..Len(lots)
  BY <1>1, LenProperties
<1>3. IsFiniteSet(1..Len(lots))
  BY <1>2, FS_Interval
<1> QED BY <1>2, <1>3 DEF Birth

LEMMA UnitsTyped ==
  ASSUME TypeOK
  PROVE  /\ \A S \in SUBSET Birth : UnitsIn(S) \in Nat
         /\ \A s : Units(s) \in Nat
<1>1. ASSUME NEW S \in SUBSET Birth PROVE UnitsIn(S) \in Nat
  <2>1. IsFiniteSet(S)
    BY LotsTyped, FS_Subset
  <2>2. \A b \in S : [c \in Birth |-> lots[c].units][b] \in Nat
    BY LotsTyped DEF Lot
  <2> QED BY <2>1, <2>2, SumNat DEF UnitsIn
<1> QED BY <1>1 DEF Units, LotsOf

\* The lot b with other units and logs is a lot with its name.
LEMMA LotAsIs ==
  ASSUME TypeOK, NEW b \in Birth, NEW units \in Nat, NEW log \in Int, NEW trail \in Int,
         NEW due \in [Threads -> Int]
  PROVE  LotAs(b, units, log, trail, due) \in Lot
BY LotsTyped DEF LotAs, Lot

-----------------------------------------------------------------------------
(* What the steps do to lots, lists and orders.                            *)

\* The lots, their names and their units are as they were.
SameBook ==
  /\ Birth' = Birth
  /\ \A b \in Birth : /\ lots'[b].id = lots[b].id /\ lots'[b].symbol = lots[b].symbol
                      /\ lots'[b].units = lots[b].units

LEMMA WrittenIs ==
  ASSUME TypeOK, NEW t \in Threads, NEW inLog \in BOOLEAN, NEW inTrail \in BOOLEAN,
         lots' = Written(t, inLog, inTrail)
  PROVE  /\ lots' \in Seq(Lot) /\ Len(lots') = Len(lots) /\ SameBook
         /\ \A b \in Birth :
              /\ lots'[b].due = [lots[b].due EXCEPT ![t] = 0]
              /\ lots'[b].log = IF inLog THEN lots[b].log + lots[b].due[t] ELSE lots[b].log
              /\ lots'[b].trail = IF inTrail THEN lots[b].trail + lots[b].due[t] ELSE lots[b].trail
<1> DEFINE newLog(b) == IF inLog THEN lots[b].log + lots[b].due[t] ELSE lots[b].log
           newTrail(b) == IF inTrail THEN lots[b].trail + lots[b].due[t] ELSE lots[b].trail
           newDue(b) == [lots[b].due EXCEPT ![t] = 0]
<1>1. \A b \in Birth : /\ newLog(b) \in Int /\ newTrail(b) \in Int /\ newDue(b) \in [Threads -> Int]
                       /\ lots[b].units \in Nat
  BY LotsTyped DEF Lot
<1>2. lots' = [b \in Birth |-> LotAs(b, lots[b].units, newLog(b), newTrail(b), newDue(b))]
  BY DEF Written
<1> HIDE DEF newLog, newTrail, newDue
<1>3. \A b \in Birth : LotAs(b, lots[b].units, newLog(b), newTrail(b), newDue(b)) \in Lot
  BY <1>1, LotAsIs
<1>4. lots' \in [1..Len(lots) -> Lot] /\ Len(lots) \in Nat
  BY <1>2, <1>3, LotsTyped
<1>5. lots' \in Seq(Lot) /\ Len(lots') = Len(lots)
  BY <1>4, FunctionIsSeq
<1>6. Birth' = Birth
  BY <1>2 DEF Birth
<1>7. \A b \in Birth : lots'[b] = LotAs(b, lots[b].units, newLog(b), newTrail(b), newDue(b))
  BY <1>2
<1>8. ASSUME NEW b \in Birth
      PROVE  /\ lots'[b].id = lots[b].id /\ lots'[b].symbol = lots[b].symbol
             /\ lots'[b].units = lots[b].units
             /\ lots'[b].due = newDue(b) /\ lots'[b].log = newLog(b) /\ lots'[b].trail = newTrail(b)
  <2>1. lots'[b] = LotAs(b, lots[b].units, newLog(b), newTrail(b), newDue(b))
    BY <1>7
  <2> QED BY <2>1 DEF LotAs
<1>9. SameBook
  BY <1>6, <1>8 DEF SameBook
<1> QED BY <1>5, <1>8, <1>9 DEF newLog, newTrail, newDue

LEMMA ReducedIs ==
  ASSUME TypeOK, NEW t \in Threads, NEW b \in Birth, NEW u \in Nat, NEW e \in Int,
         u <= lots[b].units
  PROVE  LET l == Reduced(b, t, u, e)
         IN  /\ l \in Lot /\ l.id = lots[b].id /\ l.symbol = lots[b].symbol
             /\ l.units = lots[b].units - u /\ l.log = lots[b].log /\ l.trail = lots[b].trail
             /\ l.due = [lots[b].due EXCEPT ![t] = @ - e]
<1> DEFINE units == lots[b].units - u
           due == [lots[b].due EXCEPT ![t] = @ - e]
<1>1. units \in Nat /\ due \in [Threads -> Int] /\ lots[b].log \in Int /\ lots[b].trail \in Int
  BY LotsTyped DEF Lot
<1>2. Reduced(b, t, u, e) = LotAs(b, units, lots[b].log, lots[b].trail, due)
  BY DEF Reduced
<1> HIDE DEF units, due
<1>3. LotAs(b, units, lots[b].log, lots[b].trail, due) \in Lot
  BY <1>1, LotAsIs
<1>4. LET l == LotAs(b, units, lots[b].log, lots[b].trail, due)
      IN  /\ l.id = lots[b].id /\ l.symbol = lots[b].symbol
          /\ l.units = units /\ l.log = lots[b].log /\ l.trail = lots[b].trail /\ l.due = due
  BY DEF LotAs
<1> QED BY <1>2, <1>3, <1>4 DEF units, due

LEMMA LotsRebuilt ==
  ASSUME TypeOK, NEW f \in [Birth -> Lot]
  PROVE  f \in Seq(Lot) /\ Len(f) = Len(lots) /\ DOMAIN f = Birth
<1>1. f \in [1..Len(lots) -> Lot] /\ Len(lots) \in Nat
  BY LotsTyped
<1> QED BY <1>1, FunctionIsSeq

\* The first action of a list goes; the others move up.
LEMMA ListTyped ==
  ASSUME TypeOK, NEW t \in Threads
  PROVE  /\ todo[t] \in Seq(Action) /\ Len(todo[t]) \in Nat /\ DOMAIN todo[t] = 1..Len(todo[t])
         /\ \A i \in DOMAIN todo[t] : todo[t][i] \in Action
         /\ todo[t] # <<>> =>
              /\ 1 \in DOMAIN todo[t] /\ Head(todo[t]) = todo[t][1]
              /\ Tail(todo[t]) \in Seq(Action) /\ Len(Tail(todo[t])) = Len(todo[t]) - 1
              /\ DOMAIN Tail(todo[t]) = 1..(Len(todo[t]) - 1)
              /\ \A i \in DOMAIN Tail(todo[t]) :
                   i + 1 \in DOMAIN todo[t] /\ Tail(todo[t])[i] = todo[t][i + 1]
<1>1. todo[t] \in Seq(Action)
  BY DEF TypeOK
<1>2. Len(todo[t]) \in Nat /\ DOMAIN todo[t] = 1..Len(todo[t])
      /\ \A i \in DOMAIN todo[t] : todo[t][i] \in Action
  BY <1>1, LenProperties
<1>3. ASSUME todo[t] # <<>>
      PROVE  /\ 1 \in DOMAIN todo[t] /\ Head(todo[t]) = todo[t][1]
             /\ Tail(todo[t]) \in Seq(Action) /\ Len(Tail(todo[t])) = Len(todo[t]) - 1
             /\ DOMAIN Tail(todo[t]) = 1..(Len(todo[t]) - 1)
             /\ \A i \in DOMAIN Tail(todo[t]) :
                  i + 1 \in DOMAIN todo[t] /\ Tail(todo[t])[i] = todo[t][i + 1]
  <2>1. Len(todo[t]) # 0
    BY <1>1, <1>3, EmptySeq
  <2>2. /\ Tail(todo[t]) \in Seq(Action) /\ Len(Tail(todo[t])) = Len(todo[t]) - 1
        /\ \A i \in 1..Len(Tail(todo[t])) : Tail(todo[t])[i] = todo[t][i + 1]
    BY <1>1, <1>3, HeadTailProperties
  <2>3. DOMAIN Tail(todo[t]) = 1..Len(Tail(todo[t]))
    BY <2>2, LenProperties
  <2> QED BY <1>1, <1>2, <2>1, <2>2, <2>3
<1> QED BY <1>1, <1>2, <1>3

\* A list of actions of x names each of them once.
LEMMA ListIs ==
  ASSUME NEW x, NEW list \in Lists(x)
  PROVE  /\ list \in Seq(x) /\ DOMAIN list = 1..Len(list) /\ Len(list) \in Nat
         /\ \A i \in DOMAIN list : list[i] \in x
         /\ \A a \in x : \E i \in DOMAIN list : list[i] = a
         /\ \A i, j \in DOMAIN list : i < j => list[i] # list[j]
<1>1. PICK n \in 0..MaxActions : list \in [1..n -> x]
  BY DEF Lists
<1>2. n \in Nat
  BY <1>1, BookAssumption
<1>3. list \in Seq(x)
  BY <1>1, <1>2, FunctionIsSeq
<1>4. DOMAIN list = 1..Len(list) /\ Len(list) \in Nat
  BY <1>3, LenProperties
<1> QED BY <1>1, <1>3, <1>4 DEF Lists

-----------------------------------------------------------------------------
(* What the resolver and the owner may ask for.                            *)

\* An action that makes sense in the book as it is.
Sound(a) ==
  /\ a \in Action /\ a.kind # "stop"
  /\ a.kind \in {"open", "close"} => a.units > 0
  /\ a.kind \in {"close", "whole", "attach"} =>
       \E b \in Birth : /\ Open(b) /\ a.lot = lots[b].id /\ a.symbol = lots[b].symbol
                        /\ a.kind = "close" => a.units <= lots[b].units

\* No lot is reduced in part and touched by another action of the list.
Disjoint(x) ==
  \A a, c \in x : a # c /\ a.kind = "close" =>
    \A b \in Birth : Open(b) => ~(Touches(a, b) /\ Touches(c, b))

LEMMA OnLotIsSound ==
  ASSUME TypeOK, NEW b \in Birth, Open(b), NEW k \in {"close", "whole", "attach"}, NEW q \in Nat,
         k = "close" => q > 0 /\ q <= lots[b].units
  PROVE  Sound(OnLot(k, b, q))
<1>1. lots[b].symbol \in Symbols /\ lots[b].id \in Nat
  BY LotsTyped DEF Lot
<1>2. OnLot(k, b, q) \in Action
  BY <1>1 DEF OnLot, Action
<1>3. /\ OnLot(k, b, q).kind = k /\ OnLot(k, b, q).lot = lots[b].id
      /\ OnLot(k, b, q).symbol = lots[b].symbol /\ OnLot(k, b, q).units = q
  BY DEF OnLot
<1> QED BY <1>2, <1>3 DEF Sound

LEMMA WholeExitIs ==
  ASSUME TypeOK, NEW b \in Birth, Open(b)
  PROVE  /\ Sound(WholeExit(b)) /\ Touches(WholeExit(b), b)
         /\ WholeExit(b).symbol = lots[b].symbol /\ WholeExit(b).lot = lots[b].id
         /\ WholeExit(b).kind = IF lots[b].symbol \in Shorts THEN "whole" ELSE "close"
<1>1. lots[b].units \in Nat /\ lots[b].units > 0
  BY LotsTyped DEF Lot, Open
<1>2. Sound(WholeExit(b))
  BY <1>1, OnLotIsSound DEF WholeExit
<1>3. /\ WholeExit(b).symbol = lots[b].symbol /\ WholeExit(b).lot = lots[b].id
      /\ WholeExit(b).kind = IF lots[b].symbol \in Shorts THEN "whole" ELSE "close"
  BY DEF WholeExit, OnLot
<1> QED BY <1>2, <1>3 DEF Touches, Exiting

LEMMA EntryIs ==
  ASSUME NEW s \in Symbols, NEW q \in Sizes
  PROVE  Sound(Entry(s, q)) /\ Entry(s, q).kind = "open"
<1>1. q \in Nat \ {0}
  BY BookAssumption
<1> QED BY <1>1 DEF Entry, Sound, Action

LEMMA CloseOutIs ==
  ASSUME TypeOK, NEW s \in Held
  PROVE  /\ \A a \in CloseOut(s) : Sound(a) /\ a.kind \in Closing /\ a.symbol = s
         /\ \A b \in LotsOf(s) : \E a \in CloseOut(s) : Touches(a, b)
<1>1. CASE s \in Shorts
  <2>1. \A b \in LotsOf(s) :
          /\ Sound(WholeExit(b)) /\ WholeExit(b).kind = "whole" /\ WholeExit(b).symbol = s
          /\ Touches(WholeExit(b), b)
    BY <1>1, WholeExitIs DEF LotsOf
  <2> QED BY <1>1, <2>1 DEF CloseOut, Closing
<1>2. CASE s \notin Shorts
  <2>1. s \in Symbols /\ CloseOut(s) = {Pool(s)}
    BY <1>2 DEF Held, CloseOut
  <2>2. Sound(Pool(s)) /\ Pool(s).kind = "pool" /\ Pool(s).symbol = s
    BY <2>1 DEF Pool, Sound, Action
  <2>3. \A b \in LotsOf(s) : Touches(Pool(s), b)
    BY <2>2 DEF Touches, LotsOf, Exiting
  <2> QED BY <2>1, <2>2, <2>3 DEF Closing
<1> QED BY <1>1, <1>2

\* Each signal is sound, and a partial exit in it at most has a stop beside it.
LEMMA SignalsAre ==
  ASSUME TypeOK
  PROVE  \A x \in Signals : \A a \in x :
           Sound(a) /\ (a.kind = "close" => \A c \in x : c = a \/ c.kind = "attach")
<1> DEFINE Fine(x) == \A a \in x :
             Sound(a) /\ (a.kind = "close" => \A c \in x : c = a \/ c.kind = "attach")
           visible == {b \in Birth : Open(b) /\ ~Managed(b)}
           long == {b \in visible : lots[b].symbol \notin Shorts}
<1>1. ASSUME NEW x \in Entries PROVE Fine(x)
  <2>1. PICK s \in Symbols, q \in Sizes : x = {Entry(s, q)}
    BY <1>1 DEF Entries, Tradable
  <2> QED BY <2>1, EntryIs
<1>2. ASSUME NEW x \in Exits(visible) PROVE Fine(x)
  <2>1. PICK b \in visible : x = {WholeExit(b)}
    BY <1>2 DEF Exits
  <2> QED BY <2>1, WholeExitIs
<1>3. ASSUME NEW S \in SUBSET visible, NEW x \in PartialExits(S)
      PROVE  Fine(x) /\ \E b \in S : \E q \in 1..(lots[b].units - 1) : x = {OnLot("close", b, q)}
  <2>1. PICK b \in S : \E q \in 1..(lots[b].units - 1) : x = {OnLot("close", b, q)}
    BY <1>3 DEF PartialExits
  <2>2. PICK q \in 1..(lots[b].units - 1) : x = {OnLot("close", b, q)}
    BY <2>1
  <2>3. lots[b].units \in Nat /\ b \in Birth /\ Open(b)
    BY LotsTyped DEF Lot
  <2>4. q \in Nat /\ q > 0 /\ q <= lots[b].units
    BY <2>3
  <2>5. Sound(OnLot("close", b, q))
    BY <2>3, <2>4, OnLotIsSound
  <2> QED BY <2>2, <2>5
<1>4. ASSUME NEW x \in Trails(long) PROVE Fine(x)
  <2>1. PICK b \in long : \E y \in {{}} \cup PartialExits({b}) : x = y \cup {OnLot("attach", b, 0)}
    BY <1>4 DEF Trails
  <2>2. PICK y \in {{}} \cup PartialExits({b}) : x = y \cup {OnLot("attach", b, 0)}
    BY <2>1
  <2>3. Sound(OnLot("attach", b, 0)) /\ OnLot("attach", b, 0).kind = "attach"
    BY OnLotIsSound DEF OnLot
  <2>4. CASE y = {}
    BY <2>2, <2>3, <2>4
  <2>5. CASE y \in PartialExits({b})
    <3>1. {b} \in SUBSET visible
      OBVIOUS
    <3>2. Fine(y) /\ \E c \in {b} : \E q \in 1..(lots[c].units - 1) : y = {OnLot("close", c, q)}
      BY <1>3, <2>5, <3>1
    <3> HIDE DEF visible, long
    <3> QED BY <2>2, <2>3, <3>2
  <2> QED BY <2>2, <2>4, <2>5
<1>5. ASSUME NEW s \in Held PROVE Fine(CloseOut(s))
  BY <1>5, CloseOutIs DEF Closing
<1> HIDE DEF Fine
<1>6. ASSUME NEW x \in Signals PROVE Fine(x)
  <2>1. long \in SUBSET visible
    OBVIOUS
  <2>2. \/ x \in Entries \/ x \in Exits(visible) \/ x \in PartialExits(long) \/ x \in Trails(long)
        \/ \E s \in Held : x = CloseOut(s)
    BY <1>6 DEF Signals
  <2> HIDE DEF visible, long
  <2> QED BY <1>1, <1>2, <1>3, <1>4, <1>5, <2>1, <2>2
<1> QED BY <1>6 DEF Fine

LEMMA ApartIsDisjoint ==
  ASSUME NEW a, NEW c, Apart(a, c) \/ Apart(c, a), NEW b \in Birth
  PROVE  ~(Touches(a, b) /\ Touches(c, b))
BY DEF Apart, Touches, Exiting

LEMMA DecisionsAre ==
  ASSUME TypeOK, NEW x \in Decisions
  PROVE  (\A a \in x : Sound(a)) /\ Disjoint(x)
<1> DEFINE One == {a \in UNION Signals : {a} \in Signals}
<1>1. CASE x = {}
  BY <1>1 DEF Disjoint
<1>2. CASE x = UNION {CloseOut(s) : s \in Held}
  <2>1. \A a \in x : Sound(a) /\ a.kind \in Closing
    BY <1>2, CloseOutIs
  <2> QED BY <2>1 DEF Disjoint, Closing
<1>3. CASE x \in Signals
  <2>1. \A a \in x : Sound(a) /\ (a.kind = "close" => \A c \in x : c = a \/ c.kind = "attach")
    BY <1>3, SignalsAre
  <2> QED BY <2>1 DEF Disjoint, Touches, Exiting
<1>4. ASSUME NEW p \in One \X One, Apart(p[1], p[2]), x = {p[1], p[2]}
      PROVE  (\A a \in x : Sound(a)) /\ Disjoint(x)
  <2>1. p[1] \in UNION Signals /\ p[2] \in UNION Signals
    BY <1>4
  <2>2. Sound(p[1]) /\ Sound(p[2])
    BY <2>1, SignalsAre
  <2>3. ASSUME NEW a \in x, NEW c \in x, a # c, NEW b \in Birth
        PROVE  ~(Touches(a, b) /\ Touches(c, b))
    <3>1. Apart(a, c) \/ Apart(c, a)
      BY <1>4, <2>3
    <3> QED BY <3>1, ApartIsDisjoint
  <2> QED BY <1>4, <2>2, <2>3 DEF Disjoint
<1>5. \/ x = {} \/ x = UNION {CloseOut(s) : s \in Held} \/ x \in Signals
      \/ \E p \in One \X One : Apart(p[1], p[2]) /\ x = {p[1], p[2]}
  BY DEF Decisions
<1> HIDE DEF One
<1> QED BY <1>1, <1>2, <1>3, <1>4, <1>5

\* The exits of an order by units: of each lot, what the order takes from it.
LEMMA ReduceIs ==
  ASSUME TypeOK, IdsAreUnique, NEW s \in Held, NEW q \in 1..Units(s)
  PROVE  \A a \in Reduce(s, q) :
           /\ Sound(a) /\ a.kind \in {"close", "whole"}
           /\ \E b \in Birth : Open(b) /\ Touches(a, b) /\
                \A c \in Reduce(s, q) : \A d \in Birth :
                  Open(d) /\ Touches(c, d) => (d = b <=> c = a)
<1> DEFINE before(b) == UnitsIn({c \in LotsOf(s) : c < b})
           take(b) == Min({q - before(b), lots[b].units})
           exit(b) == IF take(b) = lots[b].units THEN WholeExit(b) ELSE OnLot("close", b, take(b))
           reached == {c \in LotsOf(s) : before(c) < q}
<1>1. Reduce(s, q) = {exit(b) : b \in reached}
  BY DEF Reduce
<1>2. \A b \in reached : b \in Birth /\ Open(b) /\ lots[b].symbol = s
  BY DEF LotsOf
<1>3. ASSUME NEW b \in reached
      PROVE  /\ Sound(exit(b)) /\ exit(b).kind \in {"close", "whole"}
             /\ exit(b).symbol = s /\ exit(b).lot = lots[b].id
  <2>1. b \in Birth /\ Open(b) /\ lots[b].symbol = s /\ before(b) < q
    BY <1>3 DEF LotsOf
  <2>2. lots[b].units \in Nat /\ lots[b].units > 0
    BY <2>1, LotsTyped DEF Lot, Open
  <2>3. before(b) \in Nat /\ q \in Nat
    <3>1. {c \in LotsOf(s) : c < b} \in SUBSET Birth
      BY DEF LotsOf
    <3>2. Units(s) \in Nat
      BY UnitsTyped
    <3> QED BY <3>1, <3>2, UnitsTyped
  <2> DEFINE T == {q - before(b), lots[b].units}
  <2>4. T \in SUBSET Nat /\ T # {} /\ 0 \notin T /\ lots[b].units \in T
    <3> HIDE DEF before
    <3> QED BY <2>1, <2>2, <2>3
  <2>5. take(b) \in Nat /\ take(b) > 0 /\ take(b) <= lots[b].units
    <3> HIDE DEF T
    <3>1. Min(T) \in T /\ \A y \in T : Min(T) <= y
      BY <2>4, LeastNat
    <3>2. Min(T) <= lots[b].units
      BY <2>4, <3>1
    <3>3. Min(T) \in Nat /\ Min(T) # 0
      BY <2>4, <3>1
    <3>4. \A m \in Nat : m # 0 => m > 0
      OBVIOUS
    <3> QED BY <3>2, <3>3, <3>4 DEF T
  <2> HIDE DEF take
  <2>6. CASE take(b) = lots[b].units
    BY <2>1, <2>6, WholeExitIs
  <2>7. CASE take(b) # lots[b].units
    <3>1. Sound(OnLot("close", b, take(b)))
      BY <2>1, <2>5, OnLotIsSound
    <3> QED BY <2>1, <2>7, <3>1 DEF OnLot
  <2> QED BY <2>6, <2>7
<1> HIDE DEF exit, reached
<1>4. \A b \in reached : \A d \in Birth : Open(d) /\ Touches(exit(b), d) <=> d = b
  BY <1>2, <1>3 DEF Touches, Exiting, IdsAreUnique
<1> QED
  <2> TAKE a \in Reduce(s, q)
  <2>1. PICK b \in reached : a = exit(b)
    BY <1>1
  <2>2. Sound(a) /\ a.kind \in {"close", "whole"} /\ b \in Birth /\ Open(b) /\ Touches(a, b)
    BY <1>2, <1>3, <1>4, <2>1
  <2>3. ASSUME NEW c \in Reduce(s, q), NEW d \in Birth, Open(d), Touches(c, d)
        PROVE  d = b <=> c = a
    <3>1. PICK e \in reached : c = exit(e)
      BY <1>1
    <3>2. d = e
      BY <1>4, <2>3, <3>1
    <3>3. c = a => d = b
      BY <1>4, <2>1, <2>3
    <3> QED BY <2>1, <3>1, <3>2, <3>3
  <2> QED BY <2>2, <2>3

LEMMA ManualOrdersAre ==
  ASSUME TypeOK, IdsAreUnique, NEW x \in ManualOrders
  PROVE  /\ \A a \in x : Sound(a) /\ a.kind \in {"open", "close", "whole"}
         /\ Disjoint(x)
<1>1. PICK y \in {{}} \cup UNION {{Reduce(s, q) : q \in 1..Units(s)} : s \in Held},
           z \in {{}} \cup Entries : x = y \cup z
  BY DEF ManualOrders
<1>2. \A a \in z : Sound(a) /\ a.kind = "open"
  <2>1. CASE z = {}
    BY <2>1
  <2>2. ASSUME NEW s \in Symbols, NEW q \in Sizes, z = {Entry(s, q)}
        PROVE  \A a \in z : Sound(a) /\ a.kind = "open"
    BY <2>2, EntryIs
  <2>3. z = {} \/ \E s \in Symbols, q \in Sizes : z = {Entry(s, q)}
    BY DEF Entries, Tradable
  <2> QED BY <2>1, <2>2, <2>3
<1>3. CASE y = {}
  BY <1>1, <1>2, <1>3 DEF Disjoint
<1>4. ASSUME NEW s \in Held, NEW q \in 1..Units(s), y = Reduce(s, q)
      PROVE  /\ \A a \in x : Sound(a) /\ a.kind \in {"open", "close", "whole"}
             /\ Disjoint(x)
  <2>1. \A a \in y : /\ Sound(a) /\ a.kind \in {"close", "whole"}
                     /\ \E b \in Birth : Open(b) /\ Touches(a, b) /\
                          \A c \in y : \A d \in Birth :
                            Open(d) /\ Touches(c, d) => (d = b <=> c = a)
    BY <1>4, ReduceIs
  <2>2. ASSUME NEW a \in x, NEW c \in x, a # c, a.kind = "close", NEW b \in Birth, Open(b),
               Touches(a, b), Touches(c, b)
        PROVE  FALSE
    <3>1. a \in y /\ c \in y
      BY <1>1, <1>2, <2>2 DEF Touches, Exiting
    <3>2. PICK e \in Birth : \A f \in y : \A d \in Birth :
                               Open(d) /\ Touches(f, d) => (d = e <=> f = a)
      BY <2>1, <3>1
    <3>3. b = e /\ c = a
      BY <2>2, <3>1, <3>2
    <3> QED BY <2>2, <3>3
  <2>3. Disjoint(x)
    BY <2>2 DEF Disjoint
  <2> QED BY <1>1, <1>2, <2>1, <2>3
<1>5. y = {} \/ \E s \in Held : \E q \in 1..Units(s) : y = Reduce(s, q)
  BY <1>1
<1> QED BY <1>3, <1>4, <1>5

-----------------------------------------------------------------------------
(* The lists and the orders of the two threads.                            *)

(* A step of a thread takes the first action off its list, works at the    *)
(* order of that action, ends its list, or begins one.                     *)
Pops(t) ==
  /\ todo[t] # <<>> /\ NextAction(t) /\ order' = [order EXCEPT ![t] = NoOrder]
  /\ UNCHANGED <<stage, job, settling, outside>>
Works(t) ==
  /\ todo[t] # <<>>
  /\ \E o \in Order : OrderIsOf(o, Head(todo[t])) /\ order' = [order EXCEPT ![t] = o]
  /\ UNCHANGED <<lots, nextId, stage, todo, job, settling, outside>>
Ends(t) ==
  /\ EndList(t) /\ \E inLog, inTrail \in BOOLEAN : lots' = Written(t, inLog, inTrail)
  /\ UNCHANGED <<nextId, job>>
  /\ \A s \in Symbols : outside'[s] = outside[s] \/ (t = "hand" /\ s \in settling)
Begins(t, list) ==
  /\ todo' = [todo EXCEPT ![t] = list] /\ ~Idle(t)'
  /\ stage' = [stage EXCEPT ![t] = stage'[t]]
  /\ Idle(t) => Alongside(t) \subseteq disturbed'
  /\ UNCHANGED <<nextId, order, outside>>
Rests == UNCHANGED <<lots, threads, job, settling>>

LEMMA OrderKinds ==
  ASSUME ThreadInv, NEW t \in Threads, order[t] # NoOrder
  PROVE  /\ order[t].kind \in {"open", "close", "whole", "pool", "stop"}
         /\ todo[t] # <<>> /\ OrderIsOf(order[t], Head(todo[t])) /\ ~Idle(t)
<1>1. todo[t] # <<>> /\ OrderIsOf(order[t], Head(todo[t]))
  BY DEF ThreadInv, ListInv, OrdersAreActions
<1>2. Head(todo[t]) \in Action
  BY <1>1, ListTyped DEF ThreadInv
<1>3. order[t].kind \in {"none", "open", "close", "whole", "pool", "stop"}
  BY DEF ThreadInv, TypeOK, Order
<1> QED BY <1>1, <1>2, <1>3 DEF OrderIsOf, Action, ThreadInv, ListInv, AtRest

LEMMA NothingSent == NoOrder.kind = "none" /\ NoOrder.left = 0 /\ NoOrder.filled = 0 /\ NoOrder \in Order
<1>1. (CHOOSE s \in Symbols : TRUE) \in Symbols
  BY BookAssumption
<1>2. <<>> \in Seq(Nat)
  BY EmptySeq
<1> QED BY <1>1, <1>2 DEF NoOrder, Order

LEMMA QuietBefore == ASSUME disturbed \subseteq disturbed' PROVE Quiet' => Quiet
BY DEF Quiet, Without

LEMMA PopsKeep ==
  ASSUME ThreadInv, NEW t \in Threads, Pops(t), nextId' >= nextId, nextId' \in Nat,
         disturbed \subseteq disturbed',
         \A u \in Threads \ {t} : ~Unwritten(u) => ~Unwritten(u)'
  PROVE  ListInv' /\ todo' \in [Threads -> Seq(Action)] /\ order' \in [Threads -> Order]
<1>a. /\ todo \in [Threads -> Seq(Action)] /\ order \in [Threads -> Order] /\ nextId \in Nat
      /\ stage \in [Threads -> {"idle", "stops", "actions"}]
  BY DEF ThreadInv, TypeOK
<1>b. /\ todo[t] # <<>> /\ Tail(todo[t]) \in Seq(Action)
      /\ \A i \in DOMAIN Tail(todo[t]) : i + 1 \in DOMAIN todo[t] /\ Tail(todo[t])[i] = todo[t][i + 1]
  BY ListTyped DEF Pops, ThreadInv
<1>c. /\ todo'[t] = Tail(todo[t]) /\ order'[t] = NoOrder
      /\ \A u \in Threads \ {t} : todo'[u] = todo[u] /\ order'[u] = order[u]
      /\ UNCHANGED <<stage, job, settling, outside>>
  BY <1>a DEF Pops, NextAction
<1>d. \A i \in DOMAIN todo'[t] : i + 1 \in DOMAIN todo[t] /\ todo'[t][i] = todo[t][i + 1]
  BY <1>b, <1>c
<1>1. todo' \in [Threads -> Seq(Action)] /\ order' \in [Threads -> Order]
  BY <1>a, <1>b, NothingSent DEF Pops, NextAction
<1>2. AtRest'
  <2>1. ~Idle(t)
    BY <1>b DEF ThreadInv, ListInv, AtRest
  <2> QED BY <1>c, <2>1 DEF ThreadInv, ListInv, AtRest, Idle
<1>3. OrdersAreActions'
  BY <1>c DEF ThreadInv, ListInv, OrdersAreActions
<1>4. OneThread'
  BY <1>c, QuietBefore DEF ThreadInv, ListInv, OneThread, Idle
<1>5. HandLists'
  <2>1. CASE t = "hand"
    BY <1>c, <1>d, <2>1 DEF ThreadInv, ListInv, HandLists, Idle
  <2>2. CASE t # "hand"
    BY <1>c, <2>2 DEF ThreadInv, ListInv, HandLists, Idle, Threads
  <2> QED BY <2>1, <2>2
<1>6. ListsAreReal'
  <2> SUFFICES ASSUME NEW u \in Threads, NEW i \in DOMAIN todo'[u]
               PROVE  LET a == todo'[u][i]
                      IN  /\ a.kind \in {"open", "close"} => a.units > 0
                          /\ a.kind \in {"close", "whole", "attach"} => a.lot < nextId'
    BY DEF ListsAreReal
  <2>1. PICK j \in DOMAIN todo[u] : todo'[u][i] = todo[u][j]
    BY <1>c, <1>d
  <2>2. todo[u][j].lot \in Nat
    BY ListTyped DEF ThreadInv, Action
  <2> QED BY <1>a, <2>1, <2>2 DEF ThreadInv, ListInv, ListsAreReal
<1> QED BY <1>1, <1>2, <1>3, <1>4, <1>5, <1>6 DEF ListInv

LEMMA WorksKeep ==
  ASSUME ThreadInv, NEW t \in Threads, Works(t), disturbed \subseteq disturbed'
  PROVE  ListInv' /\ order' \in [Threads -> Order]
<1>a. order \in [Threads -> Order] /\ stage \in [Threads -> {"idle", "stops", "actions"}]
  BY DEF ThreadInv, TypeOK
<1>b. PICK o \in Order : OrderIsOf(o, Head(todo[t])) /\ order' = [order EXCEPT ![t] = o]
  BY DEF Works
<1>c. /\ order'[t] = o /\ \A u \in Threads \ {t} : order'[u] = order[u]
      /\ todo[t] # <<>> /\ UNCHANGED <<lots, nextId, stage, todo, job, settling, outside>>
  BY <1>a, <1>b DEF Works
<1>1. order' \in [Threads -> Order]
  BY <1>a, <1>b
<1>2. AtRest'
  BY <1>c DEF ThreadInv, ListInv, AtRest, Idle, Unwritten, Birth
<1>3. OrdersAreActions'
  BY <1>b, <1>c DEF ThreadInv, ListInv, OrdersAreActions
<1>4. OneThread'
  BY <1>c, QuietBefore DEF ThreadInv, ListInv, OneThread, Idle
<1>5. HandLists' /\ ListsAreReal'
  BY <1>c DEF ThreadInv, ListInv, HandLists, ListsAreReal, Idle
<1> QED BY <1>1, <1>2, <1>3, <1>4, <1>5 DEF ListInv

LEMMA EndsKeep ==
  ASSUME ThreadInv, NEW t \in Threads, Ends(t), disturbed \subseteq disturbed'
  PROVE  /\ ListInv' /\ todo' \in [Threads -> Seq(Action)] /\ order' \in [Threads -> Order]
         /\ stage' \in [Threads -> {"idle", "stops", "actions"}] /\ settling' \subseteq Symbols
         /\ lots' \in Seq(Lot) /\ Len(lots') = Len(lots) /\ SameBook /\ ~Unwritten(t)'
         /\ IdsAreUnique' /\ IdsAreTaken'
<1>a. /\ todo \in [Threads -> Seq(Action)] /\ order \in [Threads -> Order] /\ settling \subseteq Symbols
      /\ stage \in [Threads -> {"idle", "stops", "actions"}] /\ TypeOK
  BY DEF ThreadInv, TypeOK
<1>b. PICK inLog, inTrail \in BOOLEAN : lots' = Written(t, inLog, inTrail)
  BY DEF Ends
<1>c. /\ lots' \in Seq(Lot) /\ Len(lots') = Len(lots) /\ SameBook
      /\ \A b \in Birth : lots'[b].due = [lots[b].due EXCEPT ![t] = 0]
  BY <1>a, <1>b, WrittenIs
<1>d. /\ stage'[t] = "idle" /\ todo'[t] = <<>> /\ order'[t] = NoOrder
      /\ \A u \in Threads \ {t} : stage'[u] = stage[u] /\ todo'[u] = todo[u] /\ order'[u] = order[u]
      /\ settling' = IF t = "hand" THEN {} ELSE settling
      /\ UNCHANGED <<nextId, job>>
  BY <1>a DEF Ends, EndList
<1>1. /\ todo' \in [Threads -> Seq(Action)] /\ order' \in [Threads -> Order]
      /\ stage' \in [Threads -> {"idle", "stops", "actions"}] /\ settling' \subseteq Symbols
  <2>1. <<>> \in Seq(Action)
    BY EmptySeq
  <2> QED BY <1>a, <1>d, <2>1, NothingSent DEF Ends, EndList
<1>e. \A b \in Birth : lots[b].due \in [Threads -> Int]
  BY <1>a, LotsTyped DEF Lot
<1>2. ~Unwritten(t)' /\ \A u \in Threads : ~Unwritten(u) => ~Unwritten(u)'
  BY <1>c, <1>e DEF Unwritten, SameBook
<1>3. AtRest'
  BY <1>d, <1>2 DEF ThreadInv, ListInv, AtRest, Idle
<1>4. OrdersAreActions'
  BY <1>d DEF ThreadInv, ListInv, OrdersAreActions
<1>5. OneThread'
  BY <1>d, QuietBefore DEF ThreadInv, ListInv, OneThread, Idle, Threads
<1>6. HandLists'
  <2>1. CASE t = "hand"
    BY <1>d, <2>1 DEF ThreadInv, ListInv, HandLists, Idle
  <2>2. CASE t = "tick"
    <3>1. settling' = settling /\ stage'["hand"] = stage["hand"] /\ todo'["hand"] = todo["hand"] /\ job' = job
      BY <1>d, <2>2 DEF Threads
    <3>2. \A s \in settling : outside'[s] = outside[s]
      BY <1>a, <2>2 DEF Ends
    <3> QED BY <3>1, <3>2 DEF ThreadInv, ListInv, HandLists, Idle
  <2> QED BY <2>1, <2>2 DEF Threads
<1>7. ListsAreReal'
  BY <1>d DEF ThreadInv, ListInv, ListsAreReal
<1>8. IdsAreUnique' /\ IdsAreTaken'
  BY <1>c, <1>d DEF ThreadInv, IdsAreUnique, IdsAreTaken, SameBook, Open
<1> QED BY <1>c, <1>1, <1>2, <1>3, <1>4, <1>5, <1>6, <1>7, <1>8 DEF ListInv

LEMMA BeginsKeep ==
  ASSUME ThreadInv, NEW t \in Threads, NEW list \in Seq(Action), Begins(t, list),
         Idle(t) \/ ListDone(t), disturbed \subseteq disturbed',
         stage'[t] \in {"stops", "actions"},
         \A u \in Threads \ {t} : ~Unwritten(u) => ~Unwritten(u)',
         \A i \in DOMAIN list :
           /\ list[i].kind \in {"open", "close"} => list[i].units > 0
           /\ list[i].kind \in {"close", "whole", "attach"} => list[i].lot < nextId,
         IF t = "tick" THEN UNCHANGED <<job, settling>> ELSE HandLists'
  PROVE  /\ ListInv' /\ todo' \in [Threads -> Seq(Action)]
         /\ stage' \in [Threads -> {"idle", "stops", "actions"}]
<1>a. /\ todo \in [Threads -> Seq(Action)] /\ nextId \in Nat
      /\ stage \in [Threads -> {"idle", "stops", "actions"}]
  BY DEF ThreadInv, TypeOK
<1>b. /\ todo'[t] = list /\ order' = order /\ order[t] = NoOrder /\ nextId' = nextId
      /\ outside' = outside
      /\ \A u \in Threads \ {t} : todo'[u] = todo[u] /\ stage'[u] = stage[u]
  BY <1>a DEF Begins, ThreadInv, ListInv, AtRest, ListDone
<1>1. todo' \in [Threads -> Seq(Action)] /\ stage' \in [Threads -> {"idle", "stops", "actions"}]
  BY <1>a DEF Begins
<1>2. AtRest'
  BY <1>b DEF ThreadInv, ListInv, AtRest, Idle, Begins
<1>3. OrdersAreActions'
  BY <1>b DEF ThreadInv, ListInv, OrdersAreActions
<1>4. OneThread'
  <2> SUFFICES ASSUME Quiet' PROVE Idle("tick")' \/ Idle("hand")'
    BY DEF OneThread
  <2>1. \A u \in Threads \ {t} : Idle(u)
    <3>1. CASE Idle(t)
      BY <3>1 DEF Begins, Alongside, Quiet, Without
    <3>2. CASE ~Idle(t)
      BY <3>2, QuietBefore DEF ThreadInv, ListInv, OneThread, Threads
    <3> QED BY <3>1, <3>2
  <2>2. \A u \in Threads \ {t} : Idle(u)'
    BY <1>b, <2>1 DEF Idle
  <2> QED BY <2>2 DEF Threads
<1>5. HandLists'
  <2>1. CASE t = "tick"
    BY <1>b, <2>1 DEF ThreadInv, ListInv, HandLists, Idle, Threads
  <2> QED BY <2>1
<1>6. ListsAreReal'
  BY <1>b DEF ThreadInv, ListInv, ListsAreReal
<1> QED BY <1>1, <1>2, <1>3, <1>4, <1>5, <1>6 DEF ListInv

LEMMA RestsKeep ==
  ASSUME ThreadInv, Rests, UNCHANGED nextId,
         disturbed \subseteq disturbed', \A s \in settling : outside'[s] = outside[s]
  PROVE  ListInv' /\ IdsAreUnique' /\ IdsAreTaken'
<1>1. UNCHANGED <<lots, stage, todo, order, job, settling>>
  BY DEF Rests, threads
<1>2. AtRest' /\ OrdersAreActions' /\ HandLists' /\ ListsAreReal'
  BY <1>1 DEF ThreadInv, ListInv, AtRest, OrdersAreActions, HandLists, ListsAreReal, Idle,
              Unwritten, Birth
<1>3. OneThread'
  BY <1>1, QuietBefore DEF ThreadInv, ListInv, OneThread, Idle
<1> QED BY <1>1, <1>2, <1>3 DEF ThreadInv, ListInv, IdsAreUnique, IdsAreTaken, Open, Birth

\* Sound actions name lots that are there; a list of them may begin.
LEMMA SoundListIs ==
  ASSUME ThreadInv, NEW x, \A a \in x : Sound(a), NEW list \in Lists(x)
  PROVE  /\ list \in Seq(Action)
         /\ \A i \in DOMAIN list :
              /\ Sound(list[i])
              /\ list[i].kind \in {"open", "close"} => list[i].units > 0
              /\ list[i].kind \in {"close", "whole", "attach"} => list[i].lot < nextId
<1>1. list \in Seq(x) /\ \A i \in DOMAIN list : list[i] \in x
  BY ListIs
<1>2. x \subseteq Action
  BY DEF Sound
<1>3. list \in Seq(Action)
  BY <1>1, <1>2, SeqMonotonic
<1>4. ASSUME NEW a \in x
      PROVE  /\ a.kind \in {"open", "close"} => a.units > 0
             /\ a.kind \in {"close", "whole", "attach"} => a.lot < nextId
  BY DEF Sound, ThreadInv, IdsAreTaken
<1> QED BY <1>1, <1>3, <1>4

-----------------------------------------------------------------------------
(* Orders: what is asked, and what the book takes.                         *)

LEMMA GetLotIs ==
  ASSUME ThreadInv, NEW s, NEW id
  PROVE  \A b, c \in GetLot(s, id) : b \in Birth /\ Open(b) /\ b = c
BY DEF GetLot, LotsOf, ThreadInv, IdsAreUnique

\* An order for one lot asks for what it has, or less.
LEMMA AskedIs ==
  ASSUME ThreadInv, NEW a \in Action, a.kind # "attach", ~Gone(a)
  PROVE  /\ Asked(a) \in Nat
         /\ a.kind = "pool" => Asked(a) = Units(a.symbol)
         /\ a.kind \in {"open"} => Asked(a) = a.units
         /\ a.kind = "close" /\ a.symbol \notin Shorts => Asked(a) = a.units
         /\ a.kind \in {"close", "whole", "stop"} =>
              \E b \in Birth :
                /\ GetLot(a.symbol, a.lot) = {b} /\ Open(b) /\ lots[b].units > 0
                /\ a.kind = "close" /\ a.symbol \in Shorts =>
                     Asked(a) <= lots[b].units /\ (a.units > 0 => Asked(a) > 0)
                /\ a.kind \in {"whole", "stop"} => Asked(a) = lots[b].units
<1>a. a.units \in Nat /\ a.kind \in {"open", "close", "whole", "pool", "stop"}
  BY DEF Action
<1>1. CASE a.kind = "open"
  BY <1>a, <1>1 DEF Asked
<1>2. CASE a.kind = "pool"
  BY <1>2, UnitsTyped DEF Asked, ThreadInv
<1>3. CASE a.kind \in {"close", "whole", "stop"}
  <2>1. GetLot(a.symbol, a.lot) # {}
    BY <1>3 DEF Gone
  <2>2. PICK b \in GetLot(a.symbol, a.lot) : TRUE
    BY <2>1
  <2>3. GetLot(a.symbol, a.lot) = {b} /\ b \in Birth /\ Open(b)
    BY <2>2, GetLotIs
  <2>4. lots[b].units \in Nat /\ lots[b].units > 0
    BY <2>3, LotsTyped DEF ThreadInv, Lot, Open
  <2>5. {lots[c].units : c \in GetLot(a.symbol, a.lot)} = {lots[b].units}
    BY <2>3
  <2>6. CASE a.kind = "close" /\ a.symbol \in Shorts
    <3> DEFINE T == {a.units} \cup {lots[b].units}
    <3>1. Asked(a) = Min(T)
      BY <2>5, <2>6 DEF Asked
    <3>2. T \in SUBSET Nat /\ T # {} /\ lots[b].units \in T /\ T = {a.units, lots[b].units}
      BY <1>a, <2>4
    <3>3. Min(T) \in T /\ \A y \in T : Min(T) <= y
      <4> HIDE DEF T
      <4> QED BY <3>2, LeastNat
    <3> HIDE DEF T
    <3>4. Asked(a) \in Nat /\ Asked(a) <= lots[b].units /\ (a.units > 0 => Asked(a) > 0)
      BY <1>a, <2>4, <3>1, <3>2, <3>3
    <3> QED BY <2>3, <2>4, <2>6, <3>4
  <2>7. CASE a.kind = "close" /\ a.symbol \notin Shorts
    BY <1>a, <2>3, <2>4, <2>7 DEF Asked
  <2>8. CASE a.kind \in {"whole", "stop"}
    <3>1. Asked(a) = Min({lots[b].units})
      BY <2>5, <2>8 DEF Asked
    <3>2. Min({lots[b].units}) = lots[b].units
      BY <2>4 DEF Min
    <3> QED BY <2>3, <2>4, <2>8, <3>1, <3>2
  <2> QED BY <1>3, <2>6, <2>7, <2>8
<1> QED BY <1>a, <1>1, <1>2, <1>3

LEMMA TakenIs ==
  ASSUME TypeOK, NEW o \in Order, NEW b \in Birth
  PROVE  /\ Removed(o, b) \in Nat /\ Removed(o, b) <= lots[b].units
         /\ InEvent(o, b) \in Int
         /\ b \notin Target(o) => Removed(o, b) = 0
         /\ b \in Target(o) /\ o.kind \in {"whole", "pool"} => Removed(o, b) = lots[b].units
         /\ b \in Target(o) /\ o.kind \notin {"whole", "pool"} /\ o.ask <= lots[b].units =>
              Removed(o, b) = o.ask
         /\ b \notin Target(o) /\ o.kind # "pool" => InEvent(o, b) = 0
         /\ b \in Target(o) /\ o.kind = "whole" => InEvent(o, b) = lots[b].units
         /\ b \in Target(o) /\ o.kind \notin {"whole", "pool"} => InEvent(o, b) = o.ask
<1> DEFINE T == {o.ask, lots[b].units}
<1>1. lots[b].units \in Nat /\ o.ask \in Nat /\ o.parts \in Seq(Nat)
  BY LotsTyped DEF Lot, Order
<1>2. Min(T) \in T /\ \A y \in T : Min(T) <= y
  <2>1. T \in SUBSET Nat /\ T # {}
    BY <1>1
  <2> HIDE DEF T
  <2> QED BY <2>1, LeastNat
<1>3. /\ b \notin Target(o) => Removed(o, b) = 0
      /\ b \in Target(o) /\ o.kind \in {"whole", "pool"} => Removed(o, b) = lots[b].units
      /\ b \in Target(o) /\ o.kind \notin {"whole", "pool"} => Removed(o, b) = Min(T)
  BY DEF Removed
<1> HIDE DEF T
<1>4. Min(T) \in Nat /\ Min(T) <= lots[b].units /\ (o.ask <= lots[b].units => Min(T) = o.ask)
  BY <1>1, <1>2 DEF T
<1>5. /\ b \notin Target(o) /\ o.kind # "pool" => InEvent(o, b) = 0
      /\ b \in Target(o) /\ o.kind = "whole" => InEvent(o, b) = lots[b].units
      /\ b \in Target(o) /\ o.kind \notin {"whole", "pool"} => InEvent(o, b) = o.ask
      /\ o.kind = "pool" => InEvent(o, b) = IF b \in DOMAIN o.parts THEN o.parts[b] ELSE 0
  BY DEF InEvent
<1>6. b \in DOMAIN o.parts => o.parts[b] \in Nat
  BY <1>1, LenProperties
<1>7. InEvent(o, b) \in Int
  BY <1>1, <1>5, <1>6
<1>8. /\ 0 \in Nat /\ 0 <= lots[b].units /\ lots[b].units <= lots[b].units
  BY <1>1
<1> QED BY <1>1, <1>3, <1>4, <1>5, <1>7, <1>8

LEMMA ChildIs ==
  ASSUME NEW o \in Order, o.left > 0
  PROVE  Child(o) \in Nat /\ 0 < Child(o) /\ Child(o) <= o.left
<1>1. o.left \in Nat /\ Freeze \in Nat \ {0}
  BY BookAssumption DEF Order
<1> DEFINE T == {Freeze, o.left}
<1>2. T \in SUBSET Nat /\ T # {} /\ 0 \notin T /\ o.left \in T
  BY <1>1
<1> HIDE DEF T
<1>3. Min(T) \in T /\ \A y \in T : Min(T) <= y
  BY <1>2, LeastNat
<1>4. Min(T) \in Nat /\ Min(T) # 0 /\ Min(T) <= o.left
  BY <1>2, <1>3
<1>5. Child(o) = Min(T) \/ Child(o) = o.left
  BY DEF Child, T
<1>6. \A m \in Nat : m # 0 => 0 < m
  OBVIOUS
<1> QED BY <1>1, <1>4, <1>5, <1>6

LEMMA ProgressIs ==
  ASSUME NEW o \in Order, NEW left \in Nat, NEW filled \in Nat
  PROVE  /\ Progress(o, left, filled) \in Order
         /\ Progress(o, left, filled).kind = o.kind /\ Progress(o, left, filled).symbol = o.symbol
         /\ Progress(o, left, filled).lot = o.lot /\ Progress(o, left, filled).ask = o.ask
         /\ Progress(o, left, filled).left = left /\ Progress(o, left, filled).filled = filled
         /\ Progress(o, left, filled).parts = o.parts
<1>1. Progress(o, left, filled) \in Order
  BY DEF Progress, Order
<1> QED BY <1>1 DEF Progress

-----------------------------------------------------------------------------
(* Types: one lemma per action, then the invariant of the threads.         *)

\* The types of everything but lots, lists and orders.
RestTyped ==
  /\ nextId \in Nat /\ stops \subseteq [symbol : Symbols, lot : Nat, of : SUBSET Nat]
  /\ managedBy \in {"strategy", "manual"} /\ halted \in BOOLEAN
  /\ job \in {"flatten", "order", "adopt"}
  /\ account \in [Symbols -> Int] /\ outside \in [Symbols -> {"no", "closed", "expired"}]
  /\ slices \in Nat /\ jobs \in Nat /\ faults \in Nat /\ handled \in BOOLEAN
  /\ disturbed \subseteq {"overlap", "partial", "stray", "stop", "hand", "restart"}

LEMMA TypesMeet ==
  ASSUME RestTyped', ListInv', lots' \in Seq(Lot), settling' \subseteq Symbols,
         stage' \in [Threads -> {"idle", "stops", "actions"}],
         todo' \in [Threads -> Seq(Action)], order' \in [Threads -> Order],
         IdsAreUnique', IdsAreTaken'
  PROVE  ThreadInv'
BY DEF ThreadInv, TypeOK, RestTyped

LEMMA FaultsTyped ==
  ASSUME TypeOK, NEW what, Trouble(what)
  PROVE  faults' \in Nat
BY DEF TypeOK, Trouble

LEMMA AttachKeeps ==
  ASSUME ThreadInv, NEW t \in Threads, Attach(t)
  PROVE  Pops(t) /\ ThreadInv'
<1>a. /\ todo[t] # <<>> /\ order[t] = NoOrder /\ NextAction(t)
      /\ UNCHANGED <<portfolio, managedBy, halted, settling, stage, order, job, broker, bounds, seen>>
      /\ stops' = {st \in stops : st.lot # Head(todo[t]).lot}
           \cup {[symbol |-> Head(todo[t]).symbol, lot |-> Head(todo[t]).lot,
                  of |-> GetLot(Head(todo[t]).symbol, Head(todo[t]).lot)]}
  BY DEF Attach, NoOrders
<1>b. TypeOK /\ Head(todo[t]) \in Action
  BY <1>a, ListTyped DEF ThreadInv
<1>1. Pops(t)
  BY <1>a, <1>b DEF Pops, broker, TypeOK
<1>2. stops' \subseteq [symbol : Symbols, lot : Nat, of : SUBSET Nat]
  <2>1. Head(todo[t]).symbol \in Symbols /\ Head(todo[t]).lot \in Nat
    BY <1>b DEF Action
  <2>2. GetLot(Head(todo[t]).symbol, Head(todo[t]).lot) \in SUBSET Nat
    BY <1>b, LotsTyped DEF GetLot, LotsOf
  <2>3. [symbol |-> Head(todo[t]).symbol, lot |-> Head(todo[t]).lot,
         of |-> GetLot(Head(todo[t]).symbol, Head(todo[t]).lot)]
          \in [symbol : Symbols, lot : Nat, of : SUBSET Nat]
    BY <2>1, <2>2
  <2> QED BY <1>a, <1>b, <2>3 DEF TypeOK
<1>3. RestTyped'
  BY <1>a, <1>b, <1>2 DEF RestTyped, TypeOK, portfolio, broker, bounds, seen
<1>4. UNCHANGED <<lots, nextId, settling, stage, disturbed>>
  BY <1>a DEF portfolio, seen
<1>5. ListInv' /\ todo' \in [Threads -> Seq(Action)] /\ order' \in [Threads -> Order]
  <2>1. nextId' >= nextId /\ nextId' \in Nat
    BY <1>b, <1>4 DEF TypeOK
  <2> QED BY <1>1, <1>4, <2>1, PopsKeep DEF Unwritten, Birth
<1>6. IdsAreUnique' /\ IdsAreTaken'
  BY <1>4 DEF ThreadInv, IdsAreUnique, IdsAreTaken, Open, Birth
<1> QED BY <1>1, <1>3, <1>b, <1>4, <1>5, <1>6, TypesMeet DEF TypeOK

LEMMA SkipKeeps ==
  ASSUME ThreadInv, NEW t \in Threads, Skip(t)
  PROVE  Pops(t) /\ ThreadInv'
<1>a. /\ todo[t] # <<>> /\ order[t] = NoOrder /\ NextAction(t)
      /\ UNCHANGED <<portfolio, managedBy, halted, settling, stage, order, job, broker, bounds, seen>>
      /\ stops' \subseteq stops
  BY DEF Skip, NoOrders
<1>b. TypeOK
  BY DEF ThreadInv
<1>1. Pops(t)
  BY <1>a, <1>b DEF Pops, broker, TypeOK
<1>2. RestTyped'
  BY <1>a, <1>b DEF RestTyped, TypeOK, portfolio, broker, bounds, seen
<1>3. UNCHANGED <<lots, nextId, settling, stage, disturbed>>
  BY <1>a DEF portfolio, seen
<1>4. ListInv' /\ todo' \in [Threads -> Seq(Action)] /\ order' \in [Threads -> Order]
  <2>1. nextId' >= nextId /\ nextId' \in Nat
    BY <1>b, <1>3 DEF TypeOK
  <2> QED BY <1>1, <1>3, <2>1, PopsKeep DEF Unwritten, Birth
<1>5. IdsAreUnique' /\ IdsAreTaken'
  BY <1>3 DEF ThreadInv, IdsAreUnique, IdsAreTaken, Open, Birth
<1> QED BY <1>1, <1>2, <1>b, <1>3, <1>4, <1>5, TypesMeet DEF TypeOK

\* What an order is sent with.
LEMMA SentIs ==
  ASSUME ThreadInv, NEW t \in Threads, Send(t)
  PROVE  \E o \in Order :
           LET a == Head(todo[t])
               covers == a.symbol \in Shorts /\ \A b \in GetLot(a.symbol, a.lot) : Asked(a) = lots[b].units
           IN
           /\ order' = [order EXCEPT ![t] = o] /\ OrderIsOf(o, a) /\ o.ask = Asked(a)
           /\ o.kind = IF a.kind = "close" /\ covers THEN "whole" ELSE a.kind
           /\ o.filled = 0 /\ o.left = (IF settling = {} THEN Asked(a) ELSE 0)
           /\ o.kind = "pool" =>
                o.parts = [b \in Birth |-> IF b \in LotsOf(a.symbol) THEN lots[b].units ELSE 0]
<1> DEFINE a == Head(todo[t])
           covers == a.symbol \in Shorts /\ \A b \in GetLot(a.symbol, a.lot) : Asked(a) = lots[b].units
           kind == IF a.kind = "close" /\ covers THEN "whole" ELSE a.kind
           parts == [b \in Birth |-> IF b \in LotsOf(a.symbol) THEN lots[b].units ELSE 0]
           o == [kind |-> kind, symbol |-> a.symbol, lot |-> a.lot, ask |-> Asked(a),
                 left |-> IF settling = {} THEN Asked(a) ELSE 0, filled |-> 0,
                 parts |-> IF a.kind = "pool" THEN parts ELSE <<>>]
<1>1. /\ todo[t] # <<>> /\ a.kind # "attach" /\ ~Gone(a)
      /\ order' = [order EXCEPT ![t] = o]
  BY DEF Send, NoOrders
<1>2. a \in Action
  BY <1>1, ListTyped DEF ThreadInv
<1>3. /\ a.kind \in {"open", "close", "whole", "pool", "stop"} /\ a.symbol \in Symbols /\ a.lot \in Nat
      /\ Asked(a) \in Nat /\ (a.kind = "open" => Asked(a) = a.units)
  BY <1>1, <1>2, AskedIs DEF Action
<1>4. parts \in Seq(Nat) /\ <<>> \in Seq(Nat)
  <2>1. parts \in [1..Len(lots) -> Nat] /\ Len(lots) \in Nat
    BY LotsTyped DEF ThreadInv, Lot
  <2> QED BY <2>1, FunctionIsSeq, EmptySeq
<1> HIDE DEF parts, a
<1>5. kind \in {"none", "open", "close", "whole", "pool", "stop"} /\ (kind = "pool" => a.kind = "pool")
  BY <1>3
<1>6. kind = a.kind \/ (a.kind = "close" /\ kind = "whole")
  OBVIOUS
<1> HIDE DEF kind
<1>7. o \in Order
  BY <1>3, <1>4, <1>5 DEF Order
<1>8. OrderIsOf(o, a)
  BY <1>3, <1>6 DEF OrderIsOf
<1>9. /\ o.ask = Asked(a) /\ o.kind = kind /\ o.filled = 0
      /\ o.left = (IF settling = {} THEN Asked(a) ELSE 0) /\ (o.kind = "pool" => o.parts = parts)
  BY <1>5
<1> HIDE DEF o
<1> QED BY <1>1, <1>7, <1>8, <1>9 DEF a, kind, parts

LEMMA SendKeeps ==
  ASSUME ThreadInv, NEW t \in Threads, Send(t)
  PROVE  Works(t) /\ ThreadInv'
<1>a. todo[t] # <<>> /\ UNCHANGED <<portfolio, session, stage, todo, broker, bounds, seen>>
  BY DEF Send, NoOrders
<1>b. TypeOK
  BY DEF ThreadInv
<1>1. Works(t)
  BY <1>a, SentIs DEF Works, portfolio, session, broker
<1>2. RestTyped'
  BY <1>a, <1>b DEF RestTyped, TypeOK, portfolio, session, broker, bounds, seen
<1>3. UNCHANGED <<lots, nextId, settling, stage, todo, disturbed>>
  BY <1>a DEF portfolio, session, seen
<1>4. ListInv' /\ order' \in [Threads -> Order]
  BY <1>1, <1>3, WorksKeep
<1>5. IdsAreUnique' /\ IdsAreTaken'
  BY <1>3 DEF ThreadInv, IdsAreUnique, IdsAreTaken, Open, Birth
<1> QED BY <1>1, <1>2, <1>b, <1>3, <1>4, <1>5, TypesMeet DEF TypeOK

LEMMA ChildFillsKeeps ==
  ASSUME ThreadInv, NEW t \in Threads, ChildFills(t)
  PROVE  Works(t) /\ ThreadInv'
<1> DEFINE o == order[t]
           n == Child(o)
<1>a. PICK q \in 1..n :
        /\ Trouble(IF q < n THEN {"partial"} ELSE {})
        /\ disturbed' = disturbed \cup IF q < n THEN {"partial"} ELSE {}
        /\ order' = [order EXCEPT ![t] = Progress(o, o.left - n, o.filled + q)]
        /\ account' = [account EXCEPT ![o.symbol] = @ + Opened(o, q)]
  BY DEF ChildFills
<1>b. o.left > 0 /\ UNCHANGED <<portfolio, session, stage, todo, outside, slices, jobs, handled>>
  BY DEF ChildFills
<1>c. TypeOK /\ o \in Order
  BY DEF ThreadInv, TypeOK
<1>d. o # NoOrder
  BY <1>b, NothingSent
<1>e. todo[t] # <<>> /\ OrderIsOf(o, Head(todo[t]))
  BY <1>d, OrderKinds
<1>f. n \in Nat /\ n <= o.left /\ o.left \in Nat /\ o.filled \in Nat /\ q \in Nat
  BY <1>b, <1>c, ChildIs DEF Order
<1> HIDE DEF n, o
<1>1. Works(t)
  <2> DEFINE left == o.left - n
             filled == o.filled + q
             p == Progress(o, left, filled)
  <2>1. /\ p \in Order /\ p.kind = o.kind /\ p.symbol = o.symbol /\ p.lot = o.lot /\ p.ask = o.ask
    <3>1. left \in Nat /\ filled \in Nat
      BY <1>f
    <3> HIDE DEF left, filled
    <3> QED BY <1>c, <3>1, ProgressIs
  <2> HIDE DEF p
  <2>2. OrderIsOf(p, Head(todo[t]))
    BY <1>e, <2>1 DEF OrderIsOf
  <2>3. order' = [order EXCEPT ![t] = p]
    BY <1>a DEF p
  <2> QED BY <1>b, <1>e, <2>1, <2>2, <2>3 DEF Works, portfolio, session
<1>2. account' \in [Symbols -> Int]
  <2>1. Opened(o, q) \in Int
    BY <1>f DEF Opened
  <2>2. account' = [account EXCEPT ![o.symbol] = @ + Opened(o, q)]
    BY <1>a
  <2>3. account \in [Symbols -> Int] /\ o.symbol \in Symbols
    BY <1>c DEF TypeOK, Order
  <2> QED BY <2>1, <2>2, <2>3
<1>3. faults' \in Nat
  BY <1>a, <1>c, FaultsTyped
<1>4. RestTyped'
  BY <1>a, <1>b, <1>c, <1>2, <1>3 DEF RestTyped, TypeOK, portfolio, session
<1>5. UNCHANGED <<lots, nextId, settling, stage, todo>> /\ disturbed \subseteq disturbed'
  BY <1>a, <1>b DEF portfolio, session
<1>6. ListInv' /\ order' \in [Threads -> Order]
  BY <1>1, <1>5, WorksKeep
<1>7. IdsAreUnique' /\ IdsAreTaken'
  BY <1>5 DEF ThreadInv, IdsAreUnique, IdsAreTaken, Open, Birth
<1> QED BY <1>1, <1>c, <1>4, <1>5, <1>6, <1>7, TypesMeet DEF TypeOK

LEMMA RaiseKeeps ==
  ASSUME ThreadInv, NEW t \in Threads, NEW failedOrder \in BOOLEAN,
         NEW also \in SUBSET {"stray", "partial"}, Raise(t, failedOrder, also),
         account' \in [Symbols -> Int], outside' = outside, faults' \in Nat
  PROVE  Ends(t) /\ ThreadInv'
<1> DEFINE inActions == t = "tick" /\ ~(t = "tick" /\ stage[t] = "stops")
           inTrail == inActions \/ (t = "hand" /\ failedOrder)
           what == disturbed'
<1>a. /\ EndList(t) /\ lots' = Written(t, inActions, inTrail)
      /\ halted' = (halted \/ t = "tick" \/ failedOrder)
      /\ disturbed' \in {disturbed \cup also \cup {"stop"}, disturbed \cup also \cup {"hand"},
                         disturbed \cup also \cup {}}
      /\ UNCHANGED <<nextId, stops, managedBy, job, slices, jobs, handled>>
  BY DEF Raise
<1>b. TypeOK
  BY DEF ThreadInv
<1>1. Ends(t)
  <2>1. inActions \in BOOLEAN /\ inTrail \in BOOLEAN
    OBVIOUS
  <2> HIDE DEF inActions, inTrail
  <2> QED BY <1>a, <2>1 DEF Ends
<1>2. RestTyped'
  BY <1>a, <1>b DEF RestTyped, TypeOK
<1>3. disturbed \subseteq disturbed'
  BY <1>a
<1> QED BY <1>1, <1>2, <1>3, EndsKeep, TypesMeet

LEMMA ChildFailsKeeps ==
  ASSUME ThreadInv, NEW t \in Threads, ChildFails(t)
  PROVE  (Works(t) \/ Ends(t)) /\ ThreadInv'
<1> DEFINE o == order[t]
           n == Child(o)
           expired == outside[o.symbol] = "expired"
<1>a. PICK stray \in IF expired THEN {0} ELSE {0, n} :
        LET also == IF stray > 0 THEN {"stray"} ELSE {}
        IN  /\ account' = [account EXCEPT ![o.symbol] = @ + Opened(o, stray)]
            /\ \/ o.filled = 0 /\ Raise(t, TRUE, also)
               \/ /\ o.filled > 0
                  /\ order' = [order EXCEPT ![t] = Progress(o, 0, o.filled)]
                  /\ disturbed' = disturbed \cup also \cup {"partial"}
                  /\ UNCHANGED <<portfolio, session, stage, todo, slices, jobs, handled>>
  BY DEF ChildFails
<1>b. o.left > 0 /\ Trouble(IF expired THEN {} ELSE {"refused"}) /\ UNCHANGED outside
  BY DEF ChildFails
<1>c. TypeOK /\ o \in Order
  BY DEF ThreadInv, TypeOK
<1>d. o # NoOrder
  BY <1>b, NothingSent
<1>e. todo[t] # <<>> /\ OrderIsOf(o, Head(todo[t]))
  BY <1>d, OrderKinds
<1>f. n \in Nat /\ o.filled \in Nat /\ stray \in Nat
  BY <1>a, <1>b, <1>c, ChildIs DEF Order
<1> HIDE DEF n, o, expired
<1> DEFINE also == IF stray > 0 THEN {"stray"} ELSE {}
<1>1. account' \in [Symbols -> Int]
  <2>1. Opened(o, stray) \in Int
    BY <1>f DEF Opened
  <2>2. account' = [account EXCEPT ![o.symbol] = @ + Opened(o, stray)]
    BY <1>a
  <2>3. account \in [Symbols -> Int] /\ o.symbol \in Symbols
    BY <1>c DEF TypeOK, Order
  <2> QED BY <2>1, <2>2, <2>3
<1>2. faults' \in Nat
  BY <1>b, <1>c, FaultsTyped
<1>3. CASE Raise(t, TRUE, also)
  <2>1. also \in SUBSET {"stray", "partial"}
    OBVIOUS
  <2> HIDE DEF also
  <2> QED BY <1>1, <1>2, <1>3, <1>b, <2>1, RaiseKeeps
<1>4. CASE /\ order' = [order EXCEPT ![t] = Progress(o, 0, o.filled)]
           /\ disturbed' = disturbed \cup also \cup {"partial"}
           /\ UNCHANGED <<portfolio, session, stage, todo, slices, jobs, handled>>
  <2> DEFINE p == Progress(o, 0, o.filled)
  <2>1. /\ p \in Order /\ p.kind = o.kind /\ p.symbol = o.symbol /\ p.lot = o.lot /\ p.ask = o.ask
    BY <1>c, <1>f, ProgressIs
  <2> HIDE DEF p
  <2>2. OrderIsOf(p, Head(todo[t]))
    BY <1>e, <2>1 DEF OrderIsOf
  <2>3. order' = [order EXCEPT ![t] = p]
    BY <1>4 DEF p
  <2>4. Works(t)
    BY <1>4, <1>b, <1>e, <2>1, <2>2, <2>3 DEF Works, portfolio, session
  <2>5. RestTyped'
    BY <1>b, <1>c, <1>1, <1>2, <1>4 DEF RestTyped, TypeOK, portfolio, session
  <2>6. UNCHANGED <<lots, nextId, settling, stage, todo>> /\ disturbed \subseteq disturbed'
    BY <1>4 DEF portfolio, session
  <2>7. ListInv' /\ order' \in [Threads -> Order]
    BY <2>4, <2>6, WorksKeep
  <2>8. IdsAreUnique' /\ IdsAreTaken'
    BY <2>6 DEF ThreadInv, IdsAreUnique, IdsAreTaken, Open, Birth
  <2> QED BY <1>c, <2>4, <2>5, <2>6, <2>7, <2>8, TypesMeet DEF TypeOK
<1> QED BY <1>a, <1>3, <1>4

LEMMA RefusedKeeps ==
  ASSUME ThreadInv, NEW t \in Threads, SendFails(t) \/ BookFails(t)
  PROVE  Ends(t) /\ ThreadInv'
<1>1. Raise(t, FALSE, {}) /\ UNCHANGED <<broker, faults>>
  BY DEF SendFails, BookFails
<1>2. /\ account' \in [Symbols -> Int] /\ outside' = outside /\ faults' \in Nat
      /\ {} \in SUBSET {"stray", "partial"} /\ FALSE \in BOOLEAN
  BY <1>1 DEF broker, ThreadInv, TypeOK
<1> QED BY <1>1, <1>2, RaiseKeeps

\* The lots after an entry: those before, and one named by the next id.
LEMMA EntryIsBooked ==
  ASSUME ThreadInv, NEW t \in Threads, BookEntry(t)
  PROVE  LET n == Len(lots) + 1
         IN  /\ lots' \in Seq(Lot) /\ Len(lots') = n /\ n \notin Birth /\ Birth' = Birth \cup {n}
             /\ \A b \in Birth : lots'[b] = lots[b]
             /\ lots'[n] = NewLot(t, order[t])
             /\ lots'[n].id = nextId /\ lots'[n].symbol = order[t].symbol
             /\ lots'[n].units = order[t].ask /\ lots'[n].log = 0 /\ lots'[n].trail = 0
             /\ \A u \in Threads : lots'[n].due[u] = IF u = t THEN order[t].ask ELSE 0
<1> DEFINE n == Len(lots) + 1
           new == NewLot(t, order[t])
<1>1. order[t] \in Order /\ nextId \in Nat /\ TypeOK /\ lots \in Seq(Lot)
  BY DEF ThreadInv, TypeOK
<1>2. order[t].ask \in Nat /\ order[t].symbol \in Symbols
  BY <1>1 DEF Order
<1>3. /\ new.id = nextId /\ new.symbol = order[t].symbol /\ new.units = order[t].ask
      /\ new.log = 0 /\ new.trail = 0
      /\ \A u \in Threads : new.due[u] = IF u = t THEN order[t].ask ELSE 0
  BY DEF NewLot
<1>4. new \in Lot
  <2>1. [u \in Threads |-> IF u = t THEN order[t].ask ELSE 0] \in [Threads -> Int]
    BY <1>2
  <2> QED BY <1>1, <1>2, <2>1 DEF NewLot, Lot
<1>5. lots' = Append(lots, new)
  BY DEF BookEntry
<1> HIDE DEF new
<1>6. /\ lots' \in Seq(Lot) /\ Len(lots') = n /\ lots'[n] = new
      /\ \A b \in 1..Len(lots) : lots'[b] = lots[b]
  BY <1>1, <1>4, <1>5, AppendProperties
<1>7. Birth = 1..Len(lots) /\ Len(lots) \in Nat
  BY <1>1, LotsTyped
<1>8. Birth' = 1..Len(lots')
  BY <1>6, LenProperties DEF Birth
<1>9. n \notin Birth /\ Birth' = Birth \cup {n}
  BY <1>6, <1>7, <1>8
<1>10. \A b \in Birth : lots'[b] = lots[b]
  BY <1>6, <1>7
<1> QED BY <1>3, <1>6, <1>9, <1>10 DEF new

LEMMA BookEntryKeeps ==
  ASSUME ThreadInv, NEW t \in Threads, BookEntry(t)
  PROVE  Pops(t) /\ ThreadInv'
<1> DEFINE n == Len(lots) + 1
<1>a. /\ order[t].kind = "open" /\ NextAction(t) /\ nextId' = nextId + 1
      /\ order' = [order EXCEPT ![t] = NoOrder]
      /\ handled' = (handled \/ t = "hand")
      /\ UNCHANGED <<session, stage, broker, bounds, disturbed>>
  BY DEF BookEntry, Done
<1>b. TypeOK
  BY DEF ThreadInv
<1>c. todo[t] # <<>>
  BY <1>a, NothingSent, OrderKinds
<1>1. Pops(t)
  BY <1>a, <1>c DEF Pops, session, broker
<1>d. /\ lots' \in Seq(Lot) /\ n \notin Birth /\ Birth' = Birth \cup {n}
      /\ \A b \in Birth : lots'[b] = lots[b]
      /\ lots'[n].id = nextId
      /\ \A u \in Threads : lots'[n].due[u] = IF u = t THEN order[t].ask ELSE 0
  BY EntryIsBooked
<1> HIDE DEF n
<1>2. RestTyped'
  BY <1>a, <1>b DEF RestTyped, TypeOK, session, broker, bounds
<1>3. ListInv' /\ todo' \in [Threads -> Seq(Action)] /\ order' \in [Threads -> Order]
  <2>1. nextId' >= nextId /\ nextId' \in Nat
    BY <1>a, <1>b DEF TypeOK
  <2>2. \A u \in Threads \ {t} : ~Unwritten(u) => ~Unwritten(u)'
    BY <1>d DEF Unwritten
  <2> QED BY <1>1, <1>a, <2>1, <2>2, PopsKeep
<1>4. nextId \in Nat /\ \A b \in Birth : lots[b].id \in Nat
  BY <1>b, LotsTyped DEF TypeOK, Lot
<1>5. IdsAreUnique' /\ IdsAreTaken'
  BY <1>a, <1>d, <1>4 DEF ThreadInv, IdsAreUnique, IdsAreTaken, Open
<1>6. UNCHANGED <<stage, settling>>
  BY <1>a DEF session
<1> QED BY <1>1, <1>2, <1>b, <1>d, <1>3, <1>5, <1>6, TypesMeet DEF TypeOK

\* The lots after an exit.
LEMMA ExitIsBooked ==
  ASSUME ThreadInv, NEW t \in Threads, BookExit(t)
  PROVE  LET o == order[t]
         IN  /\ lots' \in Seq(Lot) /\ Len(lots') = Len(lots) /\ Birth' = Birth
             /\ \A b \in Birth :
                  /\ lots'[b].id = lots[b].id /\ lots'[b].symbol = lots[b].symbol
                  /\ lots'[b].units = lots[b].units - Removed(o, b)
                  /\ lots'[b].log = lots[b].log /\ lots'[b].trail = lots[b].trail
                  /\ lots'[b].due = IF Target(o) = {} THEN lots[b].due
                                    ELSE [lots[b].due EXCEPT ![t] = @ - InEvent(o, b)]
<1> DEFINE o == order[t]
<1>1. TypeOK /\ o \in Order /\ lots \in Seq(Lot)
  BY DEF ThreadInv, TypeOK
<1>2. \A b \in Birth : /\ Removed(o, b) \in Nat /\ Removed(o, b) <= lots[b].units
                       /\ InEvent(o, b) \in Int
                       /\ b \notin Target(o) => Removed(o, b) = 0
  BY <1>1, TakenIs
<1>3. CASE Target(o) = {}
  <2>1. lots' = lots
    BY <1>3 DEF BookExit
  <2>2. \A b \in Birth : lots[b].units \in Nat /\ lots[b].units - 0 = lots[b].units
    BY <1>1, LotsTyped DEF Lot
  <2> QED BY <1>1, <1>2, <1>3, <2>1, <2>2 DEF Birth
<1>4. CASE Target(o) # {}
  <2>1. lots' = [b \in Birth |-> Reduced(b, t, Removed(o, b), InEvent(o, b))]
    BY <1>4 DEF BookExit
  <2> HIDE DEF o
  <2>2. \A b \in Birth : lots'[b] = Reduced(b, t, Removed(o, b), InEvent(o, b))
    BY <2>1
  <2>3. ASSUME NEW b \in Birth
        PROVE  /\ lots'[b] \in Lot /\ lots'[b].id = lots[b].id /\ lots'[b].symbol = lots[b].symbol
               /\ lots'[b].units = lots[b].units - Removed(o, b)
               /\ lots'[b].log = lots[b].log /\ lots'[b].trail = lots[b].trail
               /\ lots'[b].due = [lots[b].due EXCEPT ![t] = @ - InEvent(o, b)]
    BY <1>1, <1>2, <2>2, ReducedIs
  <2>4. lots' \in [Birth -> Lot]
    BY <2>1, <2>3
  <2>5. lots' \in Seq(Lot) /\ Len(lots') = Len(lots) /\ DOMAIN lots' = Birth
    BY <1>1, <2>4, LotsRebuilt
  <2> QED BY <1>4, <2>3, <2>5 DEF o, Birth
<1> QED BY <1>3, <1>4

\* Lots that keep their names and do not come back keep the ids unique.
LEMMA IdsStay ==
  ASSUME ThreadInv, Birth' = Birth, nextId' >= nextId, nextId' \in Nat,
         \A b \in Birth : lots'[b].id = lots[b].id /\ (Open(b)' => Open(b))
  PROVE  IdsAreUnique' /\ IdsAreTaken'
<1>1. nextId \in Nat /\ \A b \in Birth : lots[b].id \in Nat
  BY LotsTyped DEF ThreadInv, TypeOK, Lot
<1> QED BY <1>1 DEF ThreadInv, IdsAreUnique, IdsAreTaken

LEMMA BookExitKeeps ==
  ASSUME ThreadInv, NEW t \in Threads, BookExit(t)
  PROVE  Pops(t) /\ ThreadInv'
<1> DEFINE o == order[t]
<1>a. /\ order[t].kind # "none" /\ NextAction(t)
      /\ order' = [order EXCEPT ![t] = NoOrder] /\ stops' \subseteq stops
      /\ handled' \in BOOLEAN
      /\ UNCHANGED <<nextId, managedBy, halted, settling, job, stage, broker, bounds, disturbed>>
  BY DEF BookExit, Done
<1>b. TypeOK /\ o \in Order
  BY DEF ThreadInv, TypeOK
<1>c. todo[t] # <<>>
  BY <1>a, NothingSent, OrderKinds
<1>1. Pops(t)
  BY <1>a, <1>c DEF Pops, broker
<1>d. /\ lots' \in Seq(Lot) /\ Birth' = Birth
      /\ \A b \in Birth :
           /\ lots'[b].id = lots[b].id /\ lots'[b].symbol = lots[b].symbol
           /\ lots'[b].units = lots[b].units - Removed(o, b)
           /\ lots'[b].due = IF Target(o) = {} THEN lots[b].due
                             ELSE [lots[b].due EXCEPT ![t] = @ - InEvent(o, b)]
  BY ExitIsBooked
<1>e. \A b \in Birth : /\ Removed(o, b) \in Nat /\ lots[b].units \in Nat
                       /\ lots[b].due \in [Threads -> Int]
  BY <1>b, TakenIs, LotsTyped DEF Lot
<1> HIDE DEF o
<1>2. RestTyped'
  BY <1>a, <1>b DEF RestTyped, TypeOK, broker, bounds
<1>f. nextId' >= nextId /\ nextId' \in Nat
  BY <1>a, <1>b DEF TypeOK
<1>3. ListInv' /\ todo' \in [Threads -> Seq(Action)] /\ order' \in [Threads -> Order]
  <2>1. \A u \in Threads \ {t} : ~Unwritten(u) => ~Unwritten(u)'
    BY <1>d, <1>e DEF Unwritten
  <2> QED BY <1>1, <1>a, <1>f, <2>1, PopsKeep
<1>4. IdsAreUnique' /\ IdsAreTaken'
  <2>1. ASSUME NEW b \in Birth PROVE lots'[b].id = lots[b].id /\ (Open(b)' => Open(b))
    <3>1. /\ lots'[b].id = lots[b].id /\ lots'[b].units = lots[b].units - Removed(o, b)
          /\ Removed(o, b) \in Nat /\ lots[b].units \in Nat
      BY <1>d, <1>e
    <3>2. lots'[b].units > 0 => lots[b].units > 0
      BY <3>1
    <3> QED BY <3>1, <3>2 DEF Open
  <2> QED BY <1>d, <1>f, <2>1, IdsStay
<1> QED BY <1>1, <1>2, <1>a, <1>b, <1>d, <1>3, <1>4, TypesMeet DEF TypeOK

\* The lots when a slice has settled what expired.
LEMMA SettlementIs ==
  ASSUME ThreadInv, StartSlice
  PROVE  \E priced \in SUBSET {s \in Symbols : outside[s] = "expired"} :
           /\ lots' \in Seq(Lot) /\ Len(lots') = Len(lots) /\ Birth' = Birth
           /\ \A b \in Birth :
                LET gone == IF lots[b].symbol \in priced THEN lots[b].units ELSE 0
                IN  /\ lots'[b].id = lots[b].id /\ lots'[b].symbol = lots[b].symbol
                    /\ lots'[b].units = lots[b].units - gone
                    /\ lots'[b].log = lots[b].log /\ lots'[b].trail = lots[b].trail
                    /\ \A u \in Threads :
                         lots'[b].due[u] = IF u = "tick" THEN lots[b].due[u] - gone ELSE lots[b].due[u]
<1>1. PICK priced \in SUBSET {s \in Symbols : outside[s] = "expired"} :
        lots' = [b \in Birth |-> IF lots[b].symbol \notin priced THEN lots[b]
                                 ELSE Reduced(b, "tick", lots[b].units, lots[b].units)]
  BY DEF StartSlice
<1>2. TypeOK /\ "tick" \in Threads
  BY DEF ThreadInv, Threads
<1>3. ASSUME NEW b \in Birth
      PROVE  LET gone == IF lots[b].symbol \in priced THEN lots[b].units ELSE 0
             IN  /\ lots'[b] \in Lot /\ lots'[b].id = lots[b].id /\ lots'[b].symbol = lots[b].symbol
                 /\ lots'[b].units = lots[b].units - gone
                 /\ lots'[b].log = lots[b].log /\ lots'[b].trail = lots[b].trail
                 /\ \A u \in Threads :
                      lots'[b].due[u] = IF u = "tick" THEN lots[b].due[u] - gone ELSE lots[b].due[u]
  <2>1. lots[b] \in Lot /\ lots[b].units \in Nat /\ lots[b].due \in [Threads -> Int]
    BY <1>2, LotsTyped DEF Lot
  <2>2. CASE lots[b].symbol \notin priced
    <3>1. lots'[b] = lots[b] /\ lots[b].units - 0 = lots[b].units
      BY <1>1, <2>1, <2>2
    <3> QED BY <2>1, <2>2, <3>1
  <2>3. CASE lots[b].symbol \in priced
    <3> DEFINE l == Reduced(b, "tick", lots[b].units, lots[b].units)
    <3>1. lots'[b] = l
      BY <1>1, <2>3
    <3>2. lots[b].units \in Nat /\ lots[b].units \in Int /\ lots[b].units <= lots[b].units
      BY <2>1
    <3>3. /\ l \in Lot /\ l.id = lots[b].id /\ l.symbol = lots[b].symbol
          /\ l.units = lots[b].units - lots[b].units /\ l.log = lots[b].log /\ l.trail = lots[b].trail
          /\ l.due = [lots[b].due EXCEPT !["tick"] = @ - lots[b].units]
      BY <1>2, <3>2, ReducedIs
    <3> HIDE DEF l
    <3> QED BY <2>1, <2>3, <3>1, <3>3
  <2> QED BY <2>2, <2>3
<1>4. lots' \in [Birth -> Lot]
  BY <1>1, <1>3
<1>5. lots' \in Seq(Lot) /\ Len(lots') = Len(lots) /\ DOMAIN lots' = Birth
  BY <1>2, <1>4, LotsRebuilt
<1> QED BY <1>3, <1>5 DEF Birth

LEMMA StartSliceKeeps ==
  ASSUME ThreadInv, StartSlice
  PROVE  /\ ThreadInv'
         /\ \E list \in Seq(Action) :
              /\ Begins("tick", list) /\ \A i \in DOMAIN list : list[i].kind = "stop"
<1>a. PICK fired \in SUBSET stops :
        \E list \in Lists({[kind |-> "stop", symbol |-> st.symbol, lot |-> st.lot, units |-> 0] : st \in fired}) :
          todo' = [todo EXCEPT !["tick"] = list]
  BY DEF StartSlice
<1> DEFINE x == {[kind |-> "stop", symbol |-> st.symbol, lot |-> st.lot, units |-> 0] : st \in fired}
<1>b. PICK list \in Lists(x) : todo' = [todo EXCEPT !["tick"] = list]
  BY <1>a
<1>c. /\ Idle("tick") /\ slices' = slices + 1 /\ stage' = [stage EXCEPT !["tick"] = "stops"]
      /\ disturbed' = disturbed \cup Alongside("tick") /\ Trouble(Alongside("tick"))
      /\ handled' \in BOOLEAN
      /\ UNCHANGED <<nextId, session, order, broker, jobs>>
  BY DEF StartSlice
<1>d. TypeOK /\ "tick" \in Threads
  BY DEF ThreadInv, Threads
<1>1. list \in Seq(Action) /\ \A i \in DOMAIN list : list[i].kind = "stop"
  <2>1. \A a \in x : a \in Action /\ a.kind = "stop"
    BY <1>d DEF TypeOK, Action
  <2> HIDE DEF x
  <2>2. list \in Seq(x) /\ \A i \in DOMAIN list : list[i] \in x
    BY ListIs
  <2>3. x \subseteq Action
    BY <2>1
  <2> QED BY <2>1, <2>2, <2>3, SeqMonotonic
<1> HIDE DEF x
<1>2. stage'["tick"] = "stops"
  BY <1>c, <1>d DEF TypeOK
<1>3. Begins("tick", list)
  BY <1>b, <1>c, <1>d, <1>2 DEF Begins, Idle, broker
<1>4. RestTyped'
  <2>1. faults' \in Nat
    BY <1>c, <1>d, FaultsTyped
  <2>2. Alongside("tick") \subseteq {"overlap"}
    BY DEF Alongside
  <2>3. disturbed' = disturbed \cup Alongside("tick")
    BY <1>c
  <2>4. disturbed' \subseteq {"overlap", "partial", "stray", "stop", "hand", "restart"}
    BY <1>d, <2>2, <2>3 DEF TypeOK
  <2>5. slices' \in Nat
    BY <1>c, <1>d DEF TypeOK
  <2>6. UNCHANGED <<nextId, stops, managedBy, halted, job, account, outside, jobs>>
    BY <1>c DEF session, broker
  <2> QED BY <1>c, <1>d, <2>1, <2>4, <2>5, <2>6 DEF RestTyped, TypeOK
<1>5. PICK priced \in SUBSET {s \in Symbols : outside[s] = "expired"} :
        /\ lots' \in Seq(Lot) /\ Birth' = Birth
        /\ \A b \in Birth :
             LET gone == IF lots[b].symbol \in priced THEN lots[b].units ELSE 0
             IN  /\ lots'[b].id = lots[b].id /\ lots'[b].units = lots[b].units - gone
                 /\ \A u \in Threads :
                      lots'[b].due[u] = IF u = "tick" THEN lots[b].due[u] - gone ELSE lots[b].due[u]
  BY SettlementIs
<1>6. \A b \in Birth : lots[b].units \in Nat
  BY <1>d, LotsTyped DEF Lot
<1>7. IdsAreUnique' /\ IdsAreTaken'
  <2>1. \A b \in Birth : lots'[b].id = lots[b].id /\ (Open(b)' => Open(b))
    BY <1>5, <1>6 DEF Open
  <2>2. nextId' >= nextId /\ nextId' \in Nat
    BY <1>c, <1>d DEF TypeOK
  <2> QED BY <1>5, <2>1, <2>2, IdsStay
<1>8. /\ ListInv' /\ todo' \in [Threads -> Seq(Action)]
      /\ stage' \in [Threads -> {"idle", "stops", "actions"}]
  <2>1. \A u \in Threads \ {"tick"} : ~Unwritten(u) => ~Unwritten(u)'
    BY <1>5 DEF Unwritten
  <2>2. UNCHANGED <<job, settling>> /\ disturbed \subseteq disturbed'
    BY <1>c DEF session
  <2> QED BY <1>1, <1>2, <1>3, <1>c, <1>d, <2>1, <2>2, BeginsKeep
<1>9. order' \in [Threads -> Order] /\ settling' \subseteq Symbols
  BY <1>c, <1>d DEF TypeOK, session
<1> QED BY <1>1, <1>3, <1>4, <1>5, <1>7, <1>8, <1>9, TypesMeet

LEMMA DecideKeeps ==
  ASSUME ThreadInv, Decide
  PROVE  /\ ThreadInv'
         /\ \E x \in Decisions : \E list \in Lists(x) :
              Begins("tick", list) /\ \A i \in DOMAIN list : Sound(list[i])
<1>a. PICK x \in {y \in Decisions : Roomy(y)} : \E list \in Lists(x) :
        todo' = [todo EXCEPT !["tick"] = list]
  BY DEF Decide
<1>b. PICK list \in Lists(x) : todo' = [todo EXCEPT !["tick"] = list]
  BY <1>a
<1>c. /\ stage["tick"] = "stops" /\ ListDone("tick")
      /\ stage' = [stage EXCEPT !["tick"] = "actions"]
      /\ UNCHANGED <<portfolio, session, order, broker, bounds, seen>>
  BY DEF Decide
<1>d. TypeOK /\ "tick" \in Threads /\ x \in Decisions
  BY <1>a DEF ThreadInv, Threads
<1>1. /\ list \in Seq(Action)
      /\ \A i \in DOMAIN list :
           /\ Sound(list[i])
           /\ list[i].kind \in {"open", "close"} => list[i].units > 0
           /\ list[i].kind \in {"close", "whole", "attach"} => list[i].lot < nextId
  <2>1. \A a \in x : Sound(a)
    BY <1>d, DecisionsAre
  <2> QED BY <2>1, SoundListIs
<1>2. stage'["tick"] = "actions"
  BY <1>c, <1>d DEF TypeOK
<1>3. UNCHANGED <<lots, nextId, job, settling, outside, disturbed, order>>
  BY <1>c DEF portfolio, session, broker, seen
<1>4. Begins("tick", list)
  BY <1>b, <1>c, <1>2, <1>3 DEF Begins, Idle
<1>5. /\ ListInv' /\ todo' \in [Threads -> Seq(Action)]
      /\ stage' \in [Threads -> {"idle", "stops", "actions"}]
  <2>1. \A u \in Threads \ {"tick"} : ~Unwritten(u) => ~Unwritten(u)'
    BY <1>3 DEF Unwritten, Birth
  <2> QED BY <1>1, <1>2, <1>3, <1>4, <1>c, <1>d, <2>1, BeginsKeep
<1>6. RestTyped'
  BY <1>c, <1>d DEF RestTyped, TypeOK, portfolio, session, broker, bounds, seen
<1>7. IdsAreUnique' /\ IdsAreTaken'
  BY <1>3 DEF ThreadInv, IdsAreUnique, IdsAreTaken, Open, Birth
<1>8. ThreadInv'
  BY <1>3, <1>5, <1>6, <1>7, <1>d, TypesMeet DEF TypeOK
<1> QED BY <1>1, <1>4, <1>8, <1>d

\* A list that has come to its end.
LEMMA EndingKeeps ==
  ASSUME ThreadInv, EndSlice \/ EndJob
  PROVE  /\ ThreadInv'
         /\ EndSlice => Ends("tick")
         /\ EndJob => Ends("hand")
<1>a. TypeOK /\ "tick" \in Threads /\ "hand" \in Threads
  BY DEF ThreadInv, Threads
<1>1. ASSUME EndSlice PROVE Ends("tick") /\ ThreadInv'
  <2>1. /\ lots' = Written("tick", TRUE, TRUE) /\ EndList("tick")
        /\ UNCHANGED <<nextId, stops, managedBy, halted, job, broker, bounds, seen>>
    BY <1>1 DEF EndSlice
  <2>2. Ends("tick")
    BY <2>1 DEF Ends, broker
  <2>3. RestTyped'
    BY <1>a, <2>1 DEF RestTyped, TypeOK, broker, bounds, seen
  <2>4. disturbed \subseteq disturbed'
    BY <2>1 DEF seen
  <2> QED BY <1>a, <2>2, <2>3, <2>4, EndsKeep, TypesMeet
<1>2. ASSUME EndJob PROVE Ends("hand") /\ ThreadInv'
  <2>1. /\ lots' = Written("hand", TRUE, TRUE) /\ EndList("hand")
        /\ managedBy' = (IF Held = {} THEN managedBy ELSE "manual")
        /\ outside' = [s \in Symbols |-> IF s \in settling THEN "no" ELSE outside[s]]
        /\ UNCHANGED <<nextId, stops, halted, job, account, bounds, seen>>
    BY <1>2 DEF EndJob
  <2>2. Ends("hand")
    BY <2>1 DEF Ends
  <2>3. outside' \in [Symbols -> {"no", "closed", "expired"}]
    BY <1>a, <2>1 DEF TypeOK
  <2>4. managedBy' \in {"strategy", "manual"}
    BY <1>a, <2>1 DEF TypeOK
  <2>5. RestTyped'
    BY <1>a, <2>1, <2>3, <2>4 DEF RestTyped, TypeOK, bounds, seen
  <2>6. disturbed \subseteq disturbed'
    BY <2>1 DEF seen
  <2> QED BY <1>a, <2>2, <2>5, <2>6, EndsKeep, TypesMeet
<1> QED BY <1>1, <1>2

LEMMA InterveneKeeps ==
  ASSUME ThreadInv, NEW kind \in {"flatten", "order", "adopt"}, NEW x, NEW without \in SUBSET Symbols,
         Intervene(kind, x, without),
         \A a \in x : Sound(a) /\ a.kind \in IF kind = "order" THEN {"open", "close", "whole"} ELSE Closing,
         without # {} => kind = "adopt" /\ \A a \in x : a.symbol \in without,
         \A s \in without : outside[s] = "closed"
  PROVE  /\ ThreadInv'
         /\ \E list \in Lists(x) : Begins("hand", list) /\ \A i \in DOMAIN list : Sound(list[i])
<1>a. PICK list \in Lists(x) : todo' = [todo EXCEPT !["hand"] = list]
  BY DEF Intervene
<1>b. /\ Idle("hand") /\ stage' = [stage EXCEPT !["hand"] = "actions"]
      /\ job' = kind /\ settling' = without /\ jobs' = jobs + 1
      /\ disturbed' = disturbed \cup Alongside("hand") /\ Trouble(Alongside("hand"))
      /\ UNCHANGED <<portfolio, stops, managedBy, halted, order, broker, slices, handled>>
  BY DEF Intervene
<1>d. TypeOK /\ "hand" \in Threads
  BY DEF ThreadInv, Threads
<1>1. /\ list \in Seq(Action)
      /\ \A i \in DOMAIN list :
           /\ Sound(list[i]) /\ list[i] \in x
           /\ list[i].kind \in {"open", "close"} => list[i].units > 0
           /\ list[i].kind \in {"close", "whole", "attach"} => list[i].lot < nextId
  BY SoundListIs, ListIs
<1>2. stage'["hand"] = "actions" /\ todo'["hand"] = list
  BY <1>a, <1>b, <1>d DEF TypeOK
<1>3. UNCHANGED <<lots, nextId, outside, order, account>>
  BY <1>b DEF portfolio, broker
<1>4. Begins("hand", list)
  BY <1>a, <1>b, <1>2, <1>3 DEF Begins, Idle
<1>5. HandLists'
  BY <1>1, <1>2, <1>3, <1>b DEF HandLists, Idle
<1>6. /\ ListInv' /\ todo' \in [Threads -> Seq(Action)]
      /\ stage' \in [Threads -> {"idle", "stops", "actions"}]
  <2>1. \A u \in Threads \ {"hand"} : ~Unwritten(u) => ~Unwritten(u)'
    BY <1>3 DEF Unwritten, Birth
  <2>2. disturbed \subseteq disturbed'
    BY <1>b
  <2> QED BY <1>1, <1>2, <1>4, <1>5, <1>b, <1>d, <2>1, <2>2, BeginsKeep
<1>7. RestTyped'
  <2>1. faults' \in Nat
    BY <1>b, <1>d, FaultsTyped
  <2>2. Alongside("hand") \subseteq {"overlap"}
    BY DEF Alongside
  <2>3. disturbed' = disturbed \cup Alongside("hand")
    BY <1>b
  <2>4. disturbed' \subseteq {"overlap", "partial", "stray", "stop", "hand", "restart"}
    BY <1>d, <2>2, <2>3 DEF TypeOK
  <2>5. jobs' \in Nat /\ job' \in {"flatten", "order", "adopt"}
    BY <1>b, <1>d DEF TypeOK
  <2> QED BY <1>3, <1>b, <1>d, <2>1, <2>4, <2>5 DEF RestTyped, TypeOK
<1>8. IdsAreUnique' /\ IdsAreTaken'
  BY <1>3 DEF ThreadInv, IdsAreUnique, IdsAreTaken, Open, Birth
<1>9. settling' \subseteq Symbols /\ lots' \in Seq(Lot) /\ order' \in [Threads -> Order]
  BY <1>3, <1>b, <1>d DEF TypeOK
<1>10. ThreadInv'
  BY <1>6, <1>7, <1>8, <1>9, TypesMeet
<1> QED BY <1>1, <1>4, <1>10

\* What the owner's three ways into the book ask for.
HandAsks(kind, x, without) ==
  /\ Intervene(kind, x, without) /\ without \in SUBSET Symbols
  /\ kind \in {"flatten", "order", "adopt"}
  /\ \A a \in x : Sound(a) /\ a.kind \in IF kind = "order" THEN {"open", "close", "whole"} ELSE Closing
  /\ without # {} => kind = "adopt" /\ \A a \in x : a.symbol \in without
  /\ \A s \in without : outside[s] = "closed" /\ account[s] = 0
  /\ Disjoint(x)
  /\ kind # "order" =>
       \A b \in Birth : Open(b) /\ (kind = "flatten" \/ lots[b].symbol \in without) =>
         \E a \in x : Touches(a, b)

LEMMA ClosingIsDisjoint ==
  ASSUME NEW x, \A a \in x : a.kind \in Closing
  PROVE  Disjoint(x)
BY DEF Disjoint, Closing

LEMMA HandAsksIt ==
  ASSUME ThreadInv, Flatten \/ ManualOrder \/ AdoptBrokerClose
  PROVE  \E kind, x, without : HandAsks(kind, x, without)
<1>a. TypeOK /\ IdsAreUnique
  BY DEF ThreadInv
<1>b. \A b \in Birth : Open(b) => lots[b].symbol \in Held /\ b \in LotsOf(lots[b].symbol)
  BY <1>a, LotsTyped DEF Held, LotsOf, Lot
<1>1. CASE Flatten
  <2> DEFINE x == UNION {CloseOut(s) : s \in Held}
  <2>1. \A a \in x : Sound(a) /\ a.kind \in Closing
    BY <1>a, CloseOutIs
  <2>2. \A b \in Birth : Open(b) => \E a \in x : Touches(a, b)
    <3> SUFFICES ASSUME NEW b \in Birth, Open(b) PROVE \E a \in x : Touches(a, b)
      OBVIOUS
    <3>1. lots[b].symbol \in Held /\ b \in LotsOf(lots[b].symbol)
      BY <1>b
    <3>2. \E a \in CloseOut(lots[b].symbol) : Touches(a, b)
      BY <1>a, <3>1, CloseOutIs
    <3> QED BY <3>1, <3>2
  <2>3. Intervene("flatten", x, {})
    BY <1>1 DEF Flatten
  <2> HIDE DEF x
  <2>4. HandAsks("flatten", x, {})
    BY <2>1, <2>2, <2>3, ClosingIsDisjoint DEF HandAsks
  <2> QED BY <2>4
<1>2. CASE ManualOrder
  <2>1. PICK x \in ManualOrders : Intervene("order", x, {})
    BY <1>2 DEF ManualOrder
  <2>2. (\A a \in x : Sound(a) /\ a.kind \in {"open", "close", "whole"}) /\ Disjoint(x)
    BY <1>a, ManualOrdersAre
  <2>3. HandAsks("order", x, {})
    BY <2>1, <2>2 DEF HandAsks
  <2> QED BY <2>3
<1>3. CASE AdoptBrokerClose
  <2>1. PICK S \in SUBSET {s \in Held : outside[s] = "closed" /\ account[s] = 0} \ {{}} :
          Intervene("adopt", UNION {CloseOut(s) : s \in S}, S)
    BY <1>3 DEF AdoptBrokerClose
  <2> DEFINE x == UNION {CloseOut(s) : s \in S}
  <2>2. S \in SUBSET Symbols /\ S \in SUBSET Held /\ \A s \in S : outside[s] = "closed" /\ account[s] = 0
    BY <2>1 DEF Held
  <2>3. \A a \in x : Sound(a) /\ a.kind \in Closing /\ a.symbol \in S
    BY <1>a, <2>2, CloseOutIs
  <2>4. \A b \in Birth : Open(b) /\ lots[b].symbol \in S => \E a \in x : Touches(a, b)
    <3> SUFFICES ASSUME NEW b \in Birth, Open(b), lots[b].symbol \in S PROVE \E a \in x : Touches(a, b)
      OBVIOUS
    <3>1. lots[b].symbol \in Held /\ b \in LotsOf(lots[b].symbol)
      BY <1>b
    <3>2. \E a \in CloseOut(lots[b].symbol) : Touches(a, b)
      BY <1>a, <3>1, CloseOutIs
    <3> QED BY <3>2
  <2> HIDE DEF x
  <2>5. HandAsks("adopt", x, S)
    BY <2>1, <2>2, <2>3, <2>4, ClosingIsDisjoint DEF HandAsks, x
  <2> QED BY <2>5
<1> QED BY <1>1, <1>2, <1>3

\* The owner's list begins.
LEMMA HandKeeps ==
  ASSUME ThreadInv, Flatten \/ ManualOrder \/ AdoptBrokerClose
  PROVE  /\ ThreadInv'
         /\ \E kind, x, without : HandAsks(kind, x, without) /\
              \E list \in Lists(x) : Begins("hand", list) /\ \A i \in DOMAIN list : Sound(list[i])
<1>1. PICK kind, x, without : HandAsks(kind, x, without)
  BY HandAsksIt
<1>2. ThreadInv' /\ \E list \in Lists(x) : Begins("hand", list) /\ \A i \in DOMAIN list : Sound(list[i])
  BY <1>1, InterveneKeeps DEF HandAsks
<1> QED BY <1>1, <1>2

\* What leaves lots, lists and orders alone.
LEMMA AroundKeeps ==
  ASSUME ThreadInv,
         \/ ResumeStrategy \/ Acknowledge \/ UNCHANGED vars
         \/ \E s \in Symbols : SquareOff(s) \/ Expire(s)
  PROVE  ThreadInv' /\ Rests /\ UNCHANGED <<portfolio, stops, disturbed, handled>>
<1>a. TypeOK
  BY DEF ThreadInv
<1>1. /\ Rests /\ UNCHANGED <<portfolio, stops, disturbed, handled, slices, jobs, faults>>
      /\ managedBy' \in {"strategy", "manual"} /\ halted' \in BOOLEAN
  BY <1>a DEF ResumeStrategy, Acknowledge, SquareOff, Expire, ClosedOutside, vars, Rests,
              portfolio, threads, session, seen, bounds, TypeOK
<1>2. /\ account' \in [Symbols -> Int] /\ outside' \in [Symbols -> {"no", "closed", "expired"}]
      /\ \A s \in settling : outside'[s] = outside[s]
  <2>1. CASE ResumeStrategy \/ Acknowledge \/ UNCHANGED vars
    BY <1>a, <2>1 DEF ResumeStrategy, Acknowledge, vars, broker, TypeOK
  <2>2. ASSUME NEW s \in Symbols, NEW how \in {"closed", "expired"}, ClosedOutside(s, how)
        PROVE  /\ account' \in [Symbols -> Int] /\ outside' \in [Symbols -> {"no", "closed", "expired"}]
               /\ \A r \in settling : outside'[r] = outside[r]
    <3>1. /\ outside[s] = "no" /\ account' = [account EXCEPT ![s] = 0]
          /\ outside' = [outside EXCEPT ![s] = how]
      BY <2>2 DEF ClosedOutside
    <3>2. s \notin settling
      BY <3>1 DEF ThreadInv, ListInv, HandLists
    <3> QED BY <1>a, <3>1, <3>2 DEF TypeOK
  <2> QED BY <2>1, <2>2 DEF SquareOff, Expire
<1>3. RestTyped'
  BY <1>a, <1>1, <1>2 DEF RestTyped, TypeOK, portfolio, Rests
<1>4. UNCHANGED <<lots, nextId, settling, stage, todo, order>>
  BY <1>1 DEF Rests, portfolio, threads
<1>5. ListInv' /\ IdsAreUnique' /\ IdsAreTaken'
  BY <1>1, <1>2, <1>4, RestsKeep
<1> QED BY <1>a, <1>1, <1>3, <1>4, <1>5, TypesMeet DEF TypeOK

LEMMA RestartKeeps ==
  ASSUME ThreadInv, Restart
  PROVE  ThreadInv'
<1>a. TypeOK /\ \A t \in Threads : todo[t] = <<>> /\ order[t] = NoOrder
  BY DEF ThreadInv, ListInv, AtRest, Restart
<1> DEFINE ids == {lots[b].id : b \in {c \in Birth : Open(c)}}
           T == {0} \cup ids
<1>b. /\ disturbed' = disturbed \cup {"restart"} /\ Trouble({"restart"})
      /\ nextId' = 1 + Max(T) /\ halted' = FALSE
      /\ UNCHANGED <<lots, stops, managedBy, settling, threads, job, broker, slices, jobs, handled>>
  BY DEF Restart
<1>1. Max(T) \in T /\ T \subseteq Nat /\ \A y \in T : y <= Max(T)
  <2>1. /\ Len(lots) \in Nat /\ Birth = 1..Len(lots) /\ \A b \in Birth : lots[b].id \in Nat
    BY <1>a, LotsTyped DEF Lot
  <2> DEFINE f == [b \in Birth |-> lots[b].id]
  <2>2. PICK B \in Nat : \A i \in 1..Len(lots) : f[i] <= B
    <3>1. \A i \in 1..Len(lots) : f[i] \in Nat
      BY <2>1
    <3> HIDE DEF f
    <3> QED BY <2>1, <3>1, BoundExists
  <2>3. T \in SUBSET Nat /\ T # {} /\ \A y \in T : y <= B
    BY <2>1, <2>2
  <2> HIDE DEF T
  <2> QED BY <2>3, GreatestNat
<1>2. ASSUME NEW b \in Birth, Open(b) PROVE lots[b].id \in T
  BY <1>2
<1> DEFINE top == Max(T)
<1>c. top \in Nat /\ (\A y \in T : y \in Nat /\ y <= top) /\ nextId' = 1 + top
  BY <1>1, <1>b
<1> HIDE DEF T, top
<1>3. nextId' \in Nat /\ \A b \in Birth : Open(b) => lots[b].id < nextId'
  BY <1>2, <1>c
<1>4. RestTyped'
  <2>1. faults' \in Nat
    BY <1>a, <1>b, FaultsTyped
  <2> QED BY <1>a, <1>3, <1>b, <2>1 DEF RestTyped, TypeOK, broker
<1>5. UNCHANGED <<lots, settling, job, outside, stage, todo, order>> /\ disturbed \subseteq disturbed'
  BY <1>b DEF threads, broker
<1>6. ListInv'
  <2>1. AtRest' /\ OrdersAreActions' /\ HandLists'
    BY <1>5 DEF ThreadInv, ListInv, AtRest, OrdersAreActions, HandLists, Idle, Unwritten, Birth
  <2>2. OneThread'
    BY <1>5, QuietBefore DEF ThreadInv, ListInv, OneThread, Idle
  <2>3. ListsAreReal'
    <3>1. \A t \in Threads : DOMAIN todo'[t] = {}
      BY <1>a, <1>5
    <3> QED BY <3>1 DEF ListsAreReal
  <2> QED BY <2>1, <2>2, <2>3 DEF ListInv
<1>7. IdsAreUnique' /\ IdsAreTaken'
  BY <1>3, <1>5 DEF ThreadInv, IdsAreUnique, IdsAreTaken, Open, Birth
<1> QED BY <1>a, <1>4, <1>5, <1>6, <1>7, TypesMeet DEF TypeOK

\* The lots a session starts with: named in the order of their birth, and
\* nothing of them unwritten.
LEMMA InitialLots ==
  ASSUME Init
  PROVE  /\ lots \in Seq(Lot)
         /\ \A b \in Birth : /\ lots[b].id = b /\ lots[b].units = lots[b].log
                             /\ lots[b].units = lots[b].trail
                             /\ \A t \in Threads : lots[b].due[t] = 0
<1>1. PICK n \in 0..MaxLots : \E held \in [1..n -> Symbols \X Sizes] :
        lots = [b \in DOMAIN held |->
                  [id |-> b, symbol |-> held[b][1], units |-> held[b][2],
                   log |-> held[b][2], trail |-> held[b][2], due |-> [t \in Threads |-> 0]]]
  BY DEF Init
<1>2. PICK held \in [1..n -> Symbols \X Sizes] :
        lots = [b \in DOMAIN held |->
                  [id |-> b, symbol |-> held[b][1], units |-> held[b][2],
                   log |-> held[b][2], trail |-> held[b][2], due |-> [t \in Threads |-> 0]]]
  BY <1>1
<1>3. n \in Nat /\ DOMAIN held = 1..n /\ Birth = 1..n
  BY <1>2, BookAssumption DEF Birth
<1>4. ASSUME NEW b \in 1..n
      PROVE  /\ lots[b] \in Lot /\ lots[b].id = b /\ lots[b].units = lots[b].log
             /\ lots[b].units = lots[b].trail /\ \A t \in Threads : lots[b].due[t] = 0
  <2>1. held[b] \in Symbols \X Sizes
    OBVIOUS
  <2>2. held[b][1] \in Symbols /\ held[b][2] \in Nat /\ held[b][2] \in Int /\ b \in Nat
    <3>1. held[b][1] \in Symbols /\ held[b][2] \in Sizes
      BY <2>1
    <3>2. \A q \in Sizes : q \in Nat /\ q \in Int
      BY BookAssumption
    <3>3. b \in Nat
      BY <1>3
    <3> QED BY <3>1, <3>2, <3>3
  <2>3. [t \in Threads |-> 0] \in [Threads -> Int]
    OBVIOUS
  <2>4. lots[b] = [id |-> b, symbol |-> held[b][1], units |-> held[b][2],
                   log |-> held[b][2], trail |-> held[b][2], due |-> [t \in Threads |-> 0]]
    BY <1>2, <1>3
  <2> QED BY <2>2, <2>3, <2>4 DEF Lot
<1>5. lots \in [1..n -> Lot]
  BY <1>2, <1>3, <1>4
<1>6. lots \in Seq(Lot)
  BY <1>3, <1>5, FunctionIsSeq
<1> QED BY <1>3, <1>4, <1>6

LEMMA InitialThreads == Init => ThreadInv
<1> SUFFICES ASSUME Init PROVE ThreadInv
  OBVIOUS
<1>a. /\ nextId = Len(lots) + 1
      /\ stops = {} /\ managedBy = "strategy" /\ halted = FALSE
      /\ settling = {} /\ job = "flatten"
      /\ stage = [t \in Threads |-> "idle"] /\ todo = [t \in Threads |-> <<>>]
      /\ order = [t \in Threads |-> NoOrder]
      /\ account = [s \in Symbols |-> Units(s)] /\ outside = [s \in Symbols |-> "no"]
      /\ slices = 0 /\ jobs = 0 /\ faults = 0 /\ handled = FALSE /\ disturbed = {}
  BY DEF Init
<1>1. lots \in Seq(Lot) /\ Len(lots) \in Nat /\ Birth = 1..Len(lots)
      /\ \A b \in Birth : lots[b].id = b /\ \A t \in Threads : lots[b].due[t] = 0
  BY InitialLots, LenProperties DEF Birth
<1>2. \A s \in Symbols : Units(s) \in Nat
  <2> SUFFICES ASSUME NEW s \in Symbols PROVE Units(s) \in Nat
    OBVIOUS
  <2>1. IsFiniteSet(Birth)
    BY <1>1, FS_Interval
  <2>2. IsFiniteSet(LotsOf(s)) /\ LotsOf(s) \subseteq Birth
    BY <2>1, FS_Subset DEF LotsOf
  <2>3. \A b \in LotsOf(s) : [c \in Birth |-> lots[c].units][b] \in Nat
    <3>1. \A b \in Birth : lots[b] \in Lot
      BY <1>1
    <3> QED BY <2>2, <3>1 DEF Lot
  <2> QED BY <2>2, <2>3, SumNat DEF Units, UnitsIn
<1>3. <<>> \in Seq(Action)
  BY EmptySeq
<1>4. TypeOK
  <2>1. account \in [Symbols -> Int]
    BY <1>a, <1>2
  <2>2. todo \in [Threads -> Seq(Action)] /\ order \in [Threads -> Order]
    BY <1>a, <1>3, NothingSent
  <2>3. stage \in [Threads -> {"idle", "stops", "actions"}] /\ outside \in [Symbols -> {"no", "closed", "expired"}]
    BY <1>a
  <2>4. nextId \in Nat /\ lots \in Seq(Lot)
    BY <1>a, <1>1
  <2>5. /\ stops \subseteq [symbol : Symbols, lot : Nat, of : SUBSET Nat] /\ settling \subseteq Symbols
        /\ disturbed \subseteq {"overlap", "partial", "stray", "stop", "hand", "restart"}
    BY <1>a
  <2>6. /\ managedBy \in {"strategy", "manual"} /\ halted \in BOOLEAN
        /\ job \in {"flatten", "order", "adopt"}
        /\ slices \in Nat /\ jobs \in Nat /\ faults \in Nat /\ handled \in BOOLEAN
    BY <1>a
  <2> QED BY <2>1, <2>2, <2>3, <2>4, <2>5, <2>6 DEF TypeOK
<1>5. ListInv
  <2>1. \A t \in Threads : Idle(t) /\ todo[t] = <<>> /\ order[t] = NoOrder /\ ~Unwritten(t)
    BY <1>a, <1>1 DEF Idle, Unwritten
  <2>2. "hand" \in Threads /\ "tick" \in Threads
    BY DEF Threads
  <2> QED BY <1>a, <2>1, <2>2 DEF ListInv, AtRest, OrdersAreActions, OneThread, HandLists,
                                 ListsAreReal, Idle
<1>6. IdsAreUnique /\ IdsAreTaken
  BY <1>a, <1>1 DEF IdsAreUnique, IdsAreTaken
<1> QED BY <1>4, <1>5, <1>6 DEF ThreadInv

\* The steps of the program: of a thread, its list's beginning and end, and
\* what happens around.
LEMMA Steps ==
  ASSUME [Next]_vars
  PROVE  \/ \E t \in Threads : ThreadStep(t)
         \/ Decide \/ EndSlice \/ EndJob \/ StartSlice
         \/ Flatten \/ ManualOrder \/ AdoptBrokerClose
         \/ Restart
         \/ ResumeStrategy \/ Acknowledge \/ UNCHANGED vars
         \/ \E s \in Symbols : SquareOff(s) \/ Expire(s)
BY DEF Next, TickStep, HandStep, Outside, Threads

LEMMA ThreadsKept == ThreadInv /\ [Next]_vars => ThreadInv'
<1> SUFFICES ASSUME ThreadInv, [Next]_vars PROVE ThreadInv'
  OBVIOUS
<1>1. ASSUME NEW t \in Threads, ThreadStep(t) PROVE ThreadInv'
  BY <1>1, AttachKeeps, SkipKeeps, SendKeeps, ChildFillsKeeps, ChildFailsKeeps, RefusedKeeps,
     BookEntryKeeps, BookExitKeeps DEF ThreadStep
<1> QED BY <1>1, Steps, DecideKeeps, EndingKeeps, StartSliceKeeps, HandKeeps, RestartKeeps,
           AroundKeeps

\* THEOREM: every variable of the session stays in its type; lots are never
\* left with fewer than no units (engine/portfolio.py).
THEOREM TypeCorrect == Spec => []TypeOK
<1>1. ThreadInv => TypeOK
  BY DEF ThreadInv
<1> QED BY <1>1, InitialThreads, ThreadsKept, PTL DEF Spec

-----------------------------------------------------------------------------
(* Lots and stops.                                                         *)

\* No lot is born, renamed or grows.
BookShrinks ==
  /\ Len(lots') = Len(lots) /\ Birth' = Birth /\ nextId' = nextId
  /\ \A b \in Birth : /\ lots'[b].id = lots[b].id /\ lots'[b].symbol = lots[b].symbol
                      /\ lots'[b].units <= lots[b].units

\* What is to be done was so before, or has just been decided or fired.
ListsAreGiven ==
  \A t \in Threads : \A i \in DOMAIN todo'[t] :
    \/ \E j \in DOMAIN todo[t] : todo'[t][i] = todo[t][j]
    \/ Sound(todo'[t][i]) \/ todo'[t][i].kind = "stop"

LEMMA SameShrinks ==
  ASSUME TypeOK, UNCHANGED nextId, (Len(lots') = Len(lots) /\ SameBook) \/ UNCHANGED lots
  PROVE  BookShrinks
<1>1. \A b \in Birth : lots[b].units \in Nat
  BY LotsTyped DEF Lot
<1>2. CASE Len(lots') = Len(lots) /\ SameBook
  BY <1>1, <1>2 DEF BookShrinks, SameBook
<1>3. CASE UNCHANGED lots
  BY <1>1, <1>3 DEF BookShrinks, Birth
<1> QED BY <1>2, <1>3

\* How the list of a thread and its order may change.
ListMoves(t) ==
  /\ \A u \in Threads \ {t} : todo'[u] = todo[u] /\ order'[u] = order[u] /\ stage'[u] = stage[u]
  /\ \/ /\ todo[t] # <<>> /\ order'[t] = NoOrder /\ stage'[t] = stage[t]
        /\ Len(todo[t]) \in Nat /\ DOMAIN todo[t] = 1..Len(todo[t])
        /\ 1 \in DOMAIN todo[t] /\ Head(todo[t]) = todo[t][1]
        /\ DOMAIN todo'[t] = 1..(Len(todo[t]) - 1)
        /\ \A i \in DOMAIN todo'[t] : i + 1 \in DOMAIN todo[t] /\ todo'[t][i] = todo[t][i + 1]
     \/ todo[t] # <<>> /\ todo'[t] = todo[t] /\ stage'[t] = stage[t]
     \/ todo'[t] = <<>> /\ order'[t] = NoOrder /\ stage'[t] = "idle"

LEMMA ListMovesIt ==
  ASSUME ThreadInv, NEW t \in Threads, Pops(t) \/ Works(t) \/ Ends(t)
  PROVE  ListMoves(t)
<1>a. todo \in [Threads -> Seq(Action)] /\ order \in [Threads -> Order]
      /\ stage \in [Threads -> {"idle", "stops", "actions"}]
  BY DEF ThreadInv, TypeOK
<1>1. CASE Pops(t)
  <2>1. /\ todo'[t] = Tail(todo[t]) /\ order'[t] = NoOrder /\ stage' = stage /\ todo[t] # <<>>
        /\ \A u \in Threads \ {t} : todo'[u] = todo[u] /\ order'[u] = order[u]
    BY <1>1, <1>a DEF Pops, NextAction
  <2>2. /\ Len(todo[t]) \in Nat /\ DOMAIN todo[t] = 1..Len(todo[t])
        /\ 1 \in DOMAIN todo[t] /\ Head(todo[t]) = todo[t][1]
        /\ DOMAIN Tail(todo[t]) = 1..(Len(todo[t]) - 1)
        /\ \A i \in DOMAIN Tail(todo[t]) :
             i + 1 \in DOMAIN todo[t] /\ Tail(todo[t])[i] = todo[t][i + 1]
    BY <2>1, ListTyped DEF ThreadInv
  <2>3. /\ DOMAIN todo'[t] = 1..(Len(todo[t]) - 1)
        /\ \A i \in DOMAIN todo'[t] : i + 1 \in DOMAIN todo[t] /\ todo'[t][i] = todo[t][i + 1]
    BY <2>1, <2>2
  <2> QED BY <2>1, <2>2, <2>3 DEF ListMoves
<1>2. CASE Works(t)
  BY <1>2, <1>a DEF Works, ListMoves
<1>3. CASE Ends(t)
  BY <1>3, <1>a DEF Ends, EndList, ListMoves
<1> QED BY <1>1, <1>2, <1>3

LEMMA MovesAreGiven ==
  ASSUME NEW t \in Threads, ListMoves(t)
  PROVE  ListsAreGiven
<1> SUFFICES ASSUME NEW u \in Threads, NEW i \in DOMAIN todo'[u]
             PROVE  \E j \in DOMAIN todo[u] : todo'[u][i] = todo[u][j]
  BY DEF ListsAreGiven
<1>1. CASE u # t
  BY <1>1 DEF ListMoves
<1>2. CASE u = t
  BY <1>2 DEF ListMoves
<1> QED BY <1>1, <1>2

\* A step of a thread.
LEMMA ThreadStepIs ==
  ASSUME ThreadInv, NEW t \in Threads, ThreadStep(t)
  PROVE  /\ ListMoves(t) /\ disturbed \subseteq disturbed'
         /\ BookEntry(t) \/ BookShrinks
         /\ Attach(t) \/ stops' \subseteq stops
         /\ UNCHANGED job
<1>a. TypeOK
  BY DEF ThreadInv
<1>1. CASE Attach(t)
  <2>1. UNCHANGED <<lots, nextId, disturbed, job>>
    BY <1>1 DEF Attach, portfolio, seen
  <2> QED BY <1>a, <1>1, <2>1, AttachKeeps, ListMovesIt, SameShrinks
<1>2. CASE Skip(t)
  <2>1. UNCHANGED <<lots, nextId, disturbed, job>> /\ stops' \subseteq stops
    BY <1>2 DEF Skip, portfolio, seen
  <2> QED BY <1>a, <1>2, <2>1, SkipKeeps, ListMovesIt, SameShrinks
<1>3. CASE Send(t)
  <2>1. UNCHANGED <<lots, nextId, disturbed, stops, job>>
    BY <1>3 DEF Send, portfolio, seen, session
  <2> QED BY <1>a, <1>3, <2>1, SendKeeps, ListMovesIt, SameShrinks
<1>4. CASE ChildFills(t)
  <2>1. UNCHANGED <<lots, nextId, stops, job>> /\ disturbed \subseteq disturbed'
    BY <1>4 DEF ChildFills, portfolio, session
  <2> QED BY <1>a, <1>4, <2>1, ChildFillsKeeps, ListMovesIt, SameShrinks
<1>5. ASSUME Ends(t), NEW failedOrder, NEW also, Raise(t, failedOrder, also)
      PROVE  /\ disturbed \subseteq disturbed' /\ BookShrinks /\ UNCHANGED <<stops, job>>
  <2>1. UNCHANGED <<nextId, stops, job>> /\ disturbed \subseteq disturbed'
    BY <1>5 DEF Raise
  <2>2. Len(lots') = Len(lots) /\ SameBook
    <3>1. PICK inLog, inTrail \in BOOLEAN : lots' = Written(t, inLog, inTrail)
      BY <1>5 DEF Ends
    <3> QED BY <1>a, <3>1, WrittenIs
  <2> QED BY <1>a, <2>1, <2>2, SameShrinks
<1>6. CASE ChildFails(t)
  <2>1. Works(t) \/ Ends(t)
    BY <1>6, ChildFailsKeeps
  <2>2. \/ \E also : Raise(t, TRUE, also)
        \/ UNCHANGED <<portfolio, session, stage, todo>> /\ disturbed \subseteq disturbed'
    BY <1>6 DEF ChildFails
  <2>3. CASE \E also : Raise(t, TRUE, also)
    <3>1. stage'[t] = "idle" /\ todo'[t] = <<>>
      BY <2>3, <1>a DEF Raise, EndList, TypeOK
    <3>2. ~Works(t)
      BY <3>1 DEF Works
    <3> QED BY <1>5, <2>1, <2>3, <3>2, ListMovesIt
  <2>4. CASE UNCHANGED <<portfolio, session, stage, todo>> /\ disturbed \subseteq disturbed'
    <3>1. UNCHANGED <<lots, nextId, stops, job>>
      BY <2>4 DEF portfolio, session
    <3> QED BY <1>a, <2>1, <2>4, <3>1, ListMovesIt, SameShrinks
  <2> QED BY <2>2, <2>3, <2>4
<1>7. CASE SendFails(t) \/ BookFails(t)
  <2>1. Raise(t, FALSE, {})
    BY <1>7 DEF SendFails, BookFails
  <2> QED BY <1>5, <1>7, <2>1, RefusedKeeps, ListMovesIt
<1>8. CASE BookEntry(t)
  BY <1>8, BookEntryKeeps, ListMovesIt DEF BookEntry, session
<1>9. CASE BookExit(t)
  <2>1. UNCHANGED <<nextId, disturbed, job>> /\ stops' \subseteq stops
    BY <1>9 DEF BookExit
  <2>2. BookShrinks
    <3>1. order[t] \in Order
      BY <1>a DEF TypeOK
    <3>2. \A b \in Birth : Removed(order[t], b) \in Nat /\ lots[b].units \in Nat
      BY <1>a, <3>1, TakenIs, LotsTyped DEF Lot
    <3>3. /\ Len(lots') = Len(lots) /\ Birth' = Birth
          /\ \A b \in Birth : /\ lots'[b].id = lots[b].id /\ lots'[b].symbol = lots[b].symbol
                              /\ lots'[b].units = lots[b].units - Removed(order[t], b)
      BY <1>9, ExitIsBooked
    <3>4. \A b \in Birth : lots'[b].units <= lots[b].units
      BY <3>2, <3>3
    <3> QED BY <2>1, <3>3, <3>4 DEF BookShrinks
  <2> QED BY <1>9, <2>1, <2>2, BookExitKeeps, ListMovesIt
<1> QED BY <1>1, <1>2, <1>3, <1>4, <1>6, <1>7, <1>8, <1>9 DEF ThreadStep

\* A step that is not of a thread: a list begins or ends, or neither.
LEMMA SessionStepIs ==
  ASSUME ThreadInv,
         \/ Decide \/ EndSlice \/ EndJob \/ StartSlice
         \/ Flatten \/ ManualOrder \/ AdoptBrokerClose
         \/ ResumeStrategy \/ Acknowledge \/ UNCHANGED vars
         \/ \E s \in Symbols : SquareOff(s) \/ Expire(s)
  PROVE  BookShrinks /\ ListsAreGiven /\ UNCHANGED stops /\ disturbed \subseteq disturbed'
<1>a. TypeOK /\ "tick" \in Threads /\ "hand" \in Threads
  BY DEF ThreadInv, Threads
<1>b. ASSUME NEW t \in Threads, NEW list \in Seq(Action), Begins(t, list),
             \A i \in DOMAIN list : Sound(list[i]) \/ list[i].kind = "stop"
      PROVE  ListsAreGiven
  <2>1. todo'[t] = list /\ \A u \in Threads \ {t} : todo'[u] = todo[u]
    BY <1>a, <1>b DEF Begins, TypeOK
  <2> QED BY <1>b, <2>1 DEF ListsAreGiven
<1>c. ASSUME NEW x, NEW list \in Lists(x), \A i \in DOMAIN list : Sound(list[i])
      PROVE  list \in Seq(Action)
  <2>1. list \in Seq(x) /\ DOMAIN list = 1..Len(list) /\ Len(list) \in Nat
    BY <1>c, ListIs
  <2>2. list \in [1..Len(list) -> Action]
    BY <1>c, <2>1 DEF Sound
  <2> QED BY <2>1, <2>2, FunctionIsSeq
<1>1. CASE Decide
  <2>1. UNCHANGED <<lots, nextId, stops, disturbed>>
    BY <1>1 DEF Decide, portfolio, session, seen
  <2>2. ListsAreGiven
    BY <1>1, <1>a, <1>b, <1>c, DecideKeeps
  <2> QED BY <1>a, <2>1, <2>2, SameShrinks
<1>2. CASE EndSlice
  <2>1. UNCHANGED <<nextId, stops, disturbed>>
    BY <1>2 DEF EndSlice, seen
  <2>2. Ends("tick") /\ disturbed \subseteq disturbed'
    BY <1>2, <2>1, EndingKeeps
  <2>3. Len(lots') = Len(lots) /\ SameBook
    BY <1>a, <2>2, EndsKeep
  <2> QED BY <1>a, <2>1, <2>2, <2>3, SameShrinks, ListMovesIt, MovesAreGiven
<1>3. CASE EndJob
  <2>1. UNCHANGED <<nextId, stops, disturbed>>
    BY <1>3 DEF EndJob, seen
  <2>2. Ends("hand") /\ disturbed \subseteq disturbed'
    BY <1>3, <2>1, EndingKeeps
  <2>3. Len(lots') = Len(lots) /\ SameBook
    BY <1>a, <2>2, EndsKeep
  <2> QED BY <1>a, <2>1, <2>2, <2>3, SameShrinks, ListMovesIt, MovesAreGiven
<1>4. CASE StartSlice
  <2>1. UNCHANGED <<nextId, stops>> /\ disturbed \subseteq disturbed'
    BY <1>4 DEF StartSlice, session
  <2>2. ListsAreGiven
    BY <1>4, <1>a, <1>b, StartSliceKeeps
  <2>3. PICK priced \in SUBSET {s \in Symbols : outside[s] = "expired"} :
          /\ Len(lots') = Len(lots) /\ Birth' = Birth
          /\ \A b \in Birth :
               LET gone == IF lots[b].symbol \in priced THEN lots[b].units ELSE 0
               IN  /\ lots'[b].id = lots[b].id /\ lots'[b].symbol = lots[b].symbol
                   /\ lots'[b].units = lots[b].units - gone
    BY <1>4, SettlementIs
  <2>4. \A b \in Birth : lots[b].units \in Nat
    BY <1>a, LotsTyped DEF Lot
  <2>5. \A b \in Birth : lots'[b].units <= lots[b].units
    BY <2>3, <2>4
  <2> QED BY <2>1, <2>2, <2>3, <2>5 DEF BookShrinks
<1>5. CASE Flatten \/ ManualOrder \/ AdoptBrokerClose
  <2>1. UNCHANGED <<lots, nextId, stops>> /\ disturbed \subseteq disturbed'
    BY <1>5 DEF Flatten, ManualOrder, AdoptBrokerClose, Intervene, portfolio
  <2>2. ListsAreGiven
    BY <1>5, <1>a, <1>b, <1>c, HandKeeps
  <2> QED BY <1>a, <2>1, <2>2, SameShrinks
<1>6. CASE \/ ResumeStrategy \/ Acknowledge \/ UNCHANGED vars
           \/ \E s \in Symbols : SquareOff(s) \/ Expire(s)
  <2>1. UNCHANGED <<lots, nextId, stops, disturbed, todo>>
    BY <1>6, AroundKeeps DEF Rests, portfolio, threads
  <2> QED BY <1>a, <2>1, SameShrinks DEF ListsAreGiven
<1> QED BY <1>1, <1>2, <1>3, <1>4, <1>5, <1>6

\* Lots that keep their names keep the stops and the attaches true.
LEMMA NamesKept ==
  ASSUME LotInv, BookShrinks, ListsAreGiven, stops' \subseteq stops, disturbed \subseteq disturbed',
         ThreadInv'
  PROVE  LotInv'
<1>a. Without({"restart"})' => Without({"restart"})
  BY DEF Without
<1>b. /\ Birth' = Birth /\ nextId' = nextId /\ Len(lots') = Len(lots)
      /\ \A b \in Birth : lots'[b].id = lots[b].id /\ lots'[b].symbol = lots[b].symbol
  BY DEF BookShrinks
<1>c. \A b \in Birth : Open(b)' => Open(b)
  <2>1. \A b \in Birth : lots[b].units \in Nat
    BY LotsTyped DEF LotInv, ThreadInv, Lot
  <2>2. \A b \in Birth : lots'[b].units \in Nat
    <3>1. TypeOK'
      BY DEF ThreadInv
    <3>2. \A b \in 1..Len(lots') : lots'[b] \in Lot
      BY <3>1 DEF TypeOK
    <3> QED BY <3>2, <1>b, LotsTyped DEF Lot, LotInv, ThreadInv
  <2> QED BY <2>1, <2>2 DEF BookShrinks, Open
<1>1. StopsGuardTheirLots'
  BY <1>a, <1>b, <1>c DEF LotInv, StopsGuardTheirLots, ThreadInv
<1>2. NamedByBirth'
  BY <1>a, <1>b DEF LotInv, NamedByBirth
<1>3. AttachesAreReal'
  <2> SUFFICES ASSUME Without({"restart"})', NEW t \in Threads, NEW i \in DOMAIN todo'[t],
                      todo'[t][i].kind = "attach"
               PROVE  todo'[t][i].lot \in Birth /\ lots[todo'[t][i].lot].symbol = todo'[t][i].symbol
    BY <1>b DEF AttachesAreReal
  <2>1. CASE \E j \in DOMAIN todo[t] : todo'[t][i] = todo[t][j]
    BY <1>a, <2>1 DEF LotInv, AttachesAreReal
  <2>2. CASE Sound(todo'[t][i])
    BY <1>a, <2>2 DEF LotInv, NamedByBirth, Sound
  <2> QED BY <2>1, <2>2 DEF ListsAreGiven
<1>4. StopsAreReal'
  BY <1>a, <1>b DEF LotInv, StopsAreReal
<1> QED BY <1>1, <1>2, <1>3, <1>4 DEF LotInv

LEMMA EntryNamed ==
  ASSUME LotInv, NEW t \in Threads, BookEntry(t), ThreadInv'
  PROVE  LotInv'
<1> DEFINE n == Len(lots) + 1
<1>a. UNCHANGED <<stops, disturbed>> /\ nextId' = nextId + 1
  BY DEF BookEntry, session
<1>b. /\ Len(lots') = n /\ n \notin Birth /\ Birth' = Birth \cup {n}
      /\ \A b \in Birth : lots'[b] = lots[b]
      /\ lots'[n].id = nextId
  BY EntryIsBooked DEF LotInv
<1>c. /\ nextId \in Nat /\ Len(lots) \in Nat /\ \A b \in Birth : lots[b].id \in Nat
      /\ \A st \in stops : st.lot \in Nat
  BY LotsTyped DEF LotInv, ThreadInv, TypeOK, Lot
<1>d. ListsAreGiven
  BY ThreadStepIs, MovesAreGiven DEF LotInv, ThreadStep
<1>1. NamedByBirth'
  BY <1>a, <1>b, <1>c DEF LotInv, NamedByBirth, Without
<1>2. StopsAreReal'
  BY <1>a, <1>c DEF LotInv, StopsAreReal, Without
<1>3. StopsGuardTheirLots'
  <2> SUFFICES ASSUME Without({"restart"})', NEW st \in stops, NEW b \in Birth', Open(b)',
                      lots'[b].id = st.lot
               PROVE  b \in st.of
    BY <1>a DEF StopsGuardTheirLots, ThreadInv
  <2>1. b # n
    <3>1. st.lot < nextId /\ st.lot \in Nat
      BY <1>a, <1>c DEF LotInv, StopsAreReal, Without
    <3> QED BY <1>b, <1>c, <3>1
  <2>2. b \in Birth /\ lots'[b] = lots[b]
    BY <1>b, <2>1
  <2> QED BY <1>a, <2>2 DEF LotInv, StopsGuardTheirLots, Without, Open
<1>4. AttachesAreReal'
  <2> SUFFICES ASSUME Without({"restart"})', NEW u \in Threads, NEW i \in DOMAIN todo'[u],
                      todo'[u][i].kind = "attach"
               PROVE  /\ todo'[u][i].lot \in Birth
                      /\ lots[todo'[u][i].lot].symbol = todo'[u][i].symbol
    BY <1>b DEF AttachesAreReal
  <2>1. CASE \E j \in DOMAIN todo[u] : todo'[u][i] = todo[u][j]
    BY <1>a, <2>1 DEF LotInv, AttachesAreReal, Without
  <2>2. CASE Sound(todo'[u][i])
    BY <1>a, <2>2 DEF LotInv, NamedByBirth, Sound, Without
  <2> QED BY <1>d, <2>1, <2>2 DEF ListsAreGiven
<1> QED BY <1>1, <1>2, <1>3, <1>4 DEF LotInv

LEMMA AttachNamed ==
  ASSUME LotInv, NEW t \in Threads, Attach(t), ThreadInv'
  PROVE  LotInv'
<1> DEFINE a == Head(todo[t])
           st0 == [symbol |-> a.symbol, lot |-> a.lot, of |-> GetLot(a.symbol, a.lot)]
           kept == {st \in stops : st.lot # a.lot}
<1>a. /\ todo[t] # <<>> /\ a.kind = "attach" /\ stops' = kept \cup {st0}
      /\ UNCHANGED <<lots, nextId, disturbed>>
  BY DEF Attach, NoOrders, portfolio, seen
<1>b. ListsAreGiven
  BY ThreadStepIs, MovesAreGiven DEF LotInv, ThreadStep
<1>c. 1 \in DOMAIN todo[t] /\ a = todo[t][1]
  BY <1>a, ListTyped DEF LotInv, ThreadInv
<1>d. Without({"restart"}) => a.lot \in Birth /\ lots[a.lot].symbol = a.symbol
  BY <1>a, <1>c DEF LotInv, AttachesAreReal
<1>e. st0.symbol = a.symbol /\ st0.lot = a.lot /\ st0.of = GetLot(a.symbol, a.lot)
  OBVIOUS
<1>f. ListsAreReal /\ TypeOK
  BY DEF LotInv, ThreadInv, ListInv
<1>g. a.lot < nextId
  BY <1>a, <1>c, <1>f DEF ListsAreReal
<1> HIDE DEF a, st0
<1>1. NamedByBirth'
  BY <1>a DEF LotInv, NamedByBirth, Without, Birth
<1>2. StopsAreReal'
  BY <1>a, <1>e, <1>g DEF LotInv, StopsAreReal, Without
<1>3. StopsGuardTheirLots'
  <2> SUFFICES ASSUME Without({"restart"}), NEW st \in stops', NEW b \in Birth, Open(b),
                      lots[b].id = st.lot
               PROVE  b \in st.of
    BY <1>a DEF StopsGuardTheirLots, ThreadInv, Without, Birth, Open
  <2>1. CASE st \in stops
    BY <2>1 DEF LotInv, StopsGuardTheirLots
  <2>2. CASE st = st0
    <3>1. lots[b].id = a.lot
      BY <1>e, <2>2
    <3>2. b = a.lot
      BY <3>1 DEF LotInv, NamedByBirth
    <3>3. lots[b].symbol = a.symbol
      BY <1>d, <3>2
    <3> QED BY <1>e, <2>2, <3>1, <3>3 DEF GetLot, LotsOf
  <2> QED BY <1>a, <2>1, <2>2
<1>4. AttachesAreReal'
  <2> SUFFICES ASSUME Without({"restart"}), NEW u \in Threads, NEW i \in DOMAIN todo'[u],
                      todo'[u][i].kind = "attach"
               PROVE  /\ todo'[u][i].lot \in Birth
                      /\ lots[todo'[u][i].lot].symbol = todo'[u][i].symbol
    BY <1>a DEF AttachesAreReal, Without, Birth
  <2>1. CASE \E j \in DOMAIN todo[u] : todo'[u][i] = todo[u][j]
    BY <2>1 DEF LotInv, AttachesAreReal
  <2>2. CASE Sound(todo'[u][i])
    BY <2>2 DEF LotInv, NamedByBirth, Sound
  <2> QED BY <1>b, <2>1, <2>2 DEF ListsAreGiven
<1> QED BY <1>1, <1>2, <1>3, <1>4 DEF LotInv

LEMMA RestartNamed ==
  ASSUME LotInv, Restart, ThreadInv'
  PROVE  LotInv'
<1>1. ~Without({"restart"})'
  BY DEF Restart, Without
<1> QED BY <1>1 DEF LotInv, StopsGuardTheirLots, NamedByBirth, AttachesAreReal, StopsAreReal,
                    ThreadInv

LEMMA InitialNames == Init => LotInv
<1> SUFFICES ASSUME Init PROVE LotInv
  OBVIOUS
<1>1. ThreadInv
  BY InitialThreads
<1>2. stops = {} /\ nextId = Len(lots) + 1 /\ \A t \in Threads : todo[t] = <<>>
  BY DEF Init
<1>3. \A b \in Birth : lots[b].id = b
  BY InitialLots
<1> QED BY <1>1, <1>2, <1>3 DEF LotInv, StopsGuardTheirLots, NamedByBirth, AttachesAreReal,
                                StopsAreReal, ThreadInv

LEMMA NamesKeep == LotInv /\ [Next]_vars => LotInv'
<1> SUFFICES ASSUME LotInv, [Next]_vars PROVE LotInv'
  OBVIOUS
<1>a. ThreadInv /\ ThreadInv'
  BY ThreadsKept DEF LotInv
<1>1. ASSUME NEW t \in Threads, ThreadStep(t) PROVE LotInv'
  <2>1. CASE Attach(t)
    BY <1>a, <2>1, AttachNamed
  <2>2. CASE BookEntry(t)
    BY <1>a, <2>2, EntryNamed
  <2>3. CASE ~Attach(t) /\ ~BookEntry(t)
    BY <1>1, <1>a, <2>3, ThreadStepIs, MovesAreGiven, NamesKept
  <2> QED BY <2>1, <2>2, <2>3
<1>2. CASE Restart
  BY <1>a, <1>2, RestartNamed
<1>3. CASE \/ Decide \/ EndSlice \/ EndJob \/ StartSlice
           \/ Flatten \/ ManualOrder \/ AdoptBrokerClose
           \/ ResumeStrategy \/ Acknowledge \/ UNCHANGED vars
           \/ \E s \in Symbols : SquareOff(s) \/ Expire(s)
  BY <1>a, <1>3, SessionStepIs, NamesKept
<1> QED BY <1>1, <1>2, <1>3, Steps

\* THEOREM: an id names one open lot, restarts included; and until a restart a
\* stop, and the strategy's blindness for what it manages, concern the very lot
\* it was attached to (engine/stops.py, engine/portfolio.py).
THEOREM StopsGuard == Spec => []StopsGuardTheirLots
<1>1. LotInv => StopsGuardTheirLots
  BY DEF LotInv
<1> QED BY <1>1, InitialNames, NamesKeep, PTL DEF Spec

-----------------------------------------------------------------------------
(* The orders and the book.                                                *)

\* Beside a thread at work, when none have overlapped, the other is at rest.
LEMMA Alone ==
  ASSUME ThreadInv, Quiet, NEW t \in Threads, ~Idle(t)
  PROVE  \A u \in Threads \ {t} :
           Idle(u) /\ todo[u] = <<>> /\ order[u] = NoOrder /\ ~Unwritten(u)
BY DEF ThreadInv, ListInv, OneThread, AtRest, Threads

LEMMA AtWork ==
  ASSUME ThreadInv, NEW t \in Threads, ThreadStep(t)
  PROVE  ~Idle(t) /\ todo[t] # <<>>
<1>1. order[t] # NoOrder => todo[t] # <<>> /\ ~Idle(t)
  BY OrderKinds
<1>2. order[t].left > 0 \/ order[t].kind # "none" => order[t] # NoOrder
  BY NothingSent
<1> QED BY <1>1, <1>2 DEF ThreadStep, Attach, Skip, Send, SendFails, ChildFills, ChildFails,
                          BookEntry, BookExit, BookFails, Done, NoOrders

\* The rest of a list still fits, if what it exits in part is as it was.
LEMMA ExitsMove ==
  ASSUME BookInv, disturbed \subseteq disturbed', NEW t \in Threads, ~Idle(t), ListMoves(t),
         Quiet => \A j \in DOMAIN todo'[t] : \A b \in Birth' :
           todo'[t][j].kind = "close" /\ Open(b)' /\ Touches(todo[t][j], b)' =>
             /\ todo'[t][j].symbol \notin Shorts => lots'[b].units = lots[b].units
             /\ b \in Birth /\ lots'[b].units <= lots[b].units /\ Open(b)
             /\ lots'[b].id = lots[b].id /\ lots'[b].symbol = lots[b].symbol
  PROVE  ExitsFit'
<1> SUFFICES ASSUME Quiet', NEW u \in Threads, NEW j \in DOMAIN todo'[u],
                    todo'[u][j].kind = "close", todo'[u][j].symbol \notin Shorts,
                    NEW b \in Birth', Open(b)', Touches(todo[u][j], b)'
             PROVE  /\ todo'[u][j].units <= lots'[b].units
                    /\ \A i \in 1..(j - 1) : ~Touches(todo[u][i], b)'
  BY DEF ExitsFit
<1>a. Quiet /\ ThreadInv /\ ExitsFit
  BY QuietBefore DEF BookInv, LotInv
<1>1. u = t
  <2>1. u # t => todo'[u] = <<>>
    BY <1>a, Alone DEF ListMoves
  <2> QED BY <2>1
<1>2. /\ b \in Birth /\ Open(b) /\ lots'[b].units = lots[b].units
      /\ lots'[b].id = lots[b].id /\ lots'[b].symbol = lots[b].symbol
  BY <1>1, <1>a
<1>3. \A k \in Threads : \A i : Touches(todo[k][i], b)' = Touches(todo'[k][i], b)
  BY <1>2 DEF Touches
<1>4. CASE todo'[t] = todo[t]
  BY <1>1, <1>2, <1>3, <1>4, <1>a DEF ExitsFit
<1>5. CASE /\ Len(todo[t]) \in Nat /\ DOMAIN todo[t] = 1..Len(todo[t])
           /\ DOMAIN todo'[t] = 1..(Len(todo[t]) - 1)
           /\ \A i \in DOMAIN todo'[t] : i + 1 \in DOMAIN todo[t] /\ todo'[t][i] = todo[t][i + 1]
  <2>1. /\ j + 1 \in DOMAIN todo[t] /\ todo'[t][j] = todo[t][j + 1] /\ j \in Nat
        /\ Touches(todo[t][j + 1], b)
    BY <1>1, <1>3, <1>5
  <2>2. /\ todo[t][j + 1].units <= lots[b].units
        /\ \A i \in 1..((j + 1) - 1) : ~Touches(todo[t][i], b)
    BY <1>1, <1>2, <1>a, <2>1 DEF ExitsFit
  <2>3. ASSUME NEW i \in 1..(j - 1) PROVE ~Touches(todo[t][i], b)'
    <3>1. i \in DOMAIN todo'[t] /\ i + 1 \in 1..((j + 1) - 1)
      BY <1>1, <1>5, <2>1
    <3>2. todo'[t][i] = todo[t][i + 1]
      BY <1>5, <3>1
    <3> QED BY <1>3, <2>2, <3>1, <3>2
  <2> QED BY <1>1, <1>2, <2>1, <2>2, <2>3
<1>6. todo'[t] # <<>>
  BY <1>1
<1> QED BY <1>4, <1>5, <1>6 DEF ListMoves

LEMMA NoOrdersFit ==
  ASSUME Quiet' => \A u \in Threads : order'[u] = NoOrder
  PROVE  OrdersFit'
BY NothingSent DEF OrdersFit, OrderFits, Exiting

\* An order that has moved on asks for what it did.
LEMMA FitsAlike ==
  ASSUME BookInv, disturbed \subseteq disturbed', NEW t \in Threads, ~Idle(t), UNCHANGED lots,
         \A u \in Threads \ {t} : order'[u] = order[u],
         /\ order'[t].kind = order[t].kind /\ order'[t].symbol = order[t].symbol
         /\ order'[t].lot = order[t].lot /\ order'[t].ask = order[t].ask
         /\ order'[t].parts = order[t].parts
  PROVE  OrdersFit'
<1> SUFFICES ASSUME Quiet', NEW u \in Threads PROVE OrderFits(order[u])'
  BY DEF OrdersFit
<1>a. Quiet /\ OrderFits(order[u])
  BY QuietBefore DEF BookInv, OrdersFit
<1>1. \A s, id : (LotsOf(s))' = LotsOf(s) /\ (GetLot(s, id))' = GetLot(s, id) /\ (Units(s))' = Units(s)
  BY DEF LotsOf, GetLot, Units, UnitsIn, Birth, Open
<1>2. /\ order'[u].kind = order[u].kind /\ order'[u].symbol = order[u].symbol
      /\ order'[u].lot = order[u].lot /\ order'[u].ask = order[u].ask
      /\ order'[u].parts = order[u].parts
  OBVIOUS
<1>3. Target(order[u])' = Target(order[u])
  BY <1>1, <1>2 DEF Target
<1> QED BY <1>a, <1>1, <1>2, <1>3 DEF OrderFits, Birth

\* An order asks for what is there when it is sent.
LEMMA SentFits ==
  ASSUME BookInv, NEW t \in Threads, Send(t)
  PROVE  OrdersFit'
<1> SUFFICES ASSUME Quiet', NEW u \in Threads PROVE OrderFits(order[u])'
  BY DEF OrdersFit
<1>a. ThreadInv /\ TypeOK /\ UNCHANGED <<lots, disturbed>> /\ Quiet
  BY DEF Send, portfolio, seen, BookInv, LotInv, ThreadInv, Quiet, Without
<1>b. \A s, id : (LotsOf(s))' = LotsOf(s) /\ (GetLot(s, id))' = GetLot(s, id) /\ (Units(s))' = Units(s)
  BY <1>a DEF LotsOf, GetLot, Units, UnitsIn, Birth, Open
<1> DEFINE a == Head(todo[t])
           covers == a.symbol \in Shorts /\ \A b \in GetLot(a.symbol, a.lot) : Asked(a) = lots[b].units
<1>1. PICK o \in Order :
        /\ order' = [order EXCEPT ![t] = o] /\ OrderIsOf(o, a) /\ o.ask = Asked(a)
        /\ o.kind = IF a.kind = "close" /\ covers THEN "whole" ELSE a.kind
        /\ o.kind = "pool" =>
             o.parts = [b \in Birth |-> IF b \in LotsOf(a.symbol) THEN lots[b].units ELSE 0]
  BY <1>a, SentIs
<1>2. a.kind # "attach" /\ ~Gone(a) /\ todo[t] # <<>>
  BY DEF Send, NoOrders
<1>3. a \in Action /\ 1 \in DOMAIN todo[t] /\ a = todo[t][1]
  BY <1>2, <1>a, ListTyped
<1> HIDE DEF a
<1>4. /\ Asked(a) \in Nat
      /\ a.kind = "pool" => Asked(a) = Units(a.symbol)
      /\ a.kind \in {"open"} => Asked(a) = a.units
      /\ a.kind = "close" /\ a.symbol \notin Shorts => Asked(a) = a.units
      /\ a.kind \in {"close", "whole", "stop"} =>
           \E b \in Birth :
             /\ GetLot(a.symbol, a.lot) = {b} /\ Open(b) /\ lots[b].units > 0
             /\ a.kind = "close" /\ a.symbol \in Shorts =>
                  Asked(a) <= lots[b].units /\ (a.units > 0 => Asked(a) > 0)
             /\ a.kind \in {"whole", "stop"} => Asked(a) = lots[b].units
  BY <1>2, <1>3, <1>a, AskedIs
<1>5. a.kind \in {"open", "close"} => a.units > 0 /\ a.units \in Nat
  BY <1>3, <1>a DEF ThreadInv, ListInv, ListsAreReal, Action
<1>6. a.kind \in {"open", "close", "whole", "pool", "stop"} /\ o.symbol = a.symbol /\ o.lot = a.lot
  BY <1>1, <1>2, <1>3 DEF Action, OrderIsOf
<1>7. Target(o)' = Target(o)
  BY <1>b DEF Target
<1>8. order'[t] = o /\ \A v \in Threads \ {t} : order'[v] = order[v]
  BY <1>1, <1>a DEF TypeOK
<1>9. CASE u # t
  <2>1. ~Idle(t)
    BY DEF Send
  <2>2. order[u] = NoOrder
    BY <1>9, <1>a, <2>1, Alone
  <2> QED BY <1>8, <1>9, <2>2, NothingSent DEF OrderFits, Exiting
<1>10. CASE u = t
  <2>1. CASE a.kind = "open"
    BY <1>1, <1>4, <1>5, <1>8, <1>10, <2>1 DEF OrderFits, Exiting
  <2>2. CASE a.kind = "pool"
    <3>1. LotsOf(a.symbol) # {}
      BY <1>2, <2>2 DEF Gone
    <3>2. Target(o) = LotsOf(a.symbol) /\ o.kind = "pool"
      BY <1>1, <1>6, <2>2 DEF Target
    <3> QED BY <1>1, <1>4, <1>6, <1>7, <1>8, <1>10, <1>a, <1>b, <2>2, <3>1, <3>2
            DEF OrderFits, Exiting, Birth
  <2>3. CASE a.kind \in {"close", "whole", "stop"}
    <3>1. PICK b \in Birth :
            /\ GetLot(a.symbol, a.lot) = {b} /\ Open(b) /\ lots[b].units > 0
            /\ a.kind = "close" /\ a.symbol \in Shorts =>
                 Asked(a) <= lots[b].units /\ (a.units > 0 => Asked(a) > 0)
            /\ a.kind \in {"whole", "stop"} => Asked(a) = lots[b].units
      BY <1>4, <2>3
    <3>2. lots[b].units \in Nat
      BY <1>a, LotsTyped DEF Lot
    <3>3. o.kind \in {"close", "whole", "stop"} /\ Target(o) = {b}
      BY <1>1, <1>6, <2>3, <3>1 DEF Target
    <3>4. a.kind = "close" => Asked(a) > 0 /\ Asked(a) <= lots[b].units
      <4>1. CASE a.kind = "close" /\ a.symbol \notin Shorts
        <5>1. Touches(todo[t][1], b)
          BY <1>3, <3>1, <4>1 DEF Touches, Exiting, GetLot, LotsOf
        <5>2. a.units <= lots[b].units
          BY <1>3, <1>a, <3>1, <4>1, <5>1 DEF BookInv, ExitsFit
        <5> QED BY <1>4, <1>5, <4>1, <5>2
      <4> QED BY <1>5, <3>1, <4>1
    <3>5. Asked(a) > 0 /\ Asked(a) <= lots[b].units
      BY <2>3, <3>1, <3>2, <3>4, <1>4
    <3>6. o.kind = "whole" => Asked(a) = lots[b].units
      BY <1>1, <2>3, <3>1
    <3>7. Target(order[t])' = {b} /\ order'[t] = o /\ lots' = lots
      BY <1>7, <1>8, <1>a, <3>3
    <3>8. o.ask > 0 /\ o.ask <= lots[b].units /\ (o.kind = "whole" => o.ask = lots[b].units)
      BY <1>1, <3>5, <3>6
    <3> QED BY <1>10, <3>3, <3>7, <3>8 DEF OrderFits
  <2> QED BY <1>6, <2>1, <2>2, <2>3
<1> QED BY <1>9, <1>10

\* What an order exits is what its action names.
LEMMA TargetIsTouched ==
  ASSUME ThreadInv, NEW t \in Threads, order[t].kind \notin {"none", "open"}
  PROVE  /\ todo[t] # <<>> /\ 1 \in DOMAIN todo[t] /\ Head(todo[t]) = todo[t][1]
         /\ OrderIsOf(order[t], todo[t][1])
         /\ order[t].kind \in Exiting
         /\ \A b \in Target(order[t]) : Open(b) /\ Touches(todo[t][1], b)
         /\ \A b \in Birth : Open(b) /\ Touches(todo[t][1], b) => b \in Target(order[t])
<1>1. order[t] # NoOrder
  BY NothingSent
<1>2. /\ order[t].kind \in {"open", "close", "whole", "pool", "stop"}
      /\ todo[t] # <<>> /\ OrderIsOf(order[t], Head(todo[t]))
  BY <1>1, OrderKinds
<1>3. 1 \in DOMAIN todo[t] /\ Head(todo[t]) = todo[t][1]
  BY <1>2, ListTyped DEF ThreadInv
<1> DEFINE o == order[t]
           a == todo[t][1]
<1>4. o.symbol = a.symbol /\ o.lot = a.lot /\ (o.kind = a.kind \/ (a.kind = "close" /\ o.kind = "whole"))
  BY <1>2, <1>3 DEF OrderIsOf
<1>5. o.kind \in Exiting /\ a.kind \in Exiting /\ (a.kind = "pool" <=> o.kind = "pool")
  BY <1>2, <1>4 DEF Exiting
<1> HIDE DEF o, a
<1>6. \A b \in Target(o) : Open(b) /\ Touches(a, b)
  BY <1>4, <1>5 DEF Target, GetLot, LotsOf, Touches
<1>7. \A b \in Birth : Open(b) /\ Touches(a, b) => b \in Target(o)
  BY <1>4, <1>5 DEF Target, GetLot, LotsOf, Touches
<1> QED BY <1>2, <1>3, <1>5, <1>6, <1>7 DEF o, a

LEMMA ThreadFits ==
  ASSUME BookInv, LotInv', NEW t \in Threads, ThreadStep(t)
  PROVE  BookInv'
<1>a. /\ ThreadInv /\ TypeOK /\ ListMoves(t) /\ disturbed \subseteq disturbed' /\ ~Idle(t)
      /\ (Quiet' => Quiet)
  BY ThreadStepIs, AtWork, QuietBefore DEF BookInv, LotInv, ThreadInv
<1>b. Quiet => \A u \in Threads \ {t} : todo[u] = <<>> /\ order[u] = NoOrder
  BY <1>a, Alone
<1>c. \A u \in Threads \ {t} : todo'[u] = todo[u] /\ order'[u] = order[u]
  BY <1>a DEF ListMoves
<1>d. order'[t] = NoOrder => OrdersFit'
  BY <1>a, <1>b, <1>c, NoOrdersFit
<1>e. ASSUME BookShrinks
      PROVE  \A j \in DOMAIN todo'[t] : \A b \in Birth' : Open(b)' =>
               /\ b \in Birth /\ Open(b) /\ lots'[b].units <= lots[b].units
               /\ lots'[b].id = lots[b].id /\ lots'[b].symbol = lots[b].symbol
  <2>1. \A b \in Birth : lots[b].units \in Nat
    BY <1>a, LotsTyped DEF Lot
  <2>2. \A b \in Birth' : lots'[b].units \in Nat
    <3>1. lots' \in Seq(Lot)
      BY DEF LotInv, ThreadInv, TypeOK
    <3>2. DOMAIN lots' = 1..Len(lots') /\ \A b \in 1..Len(lots') : lots'[b] \in Lot
      BY <3>1, LenProperties
    <3> QED BY <3>2 DEF Lot, Birth
  <2> QED BY <1>e, <2>1, <2>2 DEF BookShrinks, Open
<1>f. ASSUME \A b \in Birth : lots'[b].units = lots[b].units, BookShrinks
      PROVE  ExitsFit'
  BY <1>a, <1>e, <1>f, ExitsMove DEF BookShrinks
<1>g. ASSUME SameBook, BookShrinks
      PROVE  ExitsFit'
  BY <1>f, <1>g DEF SameBook
<1>h. ASSUME UNCHANGED <<lots, nextId>>
      PROVE  ExitsFit'
  <2>1. BookShrinks
    BY <1>a, <1>h, SameShrinks
  <2> QED BY <1>f, <1>h, <2>1
<1>1. CASE Attach(t) \/ Skip(t)
  <2>1. UNCHANGED <<lots, nextId>> /\ order'[t] = NoOrder
    BY <1>1 DEF Attach, Skip, portfolio, NoOrders
  <2> QED BY <1>d, <1>h, <2>1 DEF BookInv
<1>2. CASE Send(t)
  <2>1. UNCHANGED <<lots, nextId>>
    BY <1>2 DEF Send, portfolio
  <2> QED BY <1>2, <1>h, <2>1, SentFits DEF BookInv
<1>3. ASSUME NEW left \in Nat, NEW filled \in Nat, UNCHANGED <<lots, nextId>>,
             order' = [order EXCEPT ![t] = Progress(order[t], left, filled)]
      PROVE  BookInv'
  <2> DEFINE o == order[t]
             p == Progress(o, left, filled)
  <2>1. o \in Order /\ order'[t] = p
    BY <1>3, <1>a DEF TypeOK
  <2> HIDE DEF o
  <2>a. p.kind = o.kind /\ p.symbol = o.symbol /\ p.lot = o.lot /\ p.ask = o.ask /\ p.parts = o.parts
    BY <2>1, <1>3, ProgressIs
  <2> HIDE DEF p
  <2>2. /\ order'[t].kind = order[t].kind /\ order'[t].symbol = order[t].symbol
        /\ order'[t].lot = order[t].lot /\ order'[t].ask = order[t].ask
        /\ order'[t].parts = order[t].parts
    BY <2>1, <2>a DEF o
  <2>3. OrdersFit'
    BY <1>3, <1>a, <1>c, <2>2, FitsAlike
  <2> QED BY <1>3, <1>h, <2>3 DEF BookInv
<1>4. CASE ChildFills(t)
  <2> DEFINE n == Child(order[t])
  <2>1. /\ order[t].left > 0 /\ UNCHANGED <<lots, nextId>>
        /\ \E q \in 1..n : order' = [order EXCEPT ![t] = Progress(order[t], order[t].left - n, order[t].filled + q)]
    BY <1>4 DEF ChildFills, portfolio
  <2>2. order[t] \in Order /\ order[t].left \in Nat /\ order[t].filled \in Nat
    BY <1>a DEF TypeOK, Order
  <2>3. n \in Nat /\ n <= order[t].left
    BY <2>1, <2>2, ChildIs
  <2> HIDE DEF n
  <2>4. PICK q \in 1..n : order' = [order EXCEPT ![t] = Progress(order[t], order[t].left - n, order[t].filled + q)]
    BY <2>1
  <2>5. order[t].left - n \in Nat /\ order[t].filled + q \in Nat
    BY <2>2, <2>3
  <2> QED BY <1>3, <2>1, <2>4, <2>5
<1>5. ASSUME NEW failedOrder, NEW also, Raise(t, failedOrder, also)
      PROVE  BookInv'
  <2>1. order'[t] = NoOrder /\ todo'[t] = <<>>
    BY <1>5, <1>a DEF Raise, EndList, TypeOK
  <2>2. ExitsFit'
    <3>1. DOMAIN todo'[t] = {}
      BY <2>1
    <3> QED BY <1>a, <3>1, ExitsMove
  <2> QED BY <1>d, <2>1, <2>2 DEF BookInv
<1>6. CASE ChildFails(t)
  <2>1. \/ \E also : Raise(t, TRUE, also)
        \/ /\ UNCHANGED <<lots, nextId>>
           /\ order' = [order EXCEPT ![t] = Progress(order[t], 0, order[t].filled)]
    BY <1>6 DEF ChildFails, portfolio
  <2>2. order[t].filled \in Nat /\ 0 \in Nat
    BY <1>a DEF TypeOK, Order
  <2> QED BY <1>3, <1>5, <2>1, <2>2
<1>7. CASE SendFails(t) \/ BookFails(t)
  <2>1. Raise(t, FALSE, {})
    BY <1>7 DEF SendFails, BookFails
  <2> QED BY <1>5, <2>1
<1>8. CASE BookEntry(t)
  <2> DEFINE n == Len(lots) + 1
  <2>1. order'[t] = NoOrder
    BY <1>8, <1>a DEF BookEntry, TypeOK
  <2>2. /\ Birth' = Birth \cup {n} /\ (\A b \in Birth : lots'[b] = lots[b]) /\ lots'[n].id = nextId
    BY <1>8, <1>a, EntryIsBooked
  <2>3. \A j \in DOMAIN todo'[t] :
          todo'[t][j].kind = "close" => todo'[t][j].lot < nextId /\ todo'[t][j].lot \in Nat
    <3>1. ListsAreGiven
      BY <1>a, MovesAreGiven
    <3>2. \A j \in DOMAIN todo'[t] : \E i \in DOMAIN todo[t] : todo'[t][j] = todo[t][i]
      BY <1>8, <1>a DEF ListMoves
    <3>3. \A i \in DOMAIN todo[t] : todo[t][i] \in Action
      BY <1>a, ListTyped
    <3> QED BY <1>a, <3>2, <3>3 DEF ThreadInv, ListInv, ListsAreReal, Action
  <2> HIDE DEF n
  <2>4. \A j \in DOMAIN todo'[t] : \A b \in Birth' :
          todo'[t][j].kind = "close" /\ Open(b)' /\ Touches(todo[t][j], b)' =>
            /\ todo'[t][j].symbol \notin Shorts => lots'[b].units = lots[b].units
            /\ b \in Birth /\ lots'[b].units <= lots[b].units /\ Open(b)
            /\ lots'[b].id = lots[b].id /\ lots'[b].symbol = lots[b].symbol
    <3>1. nextId \in Nat /\ \A b \in Birth : lots[b].units \in Nat
      BY <1>a, LotsTyped DEF TypeOK, Lot
    <3> QED BY <2>2, <2>3, <3>1 DEF Touches, Open
  <2>5. ExitsFit'
    BY <1>a, <2>4, ExitsMove
  <2> QED BY <1>d, <2>1, <2>5 DEF BookInv
<1>9. CASE BookExit(t)
  <2> DEFINE o == order[t]
  <2>1. order'[t] = NoOrder /\ o \in Order /\ o.kind \notin {"none", "open"} /\ ~Attach(t) /\ NextAction(t)
    BY <1>9, <1>a, NothingSent DEF BookExit, TypeOK, Done, Attach, NoOrders
  <2>2. BookShrinks
    <3>1. ~BookEntry(t)
      BY <1>9 DEF BookExit, BookEntry
    <3> QED BY <1>a, <3>1, ThreadStepIs
  <2>3. \A b \in Birth : lots'[b].units = lots[b].units - Removed(o, b)
    BY <1>9, <1>a, ExitIsBooked
  <2>4. ASSUME Quiet, NEW j \in DOMAIN todo'[t], NEW b \in Birth',
               todo'[t][j].kind = "close", todo'[t][j].symbol \notin Shorts,
               Open(b)', Touches(todo[t][j], b)'
        PROVE  lots'[b].units = lots[b].units
    <3>1. /\ b \in Birth /\ Open(b) /\ lots'[b].id = lots[b].id /\ lots'[b].symbol = lots[b].symbol
      BY <1>e, <2>2, <2>4
    <3>2. j + 1 \in DOMAIN todo[t] /\ todo'[t][j] = todo[t][j + 1] /\ 1 \in 1..((j + 1) - 1)
      <4>1. /\ todo[t] # <<>> /\ Tail(todo[t]) = todo'[t]
        BY <1>a, <2>1, TargetIsTouched DEF NextAction, TypeOK
      <4>2. /\ DOMAIN Tail(todo[t]) = 1..(Len(todo[t]) - 1) /\ Len(todo[t]) \in Nat
            /\ \A i \in DOMAIN Tail(todo[t]) :
                 i + 1 \in DOMAIN todo[t] /\ Tail(todo[t])[i] = todo[t][i + 1]
        BY <4>1, <1>a, ListTyped
      <4>3. j \in 1..(Len(todo[t]) - 1) /\ j \in Nat /\ j >= 1
        <5>1. DOMAIN todo'[t] = 1..(Len(todo[t]) - 1) /\ Len(todo[t]) \in Nat
          BY <4>1, <4>2
        <5>2. j \in 1..(Len(todo[t]) - 1)
          BY <5>1
        <5> QED BY <5>1, <5>2
      <4>4. 1 \in 1..((j + 1) - 1)
        BY <4>3
      <4> QED BY <4>1, <4>2, <4>3, <4>4
    <3>3. Touches(todo[t][j + 1], b)
      BY <2>4, <3>1, <3>2 DEF Touches
    <3>4. ~Touches(todo[t][1], b)
      BY <2>4, <3>1, <3>2, <3>3 DEF BookInv, ExitsFit
    <3>5. b \notin Target(o)
      BY <1>a, <2>1, <3>4, TargetIsTouched
    <3>6. Removed(o, b) = 0 /\ lots[b].units \in Nat
      BY <1>a, <2>1, <3>1, <3>5, TakenIs, LotsTyped DEF Lot
    <3> QED BY <2>3, <3>1, <3>6
  <2>5. ExitsFit'
    BY <1>a, <1>e, <2>2, <2>4, ExitsMove
  <2> QED BY <1>d, <2>1, <2>5 DEF BookInv
<1> QED BY <1>1, <1>2, <1>4, <1>6, <1>7, <1>8, <1>9 DEF ThreadStep

\* Where a list begins, the other thread is at rest.
LEMMA BegunAlone ==
  ASSUME ThreadInv, NEW t \in Threads, NEW list, Begins(t, list), Idle(t) \/ ListDone(t),
         disturbed \subseteq disturbed', Quiet'
  PROVE  /\ todo'[t] = list /\ order'[t] = NoOrder
         /\ \A u \in Threads \ {t} :
              todo'[u] = <<>> /\ order'[u] = NoOrder /\ Idle(u) /\ Idle(u)' /\ ~Unwritten(u)
<1>a. todo \in [Threads -> Seq(Action)] /\ stage \in [Threads -> {"idle", "stops", "actions"}]
  BY DEF ThreadInv, TypeOK
<1>1. \A u \in Threads \ {t} : Idle(u)
  <2>1. CASE Idle(t)
    BY <2>1 DEF Begins, Alongside, Quiet, Without
  <2>2. CASE ~Idle(t)
    BY <2>2, QuietBefore, Alone
  <2> QED BY <2>1, <2>2
<1>2. \A u \in Threads \ {t} : stage'[u] = stage[u] /\ todo'[u] = todo[u]
  BY <1>a DEF Begins
<1>3. \A u \in Threads \ {t} : todo[u] = <<>> /\ order[u] = NoOrder /\ ~Unwritten(u)
  BY <1>1 DEF ThreadInv, ListInv, AtRest
<1>4. todo'[t] = list /\ order' = order /\ order[t] = NoOrder
  BY <1>a DEF Begins, ThreadInv, ListInv, AtRest, ListDone
<1> QED BY <1>1, <1>2, <1>3, <1>4 DEF Idle

LEMMA BegunFits ==
  ASSUME ThreadInv, NEW t \in Threads, NEW x, NEW list \in Lists(x), Begins(t, list),
         Idle(t) \/ ListDone(t), disturbed \subseteq disturbed',
         \/ /\ UNCHANGED lots /\ Disjoint(x) /\ \A i \in DOMAIN list : Sound(list[i])
         \/ \A i \in DOMAIN list : list[i].kind = "stop"
  PROVE  ExitsFit' /\ OrdersFit'
<1>1. OrdersFit'
  BY BegunAlone, NoOrdersFit
<1>2. ExitsFit'
  <2> SUFFICES ASSUME Quiet', NEW u \in Threads, NEW j \in DOMAIN todo'[u],
                      todo'[u][j].kind = "close", NEW b \in Birth', Open(b)', Touches(todo[u][j], b)'
               PROVE  /\ todo'[u][j].units <= lots'[b].units
                      /\ \A i \in 1..(j - 1) : ~Touches(todo[u][i], b)'
    BY DEF ExitsFit
  <2>1. u = t /\ todo'[t] = list
    BY BegunAlone
  <2>2. /\ UNCHANGED lots /\ Disjoint(x) /\ \A i \in DOMAIN list : Sound(list[i])
    BY <2>1
  <2>3. b \in Birth /\ Open(b) /\ \A i : Touches(todo[t][i], b)' = Touches(list[i], b)
    BY <2>1, <2>2 DEF Birth, Open, Touches
  <2>4. /\ DOMAIN list = 1..Len(list) /\ Len(list) \in Nat /\ \A i \in DOMAIN list : list[i] \in x
        /\ \A i, k \in DOMAIN list : i < k => list[i] # list[k]
    BY ListIs
  <2>5. list[j].units <= lots[b].units
    <3>1. PICK c \in Birth : Open(c) /\ list[j].lot = lots[c].id /\ list[j].units <= lots[c].units
      BY <2>1, <2>2 DEF Sound
    <3>2. lots[b].id = list[j].lot
      BY <2>1, <2>3 DEF Touches
    <3> QED BY <2>3, <3>1, <3>2 DEF ThreadInv, IdsAreUnique
  <2>6. ASSUME NEW i \in 1..(j - 1) PROVE ~Touches(list[i], b)
    <3>1. j \in DOMAIN list /\ i \in DOMAIN list /\ i < j
      BY <2>1, <2>4
    <3>2. list[i] # list[j] /\ list[i] \in x /\ list[j] \in x
      BY <2>4, <3>1
    <3> QED BY <2>1, <2>2, <2>3, <3>2 DEF Disjoint
  <2> QED BY <2>1, <2>2, <2>3, <2>5, <2>6
<1> QED BY <1>1, <1>2

LEMMA ListsEmptyFit ==
  ASSUME Quiet' => \A t \in Threads : todo'[t] = <<>> /\ order'[t] = NoOrder
  PROVE  ExitsFit' /\ OrdersFit'
<1>1. Quiet' => \A t \in Threads : DOMAIN todo'[t] = {}
  OBVIOUS
<1> QED BY <1>1, NoOrdersFit DEF ExitsFit

LEMMA SessionFits ==
  ASSUME BookInv, LotInv',
         \/ Decide \/ EndSlice \/ EndJob \/ StartSlice
         \/ Flatten \/ ManualOrder \/ AdoptBrokerClose \/ Restart
         \/ ResumeStrategy \/ Acknowledge \/ UNCHANGED vars
         \/ \E s \in Symbols : SquareOff(s) \/ Expire(s)
  PROVE  BookInv'
<1>a. ThreadInv /\ TypeOK /\ "tick" \in Threads /\ "hand" \in Threads
  BY DEF BookInv, LotInv, ThreadInv, Threads
<1>b. ~Restart => disturbed \subseteq disturbed'
  BY <1>a, SessionStepIs
<1>1. CASE Decide
  <2>1. PICK x \in Decisions : \E list \in Lists(x) :
          Begins("tick", list) /\ \A i \in DOMAIN list : Sound(list[i])
    BY <1>1, <1>a, DecideKeeps
  <2>2. PICK list \in Lists(x) : Begins("tick", list) /\ \A i \in DOMAIN list : Sound(list[i])
    BY <2>1
  <2>3. Disjoint(x) /\ UNCHANGED <<lots, disturbed>> /\ ListDone("tick")
    BY <1>1, <1>a, <2>1, DecisionsAre DEF Decide, portfolio, seen
  <2>4. ExitsFit' /\ OrdersFit'
    BY <1>a, <2>2, <2>3, BegunFits
  <2> QED BY <2>4 DEF BookInv
<1>2. ASSUME NEW t \in Threads, Ends(t), ~Idle(t), disturbed \subseteq disturbed' PROVE BookInv'
  <2>1. ListMoves(t) /\ todo'[t] = <<>> /\ order'[t] = NoOrder
    BY <1>2, <1>a, ListMovesIt DEF Ends, EndList, TypeOK
  <2>2. Quiet' => \A u \in Threads : todo'[u] = <<>> /\ order'[u] = NoOrder
    BY <1>2, <1>a, <2>1, Alone, QuietBefore DEF ListMoves
  <2> QED BY <2>2, ListsEmptyFit DEF BookInv
<1>3. CASE EndSlice \/ EndJob
  <2>1. EndSlice => ~Idle("tick")
    BY DEF EndSlice, Idle
  <2>2. EndJob => ~Idle("hand")
    BY DEF EndJob, Idle
  <2> QED BY <1>2, <1>3, <1>a, <1>b, <2>1, <2>2, EndingKeeps DEF Restart, Idle
<1>4. CASE StartSlice
  <2> DEFINE y(fired) == {[kind |-> "stop", symbol |-> st.symbol, lot |-> st.lot, units |-> 0] : st \in fired}
  <2>1. PICK fired \in SUBSET stops :
          \E list \in Lists(y(fired)) : todo' = [todo EXCEPT !["tick"] = list]
    BY <1>4 DEF StartSlice
  <2> DEFINE x == y(fired)
  <2>2. PICK list \in Lists(x) : todo' = [todo EXCEPT !["tick"] = list]
    BY <2>1
  <2>3. \A a \in x : a.kind = "stop"
    OBVIOUS
  <2> HIDE DEF y, x
  <2>4. /\ \A i \in DOMAIN list : list[i].kind = "stop"
        /\ Idle("tick") /\ Begins("tick", list)
    <3>1. \A i \in DOMAIN list : list[i] \in x
      BY ListIs
    <3>2. stage' = [stage EXCEPT !["tick"] = "stops"] /\ stage'["tick"] = "stops"
      BY <1>4, <1>a DEF StartSlice, TypeOK
    <3>3. Idle("tick") /\ Alongside("tick") \subseteq disturbed' /\ UNCHANGED <<nextId, order, outside>>
      BY <1>4 DEF StartSlice, broker
    <3> QED BY <2>2, <2>3, <3>1, <3>2, <3>3 DEF Begins, Idle
  <2>5. disturbed \subseteq disturbed'
    BY <1>4 DEF StartSlice
  <2> QED BY <1>a, <2>4, <2>5, BegunFits DEF BookInv
<1>5. CASE Flatten \/ ManualOrder \/ AdoptBrokerClose
  <2>1. PICK kind, x, without : HandAsks(kind, x, without) /\
          \E list \in Lists(x) : Begins("hand", list) /\ \A i \in DOMAIN list : Sound(list[i])
    BY <1>5, <1>a, HandKeeps
  <2>2. PICK list \in Lists(x) : Begins("hand", list) /\ \A i \in DOMAIN list : Sound(list[i])
    BY <2>1
  <2>3. Disjoint(x) /\ UNCHANGED lots /\ Idle("hand") /\ disturbed \subseteq disturbed'
    BY <2>1 DEF HandAsks, Intervene, portfolio
  <2> QED BY <1>a, <2>2, <2>3, BegunFits DEF BookInv
<1>6. CASE Restart
  <2>1. \A t \in Threads : todo'[t] = <<>> /\ order'[t] = NoOrder
    BY <1>6, <1>a DEF Restart, threads, ThreadInv, ListInv, AtRest
  <2> QED BY <2>1, ListsEmptyFit DEF BookInv
<1>7. CASE \/ ResumeStrategy \/ Acknowledge \/ UNCHANGED vars
           \/ \E s \in Symbols : SquareOff(s) \/ Expire(s)
  <2>1. UNCHANGED <<lots, todo, order, disturbed>>
    BY <1>7, <1>a, AroundKeeps DEF Rests, threads
  <2>2. Quiet' = Quiet
    BY <2>1 DEF Quiet, Without
  <2>3. ExitsFit'
    BY <2>1, <2>2 DEF BookInv, ExitsFit, Touches, Open, Birth
  <2>4. \A s, id : (LotsOf(s))' = LotsOf(s) /\ (GetLot(s, id))' = GetLot(s, id) /\ (Units(s))' = Units(s)
    BY <2>1 DEF LotsOf, GetLot, Units, UnitsIn, Birth, Open
  <2>5. \A t : Target(order[t])' = Target(order[t])
    BY <2>1, <2>4 DEF Target
  <2>6. \A t : OrderFits(order[t])' = OrderFits(order[t])
    BY <2>1, <2>4, <2>5 DEF OrderFits, Birth
  <2> QED BY <2>2, <2>3, <2>6 DEF BookInv, OrdersFit
<1> QED BY <1>1, <1>3, <1>4, <1>5, <1>6, <1>7

LEMMA BookKeeps == BookInv /\ [Next]_vars => BookInv'
<1> SUFFICES ASSUME BookInv, [Next]_vars PROVE BookInv'
  OBVIOUS
<1>1. LotInv'
  BY NamesKeep DEF BookInv
<1> QED BY <1>1, Steps, ThreadFits, SessionFits

LEMMA InitialBook == Init => BookInv
<1> SUFFICES ASSUME Init PROVE BookInv
  OBVIOUS
<1>1. \A t \in Threads : order[t] = NoOrder /\ todo[t] = <<>>
  BY DEF Init
<1>2. \A t \in Threads : DOMAIN todo[t] = {}
  BY <1>1
<1> QED BY <1>1, <1>2, InitialNames, NothingSent DEF BookInv, ExitsFit, OrdersFit, OrderFits, Exiting

-----------------------------------------------------------------------------
(* The logs.                                                               *)

\* Of each lot an exit takes from the book what its event says.
LEMMA EventIsExit ==
  ASSUME BookInv, Quiet, NEW t \in Threads, order[t].kind \notin {"none", "open"}, NEW b \in Birth
  PROVE  InEvent(order[t], b) = Removed(order[t], b)
<1> DEFINE o == order[t]
<1>1. TypeOK /\ o \in Order /\ OrderFits(o) /\ o.kind \in Exiting
  BY TargetIsTouched DEF BookInv, LotInv, ThreadInv, OrdersFit, TypeOK
<1>2. Target(o) \subseteq Birth
  BY DEF Target, GetLot, LotsOf
<1> HIDE DEF o
<1>3. /\ b \notin Target(o) => Removed(o, b) = 0
      /\ b \in Target(o) /\ o.kind \in {"whole", "pool"} => Removed(o, b) = lots[b].units
      /\ b \in Target(o) /\ o.kind \notin {"whole", "pool"} /\ o.ask <= lots[b].units =>
           Removed(o, b) = o.ask
      /\ b \notin Target(o) /\ o.kind # "pool" => InEvent(o, b) = 0
      /\ b \in Target(o) /\ o.kind = "whole" => InEvent(o, b) = lots[b].units
      /\ b \in Target(o) /\ o.kind \notin {"whole", "pool"} => InEvent(o, b) = o.ask
  BY <1>1, TakenIs
<1>4. CASE o.kind = "pool"
  <2>1. o.parts = [c \in Birth |-> IF c \in LotsOf(o.symbol) THEN lots[c].units ELSE 0]
    BY <1>1, <1>4 DEF OrderFits
  <2>2. Target(o) = LotsOf(o.symbol)
    BY <1>4 DEF Target
  <2>3. InEvent(o, b) = IF b \in LotsOf(o.symbol) THEN lots[b].units ELSE 0
    BY <1>4, <2>1 DEF InEvent
  <2> QED BY <1>3, <1>4, <2>2, <2>3 DEF o
<1>5. CASE o.kind # "pool"
  BY <1>1, <1>3, <1>5 DEF OrderFits, Exiting, o
<1> QED BY <1>4, <1>5

\* Lots of which neither units nor logs change stay accounted for.
LEMMA LotsAccounted ==
  ASSUME LogInv, UNCHANGED lots, disturbed \subseteq disturbed'
  PROVE  LogsMatchBook'
<1>1. \A w : Without(w)' => Without(w)
  BY DEF Without
<1> QED BY <1>1 DEF LogInv, LogsMatchBook, Accounted, Birth

\* What is written is accounted for; so is a list with nothing to write.
LEMMA WrittenAccounted ==
  ASSUME LogInv, NEW t \in Threads, NEW inLog \in BOOLEAN, NEW inTrail \in BOOLEAN,
         lots' = Written(t, inLog, inTrail), disturbed \subseteq disturbed',
         Without({"overlap", "stop"})' /\ Unwritten(t) =>
           inTrail /\ (Without({"hand"})' => inLog)
  PROVE  LogsMatchBook'
<1> SUFFICES ASSUME Without({"overlap", "stop"})', NEW b \in Birth'
             PROVE  /\ Accounted(b, lots[b].trail)'
                    /\ Without({"hand"})' => Accounted(b, lots[b].log)'
  BY DEF LogsMatchBook
<1>a. TypeOK /\ \A w : Without(w)' => Without(w)
  BY DEF LogInv, BookInv, LotInv, ThreadInv, Without
<1>1. /\ Birth' = Birth
      /\ \A c \in Birth :
           /\ lots'[c].units = lots[c].units
           /\ lots'[c].due = [lots[c].due EXCEPT ![t] = 0]
           /\ lots'[c].log = IF inLog THEN lots[c].log + lots[c].due[t] ELSE lots[c].log
           /\ lots'[c].trail = IF inTrail THEN lots[c].trail + lots[c].due[t] ELSE lots[c].trail
  BY <1>a, WrittenIs DEF SameBook
<1>2. b \in Birth /\ lots[b] \in Lot
  BY <1>1, <1>a, LotsTyped
<1>3. /\ lots[b].units \in Nat /\ lots[b].log \in Int /\ lots[b].trail \in Int
      /\ lots[b].due \in [Threads -> Int]
  BY <1>2 DEF Lot
<1>4. Accounted(b, lots[b].trail) /\ (Without({"hand"}) => Accounted(b, lots[b].log))
  BY <1>2, <1>a DEF LogInv, LogsMatchBook
<1>5. lots[b].due[t] # 0 => inTrail /\ (Without({"hand"})' => inLog)
  BY <1>2 DEF Unwritten
<1>6. /\ lots'[b].trail = lots[b].trail + lots[b].due[t]
      /\ Without({"hand"})' => lots'[b].log = lots[b].log + lots[b].due[t]
  <2>1. /\ lots'[b].log = (IF inLog THEN lots[b].log + lots[b].due[t] ELSE lots[b].log)
        /\ lots'[b].trail = (IF inTrail THEN lots[b].trail + lots[b].due[t] ELSE lots[b].trail)
    BY <1>1, <1>2
  <2>2. lots[b].due[t] \in Int
    BY <1>3
  <2>3. CASE lots[b].due[t] = 0
    BY <1>3, <2>1, <2>3
  <2>4. CASE lots[b].due[t] # 0
    BY <1>5, <2>1, <2>4
  <2> QED BY <2>3, <2>4
<1>7. lots'[b].units = lots[b].units /\ lots'[b].due[t] = 0
      /\ \A u \in Threads \ {t} : lots'[b].due[u] = lots[b].due[u]
  BY <1>1, <1>2, <1>3
<1>8. /\ lots[b].due["tick"] \in Int /\ lots[b].due["hand"] \in Int
  BY <1>3 DEF Threads
<1>9. CASE t = "tick"
  <2>1. lots'[b].due["tick"] = 0 /\ lots'[b].due["hand"] = lots[b].due["hand"]
    BY <1>7, <1>9 DEF Threads
  <2> QED BY <1>3, <1>4, <1>6, <1>7, <1>8, <1>9, <1>a, <2>1 DEF Accounted
<1>10. CASE t = "hand"
  <2>1. lots'[b].due["hand"] = 0 /\ lots'[b].due["tick"] = lots[b].due["tick"]
    BY <1>7, <1>10 DEF Threads
  <2> QED BY <1>3, <1>4, <1>6, <1>7, <1>8, <1>10, <1>a, <2>1 DEF Accounted
<1> QED BY <1>9, <1>10 DEF Threads

\* What leaves a lot is in the event that says so.
LEMMA ExitsAccounted ==
  ASSUME LogInv, NEW t \in Threads, Birth' = Birth, disturbed \subseteq disturbed',
         Without({"overlap", "stop"})' => \A b \in Birth : \E gone \in Nat :
           /\ lots'[b].units = lots[b].units - gone
           /\ lots'[b].log = lots[b].log /\ lots'[b].trail = lots[b].trail
           /\ \A u \in Threads :
                lots'[b].due[u] = IF u = t THEN lots[b].due[u] - gone ELSE lots[b].due[u]
  PROVE  LogsMatchBook'
<1> SUFFICES ASSUME Without({"overlap", "stop"})', NEW b \in Birth
             PROVE  /\ Accounted(b, lots[b].trail)'
                    /\ Without({"hand"})' => Accounted(b, lots[b].log)'
  BY DEF LogsMatchBook
<1>a. TypeOK /\ \A w : Without(w)' => Without(w)
  BY DEF LogInv, BookInv, LotInv, ThreadInv, Without
<1>1. PICK gone \in Nat :
        /\ lots'[b].units = lots[b].units - gone
        /\ lots'[b].log = lots[b].log /\ lots'[b].trail = lots[b].trail
        /\ \A u \in Threads :
             lots'[b].due[u] = IF u = t THEN lots[b].due[u] - gone ELSE lots[b].due[u]
  OBVIOUS
<1>2. lots[b] \in Lot
  BY <1>a, LotsTyped
<1>3. /\ lots[b].units \in Nat /\ lots[b].log \in Int /\ lots[b].trail \in Int
      /\ lots[b].due["tick"] \in Int /\ lots[b].due["hand"] \in Int
  BY <1>2 DEF Lot, Threads
<1>4. Accounted(b, lots[b].trail) /\ (Without({"hand"}) => Accounted(b, lots[b].log))
  BY <1>a DEF LogInv, LogsMatchBook
<1>5. lots'[b].due["tick"] + lots'[b].due["hand"] = lots[b].due["tick"] + lots[b].due["hand"] - gone
  BY <1>1, <1>3 DEF Threads
<1>6. /\ lots'[b].due["tick"] \in Int /\ lots'[b].due["hand"] \in Int
  BY <1>1, <1>3 DEF Threads
<1> QED BY <1>1, <1>3, <1>4, <1>5, <1>6, <1>a DEF Accounted

\* A list that is cut short: the exceptions that would lose the owner's fills
\* from both logs cannot come while one thread is in the book.
LEMMA RaiseAccounted ==
  ASSUME LogInv, NEW t \in Threads, NEW failedOrder \in BOOLEAN, NEW also, Raise(t, failedOrder, also),
         t = "hand" /\ ~failedOrder => ~Quiet'
  PROVE  LogsMatchBook'
<1> DEFINE inStops == t = "tick" /\ stage[t] = "stops"
           inActions == t = "tick" /\ ~inStops
           inTrail == inActions \/ (t = "hand" /\ failedOrder)
<1>1. lots' = Written(t, inActions, inTrail) /\ inActions \in BOOLEAN /\ inTrail \in BOOLEAN
  BY DEF Raise
<1>2. disturbed' = disturbed \cup also \cup
        (IF Unwritten(t) /\ inStops THEN {"stop"}
         ELSE IF Unwritten(t) /\ t = "hand" THEN {"hand"} ELSE {})
  BY DEF Raise
<1>3. ASSUME Without({"overlap", "stop"})', Unwritten(t)
      PROVE  inTrail /\ (Without({"hand"})' => inActions)
  <2>1. ~inStops
    BY <1>2, <1>3 DEF Without
  <2>2. CASE t = "tick"
    BY <2>1, <2>2
  <2>3. CASE t = "hand"
    <3>1. "hand" \in disturbed' /\ Quiet'
      BY <1>2, <1>3, <2>1, <2>3 DEF Without, Quiet
    <3> QED BY <2>3, <3>1 DEF Without
  <2> QED BY <2>2, <2>3 DEF Threads
<1>4. disturbed \subseteq disturbed'
  BY <1>2
<1> HIDE DEF inStops, inActions, inTrail
<1> QED BY <1>1, <1>3, <1>4, WrittenAccounted

LEMMA RefusedAccounted ==
  ASSUME LogInv, NEW t \in Threads, SendFails(t) \/ BookFails(t)
  PROVE  LogsMatchBook'
<1>a. ThreadInv /\ BookInv /\ Raise(t, FALSE, {})
  BY DEF LogInv, BookInv, LotInv, SendFails, BookFails
<1>b. Quiet' => Quiet
  BY <1>a, QuietBefore DEF Raise
<1>1. ASSUME t = "hand", Quiet PROVE FALSE
  <2>1. CASE SendFails(t)
    <3>1. /\ todo[t] # <<>> /\ settling # {} /\ Head(todo[t]).symbol \notin settling
      BY <2>1 DEF SendFails, NoOrders
    <3>2. 1 \in DOMAIN todo[t] /\ Head(todo[t]) = todo[t][1]
      BY <3>1, <1>a, ListTyped DEF ThreadInv
    <3> QED BY <1>1, <1>a, <3>1, <3>2 DEF ThreadInv, ListInv, HandLists
  <2>2. CASE BookFails(t)
    <3>1. order[t].kind \notin {"none", "open", "pool"} /\ Target(order[t]) = {}
      BY <2>2 DEF BookFails, Done
    <3>2. order[t].kind \in Exiting
      BY <1>a, <3>1, TargetIsTouched
    <3> QED BY <1>1, <1>a, <3>1, <3>2 DEF BookInv, OrdersFit, OrderFits
  <2> QED BY <2>1, <2>2
<1> QED BY <1>a, <1>b, <1>1, RaiseAccounted

LEMMA ThreadAccounted ==
  ASSUME LogInv, NEW t \in Threads, ThreadStep(t)
  PROVE  LogsMatchBook'
<1>a. BookInv /\ ThreadInv /\ TypeOK /\ disturbed \subseteq disturbed' /\ (Quiet' => Quiet)
  BY ThreadStepIs, QuietBefore DEF LogInv, BookInv, LotInv, ThreadInv
<1>1. CASE Attach(t) \/ Skip(t) \/ Send(t) \/ ChildFills(t)
  <2>1. UNCHANGED lots
    BY <1>1 DEF Attach, Skip, Send, ChildFills, portfolio
  <2> QED BY <1>a, <2>1, LotsAccounted
<1>2. CASE ChildFails(t)
  <2>1. (\E also : Raise(t, TRUE, also)) \/ UNCHANGED lots
    BY <1>2 DEF ChildFails, portfolio
  <2> QED BY <1>a, <2>1, LotsAccounted, RaiseAccounted
<1>3. CASE SendFails(t) \/ BookFails(t)
  BY <1>3, RefusedAccounted
<1>4. CASE BookEntry(t)
  <2> DEFINE n == Len(lots) + 1
  <2>1. /\ n \notin Birth /\ Birth' = Birth \cup {n} /\ (\A b \in Birth : lots'[b] = lots[b])
        /\ lots'[n].units = order[t].ask /\ lots'[n].log = 0 /\ lots'[n].trail = 0
        /\ \A u \in Threads : lots'[n].due[u] = IF u = t THEN order[t].ask ELSE 0
    BY <1>4, <1>a, EntryIsBooked
  <2>2. order[t].ask \in Nat /\ disturbed' = disturbed
    BY <1>4, <1>a DEF BookEntry, TypeOK, Order
  <2>3. lots'[n].due["tick"] + lots'[n].due["hand"] = order[t].ask
    <3>1. lots'[n].due["tick"] = (IF "tick" = t THEN order[t].ask ELSE 0)
          /\ lots'[n].due["hand"] = (IF "hand" = t THEN order[t].ask ELSE 0)
      BY <2>1 DEF Threads
    <3>2. t = "tick" \/ t = "hand"
      BY DEF Threads
    <3> QED BY <2>2, <3>1, <3>2
  <2>4. lots'[n].due["tick"] \in Int /\ lots'[n].due["hand"] \in Int
    BY <2>1, <2>2 DEF Threads
  <2> HIDE DEF n
  <2>5. ASSUME Without({"overlap", "stop"})', NEW b \in Birth'
        PROVE  /\ Accounted(b, lots[b].trail)'
               /\ Without({"hand"})' => Accounted(b, lots[b].log)'
    <3>1. CASE b = n
      BY <2>1, <2>2, <2>3, <2>4, <3>1 DEF Accounted
    <3>2. CASE b \in Birth
      BY <2>1, <2>2, <2>5, <3>2 DEF Accounted, LogInv, LogsMatchBook, Without
    <3> QED BY <2>1, <3>1, <3>2
  <2> QED BY <2>5 DEF LogsMatchBook
<1>5. CASE BookExit(t)
  <2> DEFINE o == order[t]
  <2>1. /\ Birth' = Birth
        /\ \A b \in Birth :
             /\ lots'[b].units = lots[b].units - Removed(o, b)
             /\ lots'[b].log = lots[b].log /\ lots'[b].trail = lots[b].trail
             /\ lots'[b].due = IF Target(o) = {} THEN lots[b].due
                               ELSE [lots[b].due EXCEPT ![t] = @ - InEvent(o, b)]
    BY <1>5, <1>a, ExitIsBooked
  <2>2. o \in Order /\ o.kind \notin {"none", "open"}
    BY <1>5, <1>a DEF BookExit, Done, TypeOK
  <2>3. \A b \in Birth : /\ Removed(o, b) \in Nat /\ lots[b].due \in [Threads -> Int]
                         /\ Target(o) = {} => Removed(o, b) = 0
    BY <1>a, <2>2, TakenIs, LotsTyped DEF Lot
  <2>4. ASSUME Without({"overlap", "stop"})', NEW b \in Birth
        PROVE  \E gone \in Nat :
                 /\ lots'[b].units = lots[b].units - gone
                 /\ lots'[b].log = lots[b].log /\ lots'[b].trail = lots[b].trail
                 /\ \A u \in Threads :
                      lots'[b].due[u] = IF u = t THEN lots[b].due[u] - gone ELSE lots[b].due[u]
    <3> DEFINE gone == Removed(o, b)
    <3>1. Quiet
      BY <1>a, <2>4 DEF Quiet, Without
    <3>2. InEvent(o, b) = gone /\ gone \in Nat
      BY <1>a, <2>2, <2>3, <3>1, EventIsExit
    <3>3. \A u \in Threads :
            lots'[b].due[u] = IF u = t THEN lots[b].due[u] - gone ELSE lots[b].due[u]
      <4>1. lots[b].due \in [Threads -> Int] /\ (Target(o) = {} => gone = 0)
        BY <2>3
      <4>2. lots'[b].due = IF Target(o) = {} THEN lots[b].due
                           ELSE [lots[b].due EXCEPT ![t] = @ - gone]
        BY <2>1, <3>2
      <4> HIDE DEF gone, o
      <4> QED BY <4>1, <4>2
    <3>4. /\ lots'[b].units = lots[b].units - gone
          /\ lots'[b].log = lots[b].log /\ lots'[b].trail = lots[b].trail
      BY <2>1
    <3> HIDE DEF gone
    <3> QED BY <3>2, <3>3, <3>4
  <2> HIDE DEF o
  <2> QED BY <1>a, <2>1, <2>4, ExitsAccounted
<1> QED BY <1>1, <1>2, <1>3, <1>4, <1>5 DEF ThreadStep

LEMMA LogsKept == LogInv /\ [Next]_vars => LogInv'
<1> SUFFICES ASSUME LogInv, [Next]_vars PROVE LogInv'
  OBVIOUS
<1>a. BookInv /\ BookInv' /\ ThreadInv
  BY BookKeeps DEF LogInv, BookInv, LotInv
<1>1. ASSUME NEW t \in Threads, ThreadStep(t) PROVE LogInv'
  BY <1>1, <1>a, ThreadAccounted DEF LogInv
<1>2. CASE EndSlice \/ EndJob
  <2>1. disturbed' = disturbed /\ (lots' = Written("tick", TRUE, TRUE) \/ lots' = Written("hand", TRUE, TRUE))
    BY <1>2 DEF EndSlice, EndJob, seen
  <2>2. "tick" \in Threads /\ "hand" \in Threads /\ TRUE \in BOOLEAN /\ disturbed \subseteq disturbed'
    BY <2>1 DEF Threads
  <2> QED BY <1>a, <2>1, <2>2, WrittenAccounted DEF LogInv
<1>3. CASE StartSlice
  <2>1. PICK priced \in SUBSET {s \in Symbols : outside[s] = "expired"} :
          /\ Birth' = Birth
          /\ \A b \in Birth :
               LET gone == IF lots[b].symbol \in priced THEN lots[b].units ELSE 0
               IN  /\ lots'[b].units = lots[b].units - gone
                   /\ lots'[b].log = lots[b].log /\ lots'[b].trail = lots[b].trail
                   /\ \A u \in Threads :
                        lots'[b].due[u] = IF u = "tick" THEN lots[b].due[u] - gone ELSE lots[b].due[u]
    BY <1>3, <1>a, SettlementIs
  <2>2. ASSUME NEW b \in Birth
        PROVE  \E gone \in Nat :
                 /\ lots'[b].units = lots[b].units - gone
                 /\ lots'[b].log = lots[b].log /\ lots'[b].trail = lots[b].trail
                 /\ \A u \in Threads :
                      lots'[b].due[u] = IF u = "tick" THEN lots[b].due[u] - gone ELSE lots[b].due[u]
    <3> DEFINE gone == IF lots[b].symbol \in priced THEN lots[b].units ELSE 0
    <3>1. gone \in Nat
      BY <1>a, LotsTyped DEF ThreadInv, Lot
    <3>2. /\ lots'[b].units = lots[b].units - gone
          /\ lots'[b].log = lots[b].log /\ lots'[b].trail = lots[b].trail
          /\ \A u \in Threads :
               lots'[b].due[u] = IF u = "tick" THEN lots[b].due[u] - gone ELSE lots[b].due[u]
      BY <2>1
    <3> HIDE DEF gone
    <3> QED BY <3>1, <3>2
  <2>3. "tick" \in Threads /\ disturbed \subseteq disturbed'
    BY <1>3 DEF Threads, StartSlice
  <2> QED BY <1>a, <2>1, <2>2, <2>3, ExitsAccounted DEF LogInv
<1>4. CASE \/ Decide \/ Flatten \/ ManualOrder \/ AdoptBrokerClose \/ Restart
           \/ ResumeStrategy \/ Acknowledge \/ UNCHANGED vars
           \/ \E s \in Symbols : SquareOff(s) \/ Expire(s)
  <2>1. UNCHANGED lots /\ disturbed \subseteq disturbed'
    <3>1. CASE Decide \/ Flatten \/ ManualOrder \/ AdoptBrokerClose \/ Restart
      BY <3>1 DEF Decide, Flatten, ManualOrder, AdoptBrokerClose, Intervene, Restart, portfolio, seen
    <3>2. CASE \/ ResumeStrategy \/ Acknowledge \/ UNCHANGED vars
               \/ \E s \in Symbols : SquareOff(s) \/ Expire(s)
      BY <3>2, <1>a, AroundKeeps DEF Rests
    <3> QED BY <1>4, <3>1, <3>2
  <2> QED BY <1>a, <2>1, LotsAccounted DEF LogInv
<1> QED BY <1>1, <1>2, <1>3, <1>4, Steps

LEMMA InitialLogs == Init => LogInv
<1> SUFFICES ASSUME Init PROVE LogInv
  OBVIOUS
<1>1. BookInv /\ TypeOK
  BY InitialBook DEF BookInv, LotInv, ThreadInv
<1>2. \A b \in Birth : /\ lots[b].units = lots[b].log /\ lots[b].units = lots[b].trail
                       /\ lots[b].due["tick"] = 0 /\ lots[b].due["hand"] = 0
                       /\ lots[b].units \in Nat
  BY <1>1, InitialLots, LotsTyped DEF Threads, Lot
<1> QED BY <1>1, <1>2 DEF LogInv, LogsMatchBook, Accounted

\* THEOREM: the trade log of the session and the order table, with the events
\* under way, account for every lot through failing orders, settlements and
\* stops, but for the two ways that are named (engine/live.py, execution.py).
THEOREM LogsAccount == Spec => []LogsMatchBook
<1>1. LogInv => LogsMatchBook
  BY DEF LogInv
<1> QED BY <1>1, InitialLogs, LogsKept, PTL DEF Spec

-----------------------------------------------------------------------------
(* The flatten.                                                            *)

\* The owner's list at work on the end of lots: its next action is one of them.
LEMMA HandHead ==
  ASSUME ThreadInv, todo["hand"] # <<>>
  PROVE  LET a == Head(todo["hand"])
         IN  /\ 1 \in DOMAIN todo["hand"] /\ a = todo["hand"][1] /\ a \in Action
             /\ a.kind \in IF job = "order" THEN {"open", "close", "whole"} ELSE Closing
             /\ a.kind # "attach" /\ (settling # {} => job = "adopt" /\ a.symbol \in settling)
<1>1. "hand" \in Threads /\ TypeOK
  BY DEF Threads, ThreadInv
<1>2. /\ 1 \in DOMAIN todo["hand"] /\ Head(todo["hand"]) = todo["hand"][1]
      /\ todo["hand"][1] \in Action
  BY <1>1, ListTyped
<1> QED BY <1>2 DEF ThreadInv, ListInv, HandLists, Closing

\* What the list still has to close is untouched by a step that does not book.
LEMMA ClosingStays ==
  ASSUME FlattenInv, UNCHANGED <<lots, job, settling>>, disturbed \subseteq disturbed',
         ~Idle("hand")' => ~Idle("hand") /\ todo'["hand"] = todo["hand"]
  PROVE  ClosingOut'
<1> SUFFICES ASSUME Quiet', ~Idle("hand")', NEW b \in Birth', Open(b)',
                    job = "flatten" \/ lots[b].symbol \in settling
             PROVE  \E i \in DOMAIN todo'["hand"] : Touches(todo["hand"][i], b)'
  BY DEF ClosingOut
<1>1. Quiet /\ b \in Birth /\ Open(b)
  BY QuietBefore DEF Birth, Open
<1>2. PICK i \in DOMAIN todo["hand"] : Touches(todo["hand"][i], b)
  BY <1>1 DEF FlattenInv, ClosingOut
<1> QED BY <1>2 DEF Touches

LEMMA ClosingPops ==
  ASSUME FlattenInv, BookShrinks, UNCHANGED <<job, settling>>, disturbed \subseteq disturbed',
         lots' \in Seq(Lot), todo["hand"] # <<>>, todo' = [todo EXCEPT !["hand"] = Tail(@)],
         ~Idle("hand"),
         Quiet => \A b \in Birth :
           Open(b) /\ (job = "flatten" \/ lots[b].symbol \in settling)
             /\ Touches(Head(todo["hand"]), b) => lots'[b].units = 0
  PROVE  ClosingOut'
<1> SUFFICES ASSUME Quiet', NEW b \in Birth', Open(b)',
                    job = "flatten" \/ lots'[b].symbol \in settling
             PROVE  \E i \in DOMAIN todo'["hand"] : Touches(todo["hand"][i], b)'
  BY DEF ClosingOut
<1>a. ThreadInv /\ TypeOK /\ "hand" \in Threads /\ Quiet
  BY QuietBefore DEF FlattenInv, BookInv, LotInv, ThreadInv, Threads
<1>1. /\ b \in Birth /\ lots'[b].id = lots[b].id /\ lots'[b].symbol = lots[b].symbol
      /\ lots'[b].units <= lots[b].units
  BY DEF BookShrinks
<1>2. lots[b].units \in Nat /\ lots'[b].units \in Nat
  <2>1. DOMAIN lots' = 1..Len(lots') /\ \A c \in 1..Len(lots') : lots'[c] \in Lot
    BY LenProperties
  <2> QED BY <1>1, <1>a, <2>1, LotsTyped DEF Lot, Birth
<1>3. Open(b)
  BY <1>1, <1>2 DEF Open
<1>4. PICK i \in DOMAIN todo["hand"] : Touches(todo["hand"][i], b)
  BY <1>1, <1>3, <1>a DEF FlattenInv, ClosingOut
<1>5. /\ 1 \in DOMAIN todo["hand"] /\ Head(todo["hand"]) = todo["hand"][1]
      /\ Len(todo["hand"]) \in Nat /\ DOMAIN todo["hand"] = 1..Len(todo["hand"])
      /\ DOMAIN Tail(todo["hand"]) = 1..(Len(todo["hand"]) - 1)
      /\ \A k \in DOMAIN Tail(todo["hand"]) :
           k + 1 \in DOMAIN todo["hand"] /\ Tail(todo["hand"])[k] = todo["hand"][k + 1]
  BY <1>a, ListTyped
<1>6. i # 1
  BY <1>1, <1>3, <1>4, <1>5, <1>a DEF Open
<1>7. todo'["hand"] = Tail(todo["hand"])
  BY <1>a DEF TypeOK
<1>8. i - 1 \in DOMAIN Tail(todo["hand"]) /\ (i - 1) + 1 = i
  BY <1>4, <1>5, <1>6
<1>9. todo'["hand"][i - 1] = todo["hand"][i]
  BY <1>5, <1>7, <1>8
<1>10. Touches(todo["hand"][i - 1], b)'
  BY <1>1, <1>4, <1>9 DEF Touches
<1> QED BY <1>7, <1>8, <1>10

LEMMA HandCloses ==
  ASSUME FlattenInv, BookInv', ThreadStep("hand")
  PROVE  ClosingOut'
<1>a. /\ ThreadInv /\ TypeOK /\ "hand" \in Threads /\ disturbed \subseteq disturbed'
      /\ ~Idle("hand") /\ todo["hand"] # <<>> /\ UNCHANGED job
  BY ThreadStepIs, AtWork DEF FlattenInv, BookInv, LotInv, ThreadInv, Threads
<1>b. lots' \in Seq(Lot)
  BY DEF BookInv, LotInv, ThreadInv, TypeOK
<1> DEFINE a == Head(todo["hand"])
<1>c. /\ a \in Action /\ a.kind \in IF job = "order" THEN {"open", "close", "whole"} ELSE Closing
      /\ a.kind # "attach" /\ (settling # {} => job = "adopt")
      /\ 1 \in DOMAIN todo["hand"] /\ a = todo["hand"][1]
  BY <1>a, HandHead
<1> HIDE DEF a
<1>1. CASE Attach("hand")
  BY <1>1, <1>c DEF Attach, a
<1>2. CASE Skip("hand")
  <2>1. Gone(a) /\ UNCHANGED <<lots, nextId, job, settling>> /\ NextAction("hand")
    BY <1>2 DEF Skip, portfolio, a
  <2>2. ASSUME NEW b \in Birth, Open(b), Touches(a, b) PROVE FALSE
    <3>1. b \in LotsOf(a.symbol) /\ (a.kind # "pool" => b \in GetLot(a.symbol, a.lot))
      BY <2>2 DEF Touches, LotsOf, GetLot
    <3>2. a.kind \in {"close", "whole", "pool", "stop"}
      BY <2>2 DEF Touches, Exiting
    <3>3. CASE a.kind = "pool"
      BY <2>1, <3>1, <3>3 DEF Gone
    <3>4. CASE a.kind \in {"close", "whole", "stop"}
      BY <2>1, <3>1, <3>4 DEF Gone
    <3> QED BY <3>2, <3>3, <3>4
  <2>3. BookShrinks
    BY <1>a, <2>1, SameShrinks
  <2> QED BY <1>a, <1>b, <2>1, <2>2, <2>3, ClosingPops DEF NextAction, a
<1>3. CASE Send("hand") \/ ChildFills("hand")
  <2>1. UNCHANGED <<lots, job, settling, todo>>
    BY <1>3 DEF Send, ChildFills, portfolio, session
  <2> QED BY <1>a, <2>1, ClosingStays
<1>4. ASSUME NEW failedOrder, NEW also, Raise("hand", failedOrder, also) PROVE ClosingOut'
  <2>1. Idle("hand")'
    BY <1>4, <1>a DEF Raise, EndList, TypeOK, Idle
  <2> QED BY <2>1 DEF ClosingOut
<1>5. CASE ChildFails("hand")
  <2>1. (\E also : Raise("hand", TRUE, also)) \/ UNCHANGED <<lots, job, settling, todo>>
    BY <1>5 DEF ChildFails, portfolio, session
  <2> QED BY <1>4, <1>a, <2>1, ClosingStays
<1>6. CASE SendFails("hand") \/ BookFails("hand")
  <2>1. Raise("hand", FALSE, {})
    BY <1>6 DEF SendFails, BookFails
  <2> QED BY <1>4, <2>1
<1>7. CASE BookEntry("hand")
  <2>1. order["hand"].kind = "open" /\ UNCHANGED <<job, settling>>
    BY <1>7 DEF BookEntry, Done, session
  <2>2. OrderIsOf(order["hand"], a)
    BY <2>1, <1>a, NothingSent, OrderKinds DEF a
  <2>3. job = "order" /\ settling = {}
    BY <1>c, <2>1, <2>2 DEF OrderIsOf, Closing
  <2> QED BY <2>1, <2>3 DEF ClosingOut
<1>8. CASE BookExit("hand")
  <2> DEFINE o == order["hand"]
  <2>1. /\ NextAction("hand") /\ UNCHANGED <<job, settling>>
        /\ o.kind \notin {"none", "open"} /\ o \in Order
    BY <1>8, <1>a DEF BookExit, Done, TypeOK
  <2>2. BookShrinks
    <3>1. ~BookEntry("hand")
      BY <1>8 DEF BookExit, BookEntry
    <3> QED BY <1>a, <3>1, ThreadStepIs
  <2>3. \A b \in Birth : lots'[b].units = lots[b].units - Removed(o, b)
    BY <1>8, <1>a, ExitIsBooked
  <2>4. OrderIsOf(o, a) /\ \A b \in Birth : Open(b) /\ Touches(a, b) => b \in Target(o)
    BY <1>a, <1>c, <2>1, TargetIsTouched
  <2>5. ASSUME NEW b \in Birth, Open(b), job = "flatten" \/ lots[b].symbol \in settling, Touches(a, b)
        PROVE  lots'[b].units = 0
    <3>1. o.kind \in {"whole", "pool"}
      BY <1>c, <2>1, <2>4, <2>5 DEF OrderIsOf, Closing
    <3>2. Removed(o, b) = lots[b].units /\ lots[b].units \in Nat
      BY <1>a, <2>1, <2>4, <2>5, <3>1, TakenIs, LotsTyped DEF Lot
    <3> QED BY <2>3, <3>2
  <2> QED BY <1>a, <1>b, <2>1, <2>2, <2>5, ClosingPops DEF NextAction, a
<1> QED BY <1>1, <1>2, <1>3, <1>5, <1>6, <1>7, <1>8 DEF ThreadStep

LEMMA FlattenKept == FlattenInv /\ [Next]_vars => FlattenInv'
<1> SUFFICES ASSUME FlattenInv, [Next]_vars PROVE FlattenInv'
  OBVIOUS
<1>a. BookInv /\ BookInv' /\ ThreadInv /\ TypeOK /\ "tick" \in Threads /\ "hand" \in Threads
  BY BookKeeps DEF FlattenInv, BookInv, LotInv, ThreadInv, Threads
<1>b. ASSUME Quiet' => Idle("hand")' PROVE FlattenInv'
  BY <1>a, <1>b DEF FlattenInv, ClosingOut
<1>c. ASSUME ~Idle("tick"), disturbed \subseteq disturbed', stage'["hand"] = stage["hand"]
      PROVE  FlattenInv'
  <2>1. Quiet' => Idle("hand")
    BY <1>a, <1>c, Alone, QuietBefore DEF Threads
  <2> QED BY <1>b, <1>c, <2>1 DEF Idle
<1>1. CASE ThreadStep("hand")
  BY <1>1, <1>a, HandCloses DEF FlattenInv
<1>2. CASE ThreadStep("tick")
  <2>1. ListMoves("tick") /\ ~Idle("tick") /\ disturbed \subseteq disturbed'
    BY <1>2, <1>a, ThreadStepIs, AtWork
  <2> QED BY <1>c, <2>1 DEF ListMoves, Threads
<1>3. CASE Decide \/ EndSlice
  <2>1. ~Idle("tick") /\ disturbed \subseteq disturbed' /\ stage'["hand"] = stage["hand"]
    BY <1>3, <1>a DEF Decide, EndSlice, EndList, Idle, seen, TypeOK
  <2> QED BY <1>c, <2>1
<1>4. CASE EndJob
  <2>1. Idle("hand")'
    BY <1>4, <1>a DEF EndJob, EndList, Idle, TypeOK
  <2> QED BY <1>b, <2>1
<1>5. CASE StartSlice
  <2>1. PICK list \in Seq(Action) : Begins("tick", list)
    BY <1>5, <1>a, StartSliceKeeps
  <2>2. Idle("tick") /\ disturbed \subseteq disturbed'
    BY <1>5 DEF StartSlice
  <2> QED BY <1>a, <1>b, <2>1, <2>2, BegunAlone DEF Threads
<1>6. CASE Flatten \/ ManualOrder \/ AdoptBrokerClose
  <2>1. PICK kind, x, without : HandAsks(kind, x, without) /\
          \E list \in Lists(x) : Begins("hand", list) /\ \A i \in DOMAIN list : Sound(list[i])
    BY <1>6, <1>a, HandKeeps
  <2>2. PICK list \in Lists(x) : Begins("hand", list)
    BY <2>1
  <2>3. job' = kind /\ settling' = without /\ UNCHANGED lots /\ todo'["hand"] = list
    BY <2>1, <2>2, <1>a DEF HandAsks, Intervene, portfolio, Begins, TypeOK
  <2>4. ASSUME NEW b \in Birth', Open(b)', job' = "flatten" \/ lots'[b].symbol \in settling'
        PROVE  \E i \in DOMAIN todo'["hand"] : Touches(todo["hand"][i], b)'
    <3>1. b \in Birth /\ Open(b) /\ lots'[b] = lots[b]
      BY <2>3, <2>4 DEF Birth, Open
    <3>2. kind # "order" /\ (kind = "flatten" \/ lots[b].symbol \in without)
      BY <2>1, <2>3, <2>4, <3>1 DEF HandAsks
    <3>3. PICK a \in x : Touches(a, b)
      BY <2>1, <3>1, <3>2 DEF HandAsks
    <3>4. PICK i \in DOMAIN list : list[i] = a
      BY ListIs
    <3> QED BY <2>3, <3>1, <3>3, <3>4 DEF Touches
  <2> QED BY <1>a, <2>4 DEF FlattenInv, ClosingOut
<1>7. CASE Restart
  <2>1. Idle("hand")'
    BY <1>7, <1>a DEF Restart, threads, Idle
  <2> QED BY <1>b, <2>1
<1>8. CASE \/ ResumeStrategy \/ Acknowledge \/ UNCHANGED vars
           \/ \E s \in Symbols : SquareOff(s) \/ Expire(s)
  <2>1. UNCHANGED <<lots, job, settling, todo, stage, disturbed>>
    BY <1>8, <1>a, AroundKeeps DEF Rests, threads
  <2> QED BY <1>a, <2>1, ClosingStays DEF FlattenInv, Idle
<1> QED BY <1>1, <1>2, <1>3, <1>4, <1>5, <1>6, <1>7, <1>8, Steps DEF Threads

LEMMA InitialFlatten == Init => FlattenInv
<1> SUFFICES ASSUME Init PROVE FlattenInv
  OBVIOUS
<1>1. Idle("hand")
  BY DEF Init, Idle, Threads
<1> QED BY <1>1, InitialBook DEF FlattenInv, ClosingOut

\* THEOREM: a flatten that comes to its end beside no slice leaves no lot: none
\* of the orders before it in the list can have hidden a lot from it
\* (engine/live.py: flatten_all).
THEOREM FlattenEmpties == Spec => []FlattenLeavesNothing
<1>1. FlattenInv => FlattenLeavesNothing
  <2> SUFFICES ASSUME FlattenInv, stage["hand"] = "actions", job = "flatten", ListDone("hand"), Quiet
               PROVE  Held = {}
    BY DEF FlattenLeavesNothing, Quiet
  <2>1. ~Idle("hand") /\ DOMAIN todo["hand"] = {}
    BY DEF Idle, ListDone
  <2>2. \A b \in Birth : ~Open(b)
    BY <2>1 DEF FlattenInv, ClosingOut
  <2> QED BY <2>2 DEF Held, LotsOf
<1> QED BY <1>1, InitialFlatten, FlattenKept, PTL DEF Spec

-----------------------------------------------------------------------------
(* The handover.                                                           *)

LEMMA OpenStays ==
  ASSUME HandledIsOpen, SameBook \/ UNCHANGED lots, handled' => handled
  PROVE  HandledIsOpen'
BY DEF HandledIsOpen, SameBook, Open, Birth

LEMMA EntryIsOfUnits ==
  ASSUME ThreadInv, NEW t \in Threads, BookEntry(t)
  PROVE  order[t].ask \in Nat /\ order[t].ask > 0 /\ Head(todo[t]).kind = "open"
<1>1. order[t].kind = "open" /\ order[t] \in Order
  BY DEF BookEntry, Done, ThreadInv, TypeOK
<1>2. todo[t] # <<>> /\ OrderIsOf(order[t], Head(todo[t]))
  BY <1>1, NothingSent, OrderKinds
<1>3. Head(todo[t]).kind = "open" /\ order[t].ask = Head(todo[t]).units
  BY <1>1, <1>2 DEF OrderIsOf
<1>4. 1 \in DOMAIN todo[t] /\ Head(todo[t]) = todo[t][1]
  BY <1>2, ListTyped DEF ThreadInv
<1> QED BY <1>1, <1>3, <1>4 DEF ThreadInv, ListInv, ListsAreReal, Order

\* The owner's list moves on; its lots have no more to write than they had.
LEMMA ExitsOnlyMove ==
  ASSUME HandExitsOnly, ListMoves("hand"), disturbed \subseteq disturbed',
         Quiet => \A j \in DOMAIN todo'["hand"] : \A b \in Birth' :
           Open(b)' /\ Touches(todo["hand"][j], b)' =>
             /\ b \in Birth /\ Open(b)
             /\ lots'[b].id = lots[b].id /\ lots'[b].symbol = lots[b].symbol
             /\ lots[b].due["hand"] <= 0 => lots'[b].due["hand"] <= 0
  PROVE  HandExitsOnly'
<1> SUFFICES ASSUME Quiet', NEW j \in DOMAIN todo'["hand"], NEW b \in Birth', Open(b)',
                    Touches(todo["hand"][j], b)'
             PROVE  lots'[b].due["hand"] <= 0
  BY DEF HandExitsOnly
<1>1. /\ Quiet /\ b \in Birth /\ Open(b)
      /\ lots'[b].id = lots[b].id /\ lots'[b].symbol = lots[b].symbol
      /\ lots[b].due["hand"] <= 0 => lots'[b].due["hand"] <= 0
  BY QuietBefore
<1>2. \E i \in DOMAIN todo["hand"] : todo'["hand"][j] = todo["hand"][i]
  BY DEF ListMoves
<1>3. PICK i \in DOMAIN todo["hand"] : todo'["hand"][j] = todo["hand"][i]
  BY <1>2
<1>4. Touches(todo["hand"][i], b)
  BY <1>1, <1>3 DEF Touches
<1> QED BY <1>1, <1>4 DEF HandExitsOnly

LEMMA HandedByTick ==
  ASSUME HandedInv, disturbed \subseteq disturbed', handled' => handled, managedBy' = managedBy,
         Quiet' => Idle("hand") /\ todo'["hand"] = <<>>
  PROVE  HandExitsOnly' /\ HandedSoon'
<1>1. HandExitsOnly'
  <2>1. Quiet' => DOMAIN todo'["hand"] = {}
    OBVIOUS
  <2> QED BY <2>1 DEF HandExitsOnly
<1>2. Without({"overlap", "hand"})' => Quiet' /\ Without({"overlap", "hand"})
  BY DEF Quiet, Without
<1> QED BY <1>1, <1>2 DEF HandedInv, HandedSoon

LEMMA HandHanded ==
  ASSUME HandedInv, BookInv', ThreadStep("hand")
  PROVE  HandedInv'
<1>a. /\ BookInv /\ ThreadInv /\ TypeOK /\ "hand" \in Threads /\ disturbed \subseteq disturbed'
      /\ ~Idle("hand") /\ todo["hand"] # <<>> /\ ListMoves("hand")
      /\ HandledIsOpen /\ HandExitsOnly /\ HandedSoon
  BY ThreadStepIs, AtWork DEF HandedInv, BookInv, LotInv, ThreadInv, Threads
<1>b. \A b \in Birth : lots[b].units \in Nat /\ lots[b].due["hand"] \in Int
  BY <1>a, LotsTyped DEF Lot
<1>c. Without({"overlap", "hand"})' => Quiet /\ Quiet' /\ Without({"overlap", "hand"})
  BY <1>a DEF Quiet, Without
<1>1. ASSUME UNCHANGED <<lots, handled, managedBy, stage>> PROVE HandedInv'
  <2>1. HandledIsOpen'
    BY <1>1, <1>a, OpenStays
  <2>2. HandExitsOnly'
    BY <1>1, <1>a, ExitsOnlyMove DEF Birth, Open
  <2>3. HandedSoon'
    BY <1>1, <1>a, <1>c DEF HandedSoon, Idle, Unwritten, Birth
  <2> QED BY <2>1, <2>2, <2>3 DEF HandedInv
<1>2. CASE Attach("hand") \/ Skip("hand") \/ Send("hand") \/ ChildFills("hand")
  <2>1. UNCHANGED <<lots, handled, managedBy, stage>>
    BY <1>2 DEF Attach, Skip, Send, ChildFills, portfolio, seen, session
  <2> QED BY <1>1, <2>1
<1>3. ASSUME NEW failedOrder \in BOOLEAN, NEW also, Raise("hand", failedOrder, also) PROVE HandedInv'
  <2>1. UNCHANGED <<handled, managedBy>>
    BY <1>3 DEF Raise
  <2>2. todo'["hand"] = <<>> /\ SameBook
    <3>1. todo'["hand"] = <<>> /\ lots' = Written("hand", FALSE, failedOrder)
      BY <1>3, <1>a DEF Raise, EndList, TypeOK
    <3>2. FALSE \in BOOLEAN
      OBVIOUS
    <3> QED BY <1>a, <3>1, <3>2, WrittenIs
  <2>3. HandledIsOpen'
    BY <1>a, <2>1, <2>2, OpenStays
  <2>4. HandExitsOnly'
    <3>1. DOMAIN todo'["hand"] = {}
      BY <2>2
    <3> QED BY <3>1 DEF HandExitsOnly
  <2>5. Unwritten("hand") => "hand" \in disturbed'
    BY <1>3 DEF Raise
  <2>6. HandedSoon'
    BY <1>a, <1>c, <2>1, <2>5 DEF HandedSoon, Without
  <2> QED BY <2>3, <2>4, <2>6 DEF HandedInv
<1>4. CASE ChildFails("hand")
  <2>1. (\E also : Raise("hand", TRUE, also)) \/ UNCHANGED <<lots, handled, managedBy, stage>>
    BY <1>4 DEF ChildFails, portfolio, session
  <2>2. TRUE \in BOOLEAN
    OBVIOUS
  <2> QED BY <1>1, <1>3, <2>1, <2>2
<1>5. CASE SendFails("hand") \/ BookFails("hand")
  <2>1. Raise("hand", FALSE, {}) /\ FALSE \in BOOLEAN
    BY <1>5 DEF SendFails, BookFails
  <2> QED BY <1>3, <2>1
<1>6. CASE BookEntry("hand")
  <2> DEFINE n == Len(lots) + 1
  <2>1. /\ Birth' = Birth \cup {n} /\ (\A b \in Birth : lots'[b] = lots[b]) /\ lots'[n].id = nextId
        /\ lots'[n].units = order["hand"].ask /\ lots'[n].due["hand"] = order["hand"].ask
    BY <1>6, <1>a, EntryIsBooked
  <2>2. order["hand"].ask \in Nat /\ order["hand"].ask > 0 /\ Head(todo["hand"]).kind = "open"
    BY <1>6, <1>a, EntryIsOfUnits
  <2>3. stage' = stage /\ UNCHANGED managedBy
    BY <1>6 DEF BookEntry, session
  <2>4. job = "order"
    BY <1>a, <2>2, HandHead DEF Closing
  <2>5. \A j \in DOMAIN todo'["hand"] :
          LET a == todo'["hand"][j]
          IN  a.kind \in {"open", "close", "whole"} /\ a.lot \in Nat
                /\ (a.kind \in {"close", "whole"} => a.lot < nextId)
    <3>1. \A j \in DOMAIN todo'["hand"] : \E i \in DOMAIN todo["hand"] : todo'["hand"][j] = todo["hand"][i]
      BY <1>a DEF ListMoves
    <3>2. \A i \in DOMAIN todo["hand"] :
            LET a == todo["hand"][i]
            IN  a.kind \in {"open", "close", "whole"} /\ a.lot \in Nat
                  /\ (a.kind \in {"close", "whole"} => a.lot < nextId)
      BY <1>a, <2>4, ListTyped DEF ThreadInv, ListInv, HandLists, ListsAreReal, Action
    <3> QED BY <3>1, <3>2
  <2>6. nextId \in Nat
    BY <1>a DEF TypeOK
  <2> HIDE DEF n
  <2>7. HandledIsOpen'
    BY <2>1, <2>2 DEF HandledIsOpen, Open
  <2>8. HandExitsOnly'
    <3>1. \A j \in DOMAIN todo'["hand"] : \A b \in Birth' :
            Open(b)' /\ Touches(todo["hand"][j], b)' => b \in Birth /\ lots'[b] = lots[b]
      BY <2>1, <2>5, <2>6 DEF Touches, Exiting
    <3> QED BY <1>a, <3>1, ExitsOnlyMove DEF Open
  <2>9. HandedSoon'
    BY <1>a, <2>1, <2>2, <2>3 DEF HandedSoon, Idle, Unwritten
  <2> QED BY <2>7, <2>8, <2>9 DEF HandedInv
<1>7. CASE BookExit("hand")
  <2> DEFINE o == order["hand"]
  <2>1. /\ o.kind \notin {"none", "open"} /\ o \in Order /\ stage' = stage
        /\ handled' => \E b \in Birth : lots'[b].units > 0
    BY <1>7, <1>a DEF BookExit, Done, TypeOK
  <2>2. /\ Birth' = Birth
        /\ \A b \in Birth :
             /\ lots'[b].id = lots[b].id /\ lots'[b].symbol = lots[b].symbol
             /\ lots'[b].units = lots[b].units - Removed(o, b)
             /\ lots'[b].due = IF Target(o) = {} THEN lots[b].due
                               ELSE [lots[b].due EXCEPT !["hand"] = @ - InEvent(o, b)]
    BY <1>7, <1>a, ExitIsBooked
  <2>3. \A b \in Birth : Removed(o, b) \in Nat
    BY <1>a, <2>1, TakenIs
  <2>4. HandledIsOpen'
    BY <2>1, <2>2 DEF HandledIsOpen, Open
  <2>5. ASSUME Quiet
        PROVE  /\ Target(o) # {} /\ Target(o) \subseteq Birth
               /\ \A b \in Birth : lots'[b].due["hand"] = lots[b].due["hand"] - Removed(o, b)
               /\ \A b \in Target(o) : /\ Removed(o, b) > 0 /\ Open(b)
                                       /\ Touches(todo["hand"][1], b) /\ 1 \in DOMAIN todo["hand"]
    <3>1. OrderFits(o) /\ o.kind \in Exiting
      BY <1>a, <2>1, <2>5, TargetIsTouched DEF BookInv, OrdersFit
    <3>2. Target(o) # {} /\ Target(o) \subseteq Birth
      BY <3>1 DEF OrderFits, Target, GetLot, LotsOf
    <3>3. \A b \in Birth : InEvent(o, b) = Removed(o, b)
      BY <1>a, <2>1, <2>5, EventIsExit
    <3>4. \A b \in Birth : lots[b].due \in [Threads -> Int]
      BY <1>a, LotsTyped DEF Lot
    <3>5. \A b \in Birth : lots'[b].due["hand"] = lots[b].due["hand"] - Removed(o, b)
      <4> SUFFICES ASSUME NEW b \in Birth
                   PROVE  lots'[b].due["hand"] = lots[b].due["hand"] - Removed(o, b)
        OBVIOUS
      <4>1. lots'[b].due = [lots[b].due EXCEPT !["hand"] = @ - InEvent(o, b)]
        BY <2>2, <3>2
      <4>2. InEvent(o, b) = Removed(o, b) /\ lots[b].due \in [Threads -> Int]
        BY <3>3, <3>4
      <4> HIDE DEF o
      <4> QED BY <1>a, <4>1, <4>2
    <3>6. \A b \in Target(o) : /\ Open(b) /\ Touches(todo["hand"][1], b) /\ 1 \in DOMAIN todo["hand"]
      BY <1>a, <2>1, TargetIsTouched
    <3>7. ASSUME NEW b \in Target(o) PROVE Removed(o, b) > 0
      <4>1. lots[b].units \in Nat /\ lots[b].units > 0 /\ b \in Birth
        BY <1>b, <3>2, <3>6 DEF Open
      <4>2. CASE o.kind \in {"whole", "pool"}
        BY <1>a, <2>1, <4>1, <4>2, TakenIs
      <4>3. CASE o.kind \in {"close", "stop"}
        <5>1. o.ask > 0 /\ o.ask <= lots[b].units
          BY <3>1, <4>3 DEF OrderFits
        <5> QED BY <1>a, <2>1, <4>1, <4>3, <5>1, TakenIs
      <4> QED BY <3>1, <4>2, <4>3 DEF Exiting
    <3> QED BY <3>2, <3>5, <3>6, <3>7
  <2> HIDE DEF o
  <2>6. HandExitsOnly'
    <3>1. ASSUME Quiet, NEW b \in Birth', Open(b)'
          PROVE  /\ b \in Birth /\ Open(b)
                 /\ lots'[b].id = lots[b].id /\ lots'[b].symbol = lots[b].symbol
                 /\ lots[b].due["hand"] <= 0 => lots'[b].due["hand"] <= 0
      <4>1. /\ b \in Birth /\ Removed(o, b) \in Nat /\ lots[b].units \in Nat /\ lots[b].due["hand"] \in Int
            /\ lots'[b].units = lots[b].units - Removed(o, b)
            /\ lots'[b].due["hand"] = lots[b].due["hand"] - Removed(o, b)
        BY <1>b, <2>2, <2>3, <2>5, <3>1
      <4>2. lots[b].units > 0
        BY <3>1, <4>1 DEF Open
      <4>3. lots[b].due["hand"] <= 0 => lots'[b].due["hand"] <= 0
        BY <4>1
      <4>4. lots'[b].id = lots[b].id /\ lots'[b].symbol = lots[b].symbol
        BY <2>2, <4>1
      <4> QED BY <4>1, <4>2, <4>3, <4>4 DEF Open
    <3> QED BY <1>a, <3>1, ExitsOnlyMove
  <2>7. HandedSoon'
    <3>1. ASSUME Quiet PROVE Unwritten("hand")'
      <4>1. PICK b \in Target(o) : TRUE
        BY <2>5, <3>1
      <4>2. b \in Birth /\ lots[b].due["hand"] <= 0
        BY <1>a, <2>5, <3>1, <4>1 DEF HandExitsOnly
      <4>3. /\ lots'[b].due["hand"] = lots[b].due["hand"] - Removed(o, b)
            /\ Removed(o, b) \in Nat /\ Removed(o, b) > 0 /\ lots[b].due["hand"] \in Int
        BY <1>b, <2>3, <2>5, <3>1, <4>1, <4>2
      <4>4. lots'[b].due["hand"] # 0
        BY <4>2, <4>3
      <4> QED BY <2>2, <4>2, <4>4 DEF Unwritten
    <3> QED BY <1>a, <1>c, <2>1, <3>1 DEF HandedSoon, Idle
  <2> QED BY <2>4, <2>6, <2>7 DEF HandedInv
<1> QED BY <1>2, <1>4, <1>5, <1>6, <1>7 DEF ThreadStep

LEMMA HandedKept == HandedInv /\ [Next]_vars => HandedInv'
<1> SUFFICES ASSUME HandedInv, [Next]_vars PROVE HandedInv'
  OBVIOUS
<1>a. /\ BookInv /\ BookInv' /\ ThreadInv /\ TypeOK /\ "tick" \in Threads /\ "hand" \in Threads
      /\ HandledIsOpen
  BY BookKeeps DEF HandedInv, BookInv, LotInv, ThreadInv, Threads
<1>b. \A b \in Birth : lots[b].units \in Nat
  BY <1>a, LotsTyped DEF Lot
<1>c. ASSUME HandledIsOpen', disturbed \subseteq disturbed', handled' => handled, managedBy' = managedBy,
             ~Idle("tick"), todo'["hand"] = todo["hand"]
      PROVE  HandedInv'
  <2>1. Quiet' => Idle("hand") /\ todo'["hand"] = <<>>
    BY <1>a, <1>c, Alone, QuietBefore DEF Threads
  <2> QED BY <1>a, <1>c, <2>1, HandedByTick DEF HandedInv
<1>1. CASE ThreadStep("hand")
  BY <1>1, <1>a, HandHanded
<1>2. CASE ThreadStep("tick")
  <2>1. /\ ListMoves("tick") /\ ~Idle("tick") /\ disturbed \subseteq disturbed'
        /\ BookEntry("tick") \/ BookShrinks
    BY <1>2, <1>a, ThreadStepIs, AtWork
  <2>2. (handled' => handled) /\ managedBy' = managedBy
    <3>1. CASE Attach("tick") \/ Skip("tick") \/ Send("tick")
      BY <3>1 DEF Attach, Skip, Send, session, seen
    <3>2. CASE ChildFills("tick")
      BY <3>2 DEF ChildFills, session
    <3>3. ASSUME NEW failedOrder, NEW also, Raise("tick", failedOrder, also)
          PROVE  (handled' => handled) /\ managedBy' = managedBy
      BY <3>3 DEF Raise
    <3>4. CASE ChildFails("tick")
      <4>1. (\E also : Raise("tick", TRUE, also)) \/ (handled' = handled /\ managedBy' = managedBy)
        BY <3>4 DEF ChildFails, session
      <4>2. CASE \E also : Raise("tick", TRUE, also)
        <5>1. PICK also : Raise("tick", TRUE, also)
          BY <4>2
        <5> QED BY <3>3, <5>1
      <4>3. CASE handled' = handled /\ managedBy' = managedBy
        BY <4>3
      <4> QED BY <4>1, <4>2, <4>3
    <3>5. CASE SendFails("tick") \/ BookFails("tick")
      BY <3>3, <3>5 DEF SendFails, BookFails
    <3>6. CASE BookEntry("tick")
      BY <3>6 DEF BookEntry, session
    <3>7. CASE BookExit("tick")
      BY <3>7 DEF BookExit
    <3> QED BY <1>2, <3>1, <3>2, <3>4, <3>5, <3>6, <3>7 DEF ThreadStep
  <2>3. HandledIsOpen'
    <3>1. CASE BookEntry("tick")
      <4>1. \A b \in Birth : b \in Birth' /\ lots'[b] = lots[b]
        BY <1>a, <3>1, EntryIsBooked
      <4> QED BY <1>a, <2>2, <4>1 DEF HandledIsOpen, Open
    <3>2. CASE BookExit("tick")
      <4>1. Birth' = Birth
        BY <1>a, <3>2, ExitIsBooked
      <4> QED BY <3>2, <4>1 DEF BookExit, HandledIsOpen, Open
    <3>3. ASSUME NEW failedOrder \in BOOLEAN, NEW also, Raise("tick", failedOrder, also)
          PROVE  HandledIsOpen'
      <4>1. \E inLog, inTrail \in BOOLEAN : lots' = Written("tick", inLog, inTrail)
        BY <3>3 DEF Raise
      <4> QED BY <1>a, <2>2, <4>1, WrittenIs, OpenStays
    <3>4. CASE ~BookEntry("tick") /\ ~BookExit("tick")
      <4>1. UNCHANGED lots \/ \E failedOrder \in BOOLEAN : \E also : Raise("tick", failedOrder, also)
        BY <1>2, <3>4 DEF ThreadStep, Attach, Skip, Send, SendFails, ChildFills, ChildFails,
                          BookFails, portfolio
      <4> QED BY <1>a, <2>2, <3>3, <4>1, OpenStays
    <3> QED BY <3>1, <3>2, <3>4
  <2>4. todo'["hand"] = todo["hand"]
    BY <2>1 DEF ListMoves, Threads
  <2> QED BY <1>c, <2>1, <2>2, <2>3, <2>4
<1>3. CASE Decide
  <2>1. ~Idle("tick") /\ UNCHANGED <<lots, handled, disturbed, managedBy>> /\ todo'["hand"] = todo["hand"]
    BY <1>3, <1>a DEF Decide, Idle, portfolio, seen, session, TypeOK
  <2> QED BY <1>a, <1>c, <2>1, OpenStays
<1>4. CASE EndSlice
  <2>1. /\ ~Idle("tick") /\ UNCHANGED <<handled, disturbed, managedBy>> /\ todo'["hand"] = todo["hand"]
        /\ lots' = Written("tick", TRUE, TRUE) /\ TRUE \in BOOLEAN
    BY <1>4, <1>a DEF EndSlice, EndList, Idle, seen, TypeOK
  <2> QED BY <1>a, <1>c, <2>1, WrittenIs, OpenStays
<1>5. CASE EndJob
  <2>1. /\ UNCHANGED <<handled, disturbed>> /\ todo'["hand"] = <<>>
        /\ lots' = Written("hand", TRUE, TRUE) /\ TRUE \in BOOLEAN
        /\ managedBy' = (IF Held = {} THEN managedBy ELSE "manual")
    BY <1>5, <1>a DEF EndJob, EndList, seen, TypeOK
  <2>2. HandledIsOpen'
    BY <1>a, <2>1, WrittenIs, OpenStays
  <2>3. HandExitsOnly'
    <3>1. DOMAIN todo'["hand"] = {}
      BY <2>1
    <3> QED BY <3>1 DEF HandExitsOnly
  <2>4. HandedSoon'
    <3>1. handled => Held # {}
      BY <1>a, LotsTyped DEF HandledIsOpen, Held, LotsOf, Lot
    <3> QED BY <2>1, <3>1 DEF HandedSoon
  <2> QED BY <1>a, <2>2, <2>3, <2>4 DEF HandedInv
<1>6. CASE StartSlice
  <2>1. PICK list \in Seq(Action) : Begins("tick", list)
    BY <1>6, <1>a, StartSliceKeeps
  <2>2. /\ Idle("tick") /\ disturbed \subseteq disturbed' /\ managedBy' = managedBy
        /\ handled' = (handled /\ \E b \in Birth : lots'[b].units > 0)
    BY <1>6 DEF StartSlice, session
  <2>3. Birth' = Birth
    BY <1>6, <1>a, SettlementIs
  <2>4. HandledIsOpen'
    BY <2>2, <2>3 DEF HandledIsOpen, Open
  <2>5. Quiet' => Idle("hand") /\ todo'["hand"] = <<>>
    BY <1>a, <2>1, <2>2, BegunAlone DEF Threads
  <2> QED BY <1>a, <2>2, <2>4, <2>5, HandedByTick DEF HandedInv
<1>7. CASE Flatten \/ ManualOrder \/ AdoptBrokerClose
  <2>1. Idle("hand") /\ UNCHANGED <<lots, handled, managedBy>> /\ disturbed \subseteq disturbed'
    BY <1>7 DEF Flatten, ManualOrder, AdoptBrokerClose, Intervene, portfolio
  <2>2. \A b \in Birth : lots[b].due["hand"] = 0
    BY <1>a, <2>1 DEF ThreadInv, ListInv, AtRest, Unwritten
  <2>3. HandExitsOnly'
    BY <2>1, <2>2 DEF HandExitsOnly, Birth
  <2>4. HandedSoon'
    <3>1. Without({"overlap", "hand"})' => Without({"overlap", "hand"})
      BY <2>1 DEF Without
    <3> QED BY <2>1, <3>1 DEF HandedInv, HandedSoon
  <2> QED BY <1>a, <2>1, <2>3, <2>4, OpenStays DEF HandedInv
<1>8. CASE Restart
  <2>1. /\ Idle("hand") /\ UNCHANGED <<lots, handled, managedBy, todo>> /\ disturbed \subseteq disturbed'
        /\ todo["hand"] = <<>>
    BY <1>8, <1>a DEF Restart, threads, ThreadInv, ListInv, AtRest
  <2> QED BY <1>a, <2>1, HandedByTick, OpenStays DEF HandedInv
<1>9. CASE ResumeStrategy
  <2>1. Held = {} /\ Idle("hand") /\ UNCHANGED <<lots, handled, todo, disturbed>>
    BY <1>9, <1>a DEF ResumeStrategy, portfolio, threads, seen
  <2>2. ~handled
    BY <1>a, <2>1, LotsTyped DEF HandledIsOpen, Held, LotsOf, Lot
  <2>3. HandExitsOnly' /\ HandedSoon'
    <3>1. todo["hand"] = <<>>
      BY <1>a, <2>1 DEF ThreadInv, ListInv, AtRest
    <3>2. DOMAIN todo'["hand"] = {}
      BY <2>1, <3>1
    <3> QED BY <2>1, <2>2, <3>2 DEF HandExitsOnly, HandedSoon
  <2> QED BY <1>a, <2>1, <2>3, OpenStays DEF HandedInv
<1>10. CASE Acknowledge \/ UNCHANGED vars \/ \E s \in Symbols : SquareOff(s) \/ Expire(s)
  <2>1. UNCHANGED <<lots, todo, stage, handled, disturbed, managedBy>>
    BY <1>10 DEF Acknowledge, SquareOff, Expire, ClosedOutside, vars, portfolio, threads, seen, session
  <2>2. HandExitsOnly'
    BY <2>1 DEF HandedInv, HandExitsOnly, Quiet, Without, Open, Touches, Birth
  <2>3. HandedSoon'
    BY <2>1 DEF HandedInv, HandedSoon, Without, Idle, Unwritten, Birth
  <2> QED BY <1>a, <2>1, <2>2, <2>3, OpenStays DEF HandedInv
<1> QED BY <1>1, <1>2, <1>3, <1>4, <1>5, <1>6, <1>7, <1>8, <1>9, <1>10, Steps DEF Threads

LEMMA InitialHand == Init => HandedInv
<1> SUFFICES ASSUME Init PROVE HandedInv
  OBVIOUS
<1>1. handled = FALSE /\ todo["hand"] = <<>>
  BY DEF Init, Threads
<1>2. DOMAIN todo["hand"] = {}
  BY <1>1
<1> QED BY <1>1, <1>2, InitialBook DEF HandedInv, HandledIsOpen, HandExitsOnly, HandedSoon

\* THEOREM: once the owner's hand has been in a book that is still open, beside
\* no slice and with no fill of the owner's lost, the strategy does not decide
\* on it (engine/live.py: _after_book_change).
THEOREM HandsOver == Spec => []HandedOver
<1>1. HandedInv => HandedOver
  <2> SUFFICES ASSUME HandedInv, Idle("hand"), handled, Without({"overlap", "hand"})
               PROVE  managedBy = "manual"
    BY DEF HandedOver
  <2>1. managedBy \in {"strategy", "manual"}
    BY DEF HandedInv, BookInv, LotInv, ThreadInv, TypeOK
  <2> QED BY <2>1 DEF HandedInv, HandedSoon
<1> QED BY <1>1, InitialHand, HandedKept, PTL DEF Spec

-----------------------------------------------------------------------------
(* The account.                                                            *)

\* A symbol whose lots keep their units has as many as before.
LEMMA UnitsStay ==
  ASSUME TypeOK, NEW s, Birth' = Birth,
         \A b \in Birth : lots'[b].symbol = lots[b].symbol,
         \A b \in Birth : lots[b].symbol = s => lots'[b].units = lots[b].units
  PROVE  Units(s)' = Units(s)
<1> DEFINE f == [b \in Birth |-> lots[b].units]
           g == [b \in Birth |-> lots'[b].units]
           S == LotsOf(s)
<1>1. LotsOf(s)' = S
  BY DEF LotsOf, Open
<1>2. IsFiniteSet(S) /\ \A x \in S : f[x] = g[x]
  <2>1. S \subseteq Birth /\ \A x \in S : lots[x].symbol = s
    BY DEF LotsOf
  <2> QED BY <2>1, LotsTyped, FS_Subset
<1>3. Units(s) = SumOver(f, S) /\ Units(s)' = SumOver(g, S)
  BY <1>1 DEF Units, UnitsIn
<1> HIDE DEF f, g, S
<1> QED BY <1>2, <1>3, SumSame

\* An entry adds its units to those of its symbol.
LEMMA UnitsGrow ==
  ASSUME TypeOK, NEW n, n \notin Birth, Birth' = Birth \cup {n},
         \A b \in Birth : lots'[b] = lots[b],
         lots'[n].units \in Nat, lots'[n].units > 0, NEW s
  PROVE  Units(s)' = Units(s) + (IF lots'[n].symbol = s THEN lots'[n].units ELSE 0)
<1> DEFINE f == [b \in Birth |-> lots[b].units]
           g == [b \in Birth' |-> lots'[b].units]
           S == LotsOf(s)
<1>1. LotsOf(s)' = IF lots'[n].symbol = s THEN S \cup {n} ELSE S
  BY DEF LotsOf, Open
<1>2. /\ IsFiniteSet(S) /\ n \notin S /\ g[n] = lots'[n].units
      /\ \A x \in S : f[x] = g[x] /\ g[x] \in Int
  <2>1. S \subseteq Birth /\ \A x \in Birth : lots[x].units \in Nat
    BY LotsTyped DEF LotsOf, Lot
  <2> QED BY <2>1, LotsTyped, FS_Subset
<1>3. Units(s) = SumOver(f, S) /\ Units(s)' = SumOver(g, LotsOf(s)')
  BY DEF Units, UnitsIn
<1>4. Units(s) \in Nat
  BY UnitsTyped
<1> HIDE DEF f, g, S
<1>5. SumOver(f, S) = SumOver(g, S)
  BY <1>2, SumSame
<1>6. CASE lots'[n].symbol = s
  <2> DEFINE T == S \cup {n}
  <2>1. IsFiniteSet(T) /\ n \in T /\ T \ {n} = S /\ \A x \in T : g[x] \in Int
    BY <1>2, FS_AddElement
  <2> HIDE DEF T
  <2>2. SumOver(g, T) = g[n] + SumOver(g, S)
    BY <2>1, SumRemove
  <2>3. LotsOf(s)' = T
    BY <1>1, <1>6 DEF T
  <2> QED BY <1>2, <1>3, <1>4, <1>5, <1>6, <2>2, <2>3
<1>7. CASE lots'[n].symbol # s
  BY <1>1, <1>3, <1>4, <1>5, <1>7
<1> QED BY <1>6, <1>7

\* An exit of one lot takes its units from those of its symbol.
LEMMA UnitsFall ==
  ASSUME TypeOK, NEW s, NEW c \in LotsOf(s), Birth' = Birth,
         \A b \in Birth : lots'[b].symbol = lots[b].symbol,
         \A b \in Birth \ {c} : lots'[b].units = lots[b].units,
         NEW k \in Nat, k <= lots[c].units, lots'[c].units = lots[c].units - k
  PROVE  Units(s)' = Units(s) - k
<1> DEFINE f == [b \in Birth |-> lots[b].units]
           g == [b \in Birth |-> lots'[b].units]
           S == LotsOf(s)
<1>1. S \subseteq Birth /\ IsFiniteSet(S) /\ \A x \in Birth : lots[x].units \in Nat
  BY LotsTyped, FS_Subset DEF LotsOf, Lot
<1>2. /\ \A x \in S : f[x] \in Int /\ g[x] \in Int
      /\ \A x \in S \ {c} : g[x] = f[x]
      /\ c \in S /\ g[c] = f[c] - k /\ f[c] \in Nat /\ f[c] = lots[c].units
  BY <1>1
<1>3. LotsOf(s)' = IF g[c] = 0 THEN S \ {c} ELSE S
  BY <1>1 DEF LotsOf, Open
<1>4. Units(s) = SumOver(f, S) /\ Units(s)' = SumOver(g, LotsOf(s)')
  BY DEF Units, UnitsIn
<1>5. Units(s) \in Nat
  BY UnitsTyped
<1> HIDE DEF f, g, S
<1>6. SumOver(g, S) = SumOver(f, S) - f[c] + g[c]
  BY <1>1, <1>2, SumChange
<1>7. CASE g[c] = 0
  <2>1. SumOver(g, S) = g[c] + SumOver(g, S \ {c})
    BY <1>1, <1>2, SumRemove
  <2>2. IsFiniteSet(S \ {c}) /\ \A x \in S \ {c} : g[x] \in Int
    BY <1>1, <1>2, FS_Subset
  <2>3. SumOver(g, S \ {c}) \in Int
    BY <2>2, SumType
  <2> QED BY <1>2, <1>3, <1>4, <1>5, <1>6, <1>7, <2>1, <2>3
<1>8. CASE g[c] # 0
  BY <1>2, <1>3, <1>4, <1>5, <1>6, <1>8
<1> QED BY <1>7, <1>8

\* A symbol with no open lot has no units.
LEMMA UnitsGone ==
  ASSUME NEW s
  PROVE  /\ LotsOf(s) = {} => Units(s) = 0
         /\ LotsOf(s)' = {} => Units(s)' = 0
BY SumEmpty DEF Units, UnitsIn

\* With one thread at work, the account is ahead of the book by its order.
LEMMA FlightIs ==
  ASSUME TypeOK, TypeOK', NEW t \in Threads, NEW s,
         \A u \in Threads \ {t} : order[u] = NoOrder /\ order'[u] = NoOrder
  PROVE  /\ InFlight(s) = Flows(t, s) /\ InFlight(s)' = Flows(t, s)'
         /\ order[t] = NoOrder => InFlight(s) = 0
         /\ order'[t] = NoOrder => InFlight(s)' = 0
<1>1. ASSUME NEW u \in Threads
      PROVE  /\ order[u].filled \in Int /\ order'[u].filled \in Int
             /\ Flows(u, s) \in Int /\ Flows(u, s)' \in Int
             /\ order[u] = NoOrder => Flows(u, s) = 0
             /\ order'[u] = NoOrder => Flows(u, s)' = 0
  <2>1. order[u].filled \in Int /\ order'[u].filled \in Int
    <3>1. order[u] \in Order /\ order'[u] \in Order
      BY DEF TypeOK
    <3> QED BY <3>1 DEF Order
  <2>2. Flows(u, s) \in Int /\ (order[u] = NoOrder => Flows(u, s) = 0)
    BY <2>1, NothingSent DEF Flows, Opened
  <2>3. Flows(u, s)' \in Int /\ (order'[u] = NoOrder => Flows(u, s)' = 0)
    BY <2>1, NothingSent DEF Flows, Opened
  <2> QED BY <2>1, <2>2, <2>3
<1>2. CASE t = "tick"
  <2>1. Flows("hand", s) = 0 /\ Flows("hand", s)' = 0
    BY <1>1, <1>2 DEF Threads
  <2> QED BY <1>1, <1>2, <2>1 DEF InFlight, Threads
<1>3. CASE t = "hand"
  <2>1. Flows("tick", s) = 0 /\ Flows("tick", s)' = 0
    BY <1>1, <1>3 DEF Threads
  <2> QED BY <1>1, <1>3, <2>1 DEF InFlight, Threads
<1> QED BY <1>2, <1>3 DEF Threads

\* No order out: all of them are as they should be.
LEMMA RestFills ==
  ASSUME Whole' => \A u \in Threads : order'[u] = NoOrder
  PROVE  OrdersFillWhole'
<1>1. NoOrder.filled = 0 /\ NoOrder.left = 0 /\ NoOrder.ask = 0
  BY DEF NoOrder
<1> QED BY <1>1 DEF OrdersFillWhole, Filling

\* What the step of a thread does beside nobody, while orders fill whole.
LEMMA WholeStepIs ==
  ASSUME AccountInv, NEW t \in Threads, ThreadStep(t), Whole'
  PROVE  /\ Whole /\ Quiet /\ ~Idle(t) /\ todo[t] # <<>> /\ Filling(order[t])
         /\ \A u \in Threads \ {t} : order[u] = NoOrder /\ order'[u] = NoOrder
         /\ order'[t] = NoOrder => OrdersFillWhole'
<1>a. ThreadInv
  BY DEF AccountInv, FlattenInv, BookInv, LotInv
<1>1. ListMoves(t) /\ disturbed \subseteq disturbed' /\ ~Idle(t) /\ todo[t] # <<>>
  BY <1>a, ThreadStepIs, AtWork
<1>2. Whole /\ Quiet
  BY <1>1 DEF Whole, Quiet, Without
<1>3. \A u \in Threads \ {t} : order[u] = NoOrder /\ order'[u] = NoOrder
  BY <1>a, <1>1, <1>2, Alone DEF ListMoves
<1>4. ASSUME order'[t] = NoOrder PROVE OrdersFillWhole'
  BY <1>3, <1>4, RestFills
<1> QED BY <1>1, <1>2, <1>3, <1>4 DEF AccountInv, OrdersFillWhole

\* An order whose units are still to be sent is no adoption's.
LEMMA ThreadFills ==
  ASSUME AccountInv, NEW t \in Threads, ThreadStep(t)
  PROVE  OrdersFillWhole' /\ SettlingIsGone'
<1> SUFFICES ASSUME Whole' PROVE OrdersFillWhole' /\ \A s \in settling' : account'[s] = 0
  BY DEF OrdersFillWhole, SettlingIsGone
<1> DEFINE o == order[t]
<1>a. ThreadInv /\ TypeOK /\ o \in Order /\ order \in [Threads -> Order]
  BY DEF AccountInv, FlattenInv, BookInv, LotInv, ThreadInv, TypeOK
<1>b. /\ Whole /\ Filling(o)
      /\ \A u \in Threads \ {t} : order[u] = NoOrder /\ order'[u] = NoOrder
      /\ order'[t] = NoOrder => OrdersFillWhole'
  BY WholeStepIs
<1>c. \A s \in settling : account[s] = 0
  BY <1>b DEF AccountInv, SettlingIsGone
<1>d. Filling(NoOrder)' /\ o.left \in Nat /\ o.filled \in Nat /\ o.ask \in Nat
  BY <1>a DEF Filling, NoOrder, Order
<1>e. ASSUME Filling(order[t])' PROVE OrdersFillWhole'
  BY <1>b, <1>d, <1>e DEF OrdersFillWhole, Filling
<1>f. ASSUME NEW failed, NEW also, Raise(t, failed, also)
      PROVE  order'[t] = NoOrder /\ settling' \subseteq settling
  BY <1>a, <1>f DEF Raise, EndList
<1>1. CASE Attach(t) \/ Skip(t)
  <2>1. UNCHANGED <<order, settling, account>>
    BY <1>1 DEF Attach, Skip, broker
  <2>2. Filling(order[t])'
    BY <1>b, <2>1 DEF Filling
  <2> QED BY <1>c, <1>e, <2>1, <2>2
<1>2. CASE Send(t)
  <2>1. UNCHANGED <<settling, account>>
    BY <1>2 DEF Send, session, broker
  <2>2. /\ order'[t].filled = 0 /\ order'[t].ask = Asked(Head(todo[t]))
        /\ order'[t].left = IF settling = {} THEN Asked(Head(todo[t])) ELSE 0
    BY <1>2, <1>a, SentIs
  <2>3. Asked(Head(todo[t])) \in Nat
    <3>1. Head(todo[t]) \in Action /\ Head(todo[t]).kind # "attach" /\ ~Gone(Head(todo[t]))
      BY <1>2, <1>a DEF Send, NoOrders, TypeOK
    <3> QED BY <1>a, <3>1, AskedIs
  <2>4. Filling(order[t])'
    BY <2>1, <2>2, <2>3 DEF Filling
  <2> QED BY <1>c, <1>e, <2>1, <2>4
<1>3. CASE ChildFills(t)
  <2>1. UNCHANGED settling /\ o.left > 0
    BY <1>3 DEF ChildFills, session
  <2>2. settling = {}
    BY <1>b, <2>1 DEF Filling
  <2>3. Child(o) \in Nat /\ 0 < Child(o) /\ Child(o) <= o.left
    BY <1>a, <2>1, ChildIs
  <2> DEFINE n == Child(o)
  <2>4. PICK q \in 1..n :
          /\ disturbed' = disturbed \cup (IF q < n THEN {"partial"} ELSE {})
          /\ order' = [order EXCEPT ![t] = Progress(o, o.left - n, o.filled + q)]
    BY <1>3 DEF ChildFills
  <2>5. q = n
    BY <2>3, <2>4 DEF Whole, Without
  <2> HIDE DEF n
  <2>6. o.left - n \in Nat /\ o.filled + n \in Nat
    BY <1>d, <2>3 DEF n
  <2>7. /\ order'[t].ask = o.ask /\ order'[t].left = o.left - n /\ order'[t].filled = o.filled + n
    <3> DEFINE left == o.left - n
               filled == o.filled + n
    <3>1. order'[t] = Progress(o, left, filled)
      BY <1>a, <2>4, <2>5
    <3>2. left \in Nat /\ filled \in Nat
      BY <2>6
    <3> HIDE DEF left, filled
    <3>3. order'[t].ask = o.ask /\ order'[t].left = left /\ order'[t].filled = filled
      BY <1>a, <3>1, <3>2, ProgressIs
    <3> QED BY <3>3 DEF left, filled
  <2>8. o.filled + o.left = o.ask /\ n \in Nat
    BY <1>b, <2>2, <2>3 DEF Filling, n
  <2>9. Filling(order[t])'
    BY <1>d, <2>1, <2>2, <2>7, <2>8 DEF Filling
  <2> QED BY <1>e, <2>1, <2>2, <2>9
<1>4. CASE ChildFails(t)
  <2>1. o.left > 0
    BY <1>4 DEF ChildFails
  <2>2. settling = {}
    BY <1>b, <1>d, <2>1 DEF Filling
  <2>3. \E also : Raise(t, TRUE, also)
    BY <1>4 DEF ChildFails, Whole, Without
  <2> QED BY <1>b, <1>f, <2>2, <2>3
<1>5. CASE SendFails(t) \/ BookFails(t)
  <2>1. Raise(t, FALSE, {}) /\ UNCHANGED account
    BY <1>5 DEF SendFails, BookFails, broker
  <2> QED BY <1>b, <1>c, <1>f, <2>1
<1>6. CASE BookEntry(t) \/ BookExit(t)
  <2>1. UNCHANGED <<settling, account>> /\ order' = [order EXCEPT ![t] = NoOrder]
    BY <1>6 DEF BookEntry, BookExit, session, broker
  <2> QED BY <1>a, <1>b, <1>c, <2>1
<1> QED BY <1>1, <1>2, <1>3, <1>4, <1>5, <1>6 DEF ThreadStep

\* The account does not move, nor do the units and the order's fills.
LEMMA AccountStays ==
  ASSUME AccountInv, NEW t \in Threads,
         \A u \in Threads \ {t} : order[u] = NoOrder /\ order'[u] = NoOrder,
         disturbed \subseteq disturbed', UNCHANGED <<account, outside>>, TypeOK',
         \A s \in Symbols : outside[s] = "no" => Units(s)' = Units(s) /\ Flows(t, s)' = Flows(t, s)
  PROVE  AccountMatchesBook'
<1>1. TypeOK
  BY DEF AccountInv, FlattenInv, BookInv, LotInv, ThreadInv
<1> SUFFICES ASSUME Without({"overlap", "partial", "stray"})', NEW s \in Symbols, outside'[s] = "no"
             PROVE  account'[s] = Units(s)' + InFlight(s)'
  BY DEF AccountMatchesBook
<1>2. account[s] = Units(s) + InFlight(s)
  BY DEF AccountInv, AccountMatchesBook, Without
<1>3. InFlight(s) = Flows(t, s) /\ InFlight(s)' = Flows(t, s)'
  BY <1>1, FlightIs
<1> QED BY <1>2, <1>3

\* An exit takes from the book what its order has filled.
LEMMA ExitAccounts ==
  ASSUME AccountInv, NEW t \in Threads, BookExit(t), Whole, Quiet, ~Idle(t),
         NEW s \in Symbols, outside[s] = "no"
  PROVE  Units(s)' = Units(s) + Flows(t, s)
<1> DEFINE o == order[t]
<1>a. /\ BookInv /\ ThreadInv /\ TypeOK /\ o \in Order /\ o.kind \notin {"none", "open"}
      /\ o.left = 0 /\ o.ask \in Nat /\ o.filled \in Nat
  BY DEF AccountInv, FlattenInv, BookInv, LotInv, ThreadInv, TypeOK, BookExit, Done, Order
<1>b. /\ Birth' = Birth
      /\ \A b \in Birth : lots'[b].symbol = lots[b].symbol
      /\ \A b \in Birth : lots'[b].units = lots[b].units - Removed(o, b)
  BY <1>a, ExitIsBooked
<1>c. /\ \A b \in Birth : lots[b].units \in Nat
      /\ \A b \in Birth : b \notin Target(o) => Removed(o, b) = 0
      /\ \A b \in Target(o) : b \in LotsOf(o.symbol)
  <2>1. \A b \in Birth : b \notin Target(o) => Removed(o, b) = 0
    BY DEF Removed
  <2> QED BY <1>a, <2>1, LotsTyped DEF Lot, Target, GetLot
<1>d. Units(s) \in Nat
  BY <1>a, UnitsTyped
<1>1. CASE s # o.symbol
  <2>1. \A b \in Birth : lots[b].symbol = s => lots'[b].units = lots[b].units
    BY <1>1, <1>b, <1>c DEF LotsOf
  <2>2. Units(s)' = Units(s)
    BY <1>a, <1>b, <2>1, UnitsStay
  <2> QED BY <1>1, <1>d, <2>2 DEF Flows
<1>2. CASE s = o.symbol
  <2>1. settling = {}
    <3> SUFFICES ASSUME settling # {} PROVE FALSE
      OBVIOUS
    <3>1. ~Idle("hand") /\ t = "hand"
      BY <1>a, Alone DEF ThreadInv, ListInv, HandLists, Threads
    <3>2. o # NoOrder
      BY <1>a, NothingSent
    <3>3. todo["hand"] # <<>> /\ OrderIsOf(o, Head(todo["hand"]))
      BY <1>a, <3>1, <3>2, OrderKinds
    <3>4. Head(todo["hand"]).symbol \in settling
      BY <1>a, <3>3, HandHead
    <3> QED BY <1>a, <1>2, <3>3, <3>4 DEF OrderIsOf, ThreadInv, ListInv, HandLists
  <2>2. o.filled = o.ask
    BY <1>a, <2>1 DEF AccountInv, OrdersFillWhole, Filling
  <2>3. Flows(t, s) = -o.ask
    BY <1>2, <1>a, <2>2 DEF Flows, Opened
  <2>4. OrderFits(o) /\ o.kind \in Exiting
    <3>1. OrderFits(o)
      BY <1>a DEF BookInv, OrdersFit
    <3> QED BY <1>a, <3>1 DEF Order, Exiting
  <2>5. CASE o.kind = "pool"
    <3>1. o.ask = Units(s) /\ Target(o) = LotsOf(s)
      BY <1>2, <2>4, <2>5 DEF OrderFits, Target
    <3>2. \A b \in LotsOf(s) : lots'[b].units = 0
      <4>1. \A b \in LotsOf(s) : b \in Birth /\ Removed(o, b) = lots[b].units
        BY <2>5, <3>1 DEF Removed, LotsOf
      <4> QED BY <1>b, <1>c, <4>1
    <3>3. LotsOf(s)' = {}
      <4>1. \A b \in Birth : lots[b].symbol = s /\ ~Open(b) => lots'[b].units = 0
        BY <1>b, <1>c, <3>1 DEF Open, LotsOf
      <4> QED BY <1>b, <3>2, <4>1 DEF LotsOf, Open
    <3>4. Units(s)' = 0
      BY <3>3, UnitsGone
    <3> QED BY <1>d, <2>3, <3>1, <3>4
  <2>6. CASE o.kind # "pool"
    <3>1. Target(o) = GetLot(o.symbol, o.lot) /\ Target(o) # {}
      BY <2>4, <2>6 DEF OrderFits, Target
    <3>2. PICK c \in Birth : Target(o) = {c}
      BY <1>a, <3>1, GetLotIs
    <3>3. o.ask <= lots[c].units /\ Removed(o, c) = o.ask
      <4>1. CASE o.kind = "whole"
        BY <1>a, <1>c, <2>4, <3>2, <4>1 DEF OrderFits, Removed
      <4>2. CASE o.kind # "whole"
        <5>1. o.kind \in {"close", "stop"}
          BY <2>4, <2>6, <4>2 DEF Exiting
        <5>2. o.ask <= lots[c].units
          BY <2>4, <3>2, <5>1 DEF OrderFits
        <5> QED BY <1>a, <3>2, <4>2, <2>6, <5>2, TakenIs
      <4> QED BY <4>1, <4>2
    <3>4. /\ c \in LotsOf(s) /\ o.ask \in Nat /\ lots'[c].units = lots[c].units - o.ask
          /\ \A b \in Birth \ {c} : lots'[b].units = lots[b].units
      BY <1>2, <1>a, <1>b, <1>c, <3>2, <3>3
    <3> DEFINE k == o.ask
    <3> HIDE DEF k
    <3>5. k \in Nat /\ k <= lots[c].units /\ lots'[c].units = lots[c].units - k
      BY <3>3, <3>4 DEF k
    <3>6. Units(s)' = Units(s) - k
      BY <1>a, <1>b, <3>4, <3>5, UnitsFall
    <3> QED BY <1>d, <2>3, <3>4, <3>6 DEF k
  <2> QED BY <2>5, <2>6
<1> QED BY <1>1, <1>2

\* An entry adds to the book what its order has filled.
LEMMA EntryAccounts ==
  ASSUME AccountInv, NEW t \in Threads, BookEntry(t), Whole, Quiet, ~Idle(t), NEW s \in Symbols
  PROVE  Units(s)' = Units(s) + Flows(t, s)
<1> DEFINE o == order[t]
           n == Len(lots) + 1
<1>a. /\ ThreadInv /\ TypeOK /\ o \in Order /\ o.kind = "open"
      /\ o.left = 0 /\ o.ask \in Nat /\ o.filled \in Nat
  BY DEF AccountInv, FlattenInv, BookInv, LotInv, ThreadInv, TypeOK, BookEntry, Done, Order
<1>b. o.ask > 0 /\ Head(todo[t]).kind = "open"
  BY <1>a, EntryIsOfUnits
<1>1. settling = {}
  <2> SUFFICES ASSUME settling # {} PROVE FALSE
    OBVIOUS
  <2>1. ~Idle("hand") /\ t = "hand"
    BY <1>a, Alone DEF ThreadInv, ListInv, HandLists, Threads
  <2>2. todo["hand"] # <<>>
    BY <1>a, <2>1, OrderKinds, NothingSent
  <2>3. job = "adopt" /\ Head(todo["hand"]).kind \in Closing
    BY <1>a, <2>2, HandHead
  <2> QED BY <1>b, <2>1, <2>3 DEF Closing
<1>2. o.filled = o.ask
  BY <1>a, <1>1 DEF AccountInv, OrdersFillWhole, Filling
<1>3. /\ n \notin Birth /\ Birth' = Birth \cup {n} /\ \A b \in Birth : lots'[b] = lots[b]
      /\ lots'[n].symbol = o.symbol /\ lots'[n].units = o.ask
  BY <1>a, EntryIsBooked
<1> HIDE DEF n
<1>4. Units(s)' = Units(s) + (IF lots'[n].symbol = s THEN lots'[n].units ELSE 0)
  <2>1. lots'[n].units \in Nat /\ lots'[n].units > 0
    BY <1>a, <1>b, <1>3
  <2> QED BY <1>a, <1>3, <2>1, UnitsGrow
<1>5. Flows(t, s) = IF o.symbol = s THEN o.ask ELSE 0
  BY <1>a, <1>2 DEF Flows, Opened
<1> QED BY <1>3, <1>4, <1>5

\* An order that has filled nothing does not show in the account.
LEMMA NothingFlows ==
  ASSUME NEW t, NEW s
  PROVE  /\ order[t].filled = 0 => Flows(t, s) = 0
         /\ order'[t].filled = 0 => Flows(t, s)' = 0
<1>1. ASSUME NEW q \in Int, q = 0 PROVE -q = 0
  <2> DEFINE p == -q
  <2>1. p \in Int /\ q + p = 0
    OBVIOUS
  <2> HIDE DEF p
  <2>2. p = 0
    BY <1>1, <2>1
  <2> QED BY <2>2 DEF p
<1>2. ASSUME NEW q \in Int, q = 0, NEW o PROVE Opened(o, q) = 0
  <2>1. -q = 0
    BY <1>1, <1>2
  <2> QED BY <1>2, <2>1, Zenon DEF Opened
<1>3. ASSUME order[t].filled = 0 PROVE Flows(t, s) = 0
  <2> DEFINE q == order[t].filled
  <2>1. q \in Int /\ q = 0
    BY <1>3
  <2> HIDE DEF q
  <2>2. Opened(order[t], q) = 0
    BY <1>2, <2>1
  <2> QED BY <2>2 DEF Flows, q
<1>4. ASSUME order'[t].filled = 0 PROVE Flows(t, s)' = 0
  <2> DEFINE q == order'[t].filled
             p == order'[t]
  <2>1. q \in Int /\ q = 0
    BY <1>4
  <2> HIDE DEF q, p
  <2>2. Opened(p, q) = 0
    BY <1>2, <2>1
  <2> QED BY <2>2 DEF Flows, Opened, q, p
<1> QED BY <1>3, <1>4

LEMMA ThreadAccounts ==
  ASSUME AccountInv, TypeOK', NEW t \in Threads, ThreadStep(t)
  PROVE  AccountMatchesBook'
<1> SUFFICES ASSUME Without({"overlap", "partial", "stray"})' PROVE AccountMatchesBook'
  BY DEF AccountMatchesBook
<1> DEFINE o == order[t]
<1>a. ThreadInv /\ TypeOK /\ o \in Order /\ order \in [Threads -> Order]
  BY DEF AccountInv, FlattenInv, BookInv, LotInv, ThreadInv, TypeOK
<1>b. Whole'
  BY DEF Whole, Without
<1>c. /\ Whole /\ Quiet /\ ~Idle(t) /\ Filling(o)
      /\ \A u \in Threads \ {t} : order[u] = NoOrder /\ order'[u] = NoOrder
  BY <1>b, WholeStepIs
<1>d. disturbed \subseteq disturbed' /\ Without({"overlap", "partial", "stray"})
  BY <1>a, ThreadStepIs DEF Without
<1>e. \A s \in Symbols : outside[s] = "no" => account[s] = Units(s) + InFlight(s)
  BY <1>d DEF AccountInv, AccountMatchesBook
<1>f. \A s \in Symbols : /\ InFlight(s) = Flows(t, s) /\ InFlight(s)' = Flows(t, s)'
                         /\ Units(s) \in Int /\ account[s] \in Int /\ Flows(t, s) \in Int
                         /\ order'[t] = NoOrder => InFlight(s)' = 0
                         /\ o = NoOrder => InFlight(s) = 0
  <2>1. \A s \in Symbols : Units(s) \in Int /\ account[s] \in Int
    BY <1>a, UnitsTyped DEF TypeOK
  <2>2. \A s \in Symbols : Flows(t, s) \in Int
    BY <1>a DEF Flows, Opened, Order
  <2> QED BY <1>a, <1>c, <2>1, <2>2, FlightIs
\* A step that ends with no order, the account where it was.
<1>g. ASSUME order'[t] = NoOrder, UNCHANGED <<account, outside>>,
             \A s \in Symbols : outside[s] = "no" => Units(s)' = Units(s) + Flows(t, s)
      PROVE  AccountMatchesBook'
  <2> SUFFICES ASSUME NEW s \in Symbols, outside'[s] = "no"
               PROVE  account'[s] = Units(s)' + InFlight(s)'
    BY DEF AccountMatchesBook
  <2>1. account[s] = Units(s) + Flows(t, s) /\ Units(s)' = Units(s) + Flows(t, s)
    BY <1>e, <1>f, <1>g
  <2>2. InFlight(s)' = 0 /\ Units(s) \in Int /\ Flows(t, s) \in Int
    BY <1>f, <1>g
  <2> QED BY <1>g, <2>1, <2>2
\* A list that ends when its order has filled nothing.
<1>h. ASSUME NEW failed, NEW also, Raise(t, failed, also), UNCHANGED <<account, outside>>, o.filled = 0
      PROVE  AccountMatchesBook'
  <2>1. order'[t] = NoOrder
    BY <1>a, <1>h DEF Raise, EndList
  <2>2. \E inLog, inTrail \in BOOLEAN : lots' = Written(t, inLog, inTrail)
    BY <1>h DEF Raise
  <2>3. SameBook
    BY <1>a, <2>2, WrittenIs
  <2>4. \A s \in Symbols : Units(s)' = Units(s)
    BY <1>a, <2>3, UnitsStay DEF SameBook
  <2>5. \A s \in Symbols : Flows(t, s) = 0
    BY <1>h, NothingFlows
  <2> QED BY <1>f, <1>g, <1>h, <2>1, <2>4, <2>5
<1>1. CASE Attach(t) \/ Skip(t)
  <2>1. UNCHANGED <<order, lots, account, outside>>
    BY <1>1 DEF Attach, Skip, portfolio, broker
  <2>2. \A s \in Symbols : Units(s)' = Units(s) /\ Flows(t, s)' = Flows(t, s)
    BY <2>1 DEF Units, UnitsIn, LotsOf, Open, Birth, Flows
  <2> QED BY <1>c, <1>d, <2>1, <2>2, AccountStays
<1>2. CASE Send(t)
  <2>1. UNCHANGED <<lots, account, outside>> /\ o = NoOrder
    BY <1>2 DEF Send, portfolio, broker, NoOrders
  <2>2. order'[t].filled = 0
    BY <1>2, <1>a, SentIs
  <2>3. \A s \in Symbols : Units(s)' = Units(s) /\ Flows(t, s)' = Flows(t, s)
    <3>1. \A s \in Symbols : Units(s)' = Units(s)
      BY <2>1 DEF Units, UnitsIn, LotsOf, Open, Birth
    <3>2. \A s \in Symbols : Flows(t, s)' = 0 /\ Flows(t, s) = 0
      BY <2>1, <2>2, NothingSent, NothingFlows
    <3> QED BY <3>1, <3>2
  <2> QED BY <1>c, <1>d, <2>1, <2>3, AccountStays
<1>3. CASE ChildFills(t)
  <2>1. /\ UNCHANGED <<lots, outside>> /\ o.left \in Nat /\ o.filled \in Nat /\ o.left > 0
        /\ o.symbol \in Symbols
    BY <1>3, <1>a DEF ChildFills, portfolio, Order
  <2>2. Child(o) \in Nat /\ 0 < Child(o) /\ Child(o) <= o.left
    BY <1>a, <2>1, ChildIs
  <2>3. PICK q \in 1..Child(o) :
          /\ order' = [order EXCEPT ![t] = Progress(o, o.left - Child(o), o.filled + q)]
          /\ account' = [account EXCEPT ![o.symbol] = @ + Opened(o, q)]
    BY <1>3 DEF ChildFills
  <2> DEFINE left == o.left - Child(o)
             filled == o.filled + q
  <2>4. left \in Nat /\ filled \in Nat /\ q \in Int
    BY <2>1, <2>2
  <2>5. order'[t] = Progress(o, left, filled)
    BY <1>a, <2>3
  <2> HIDE DEF left, filled
  <2>6. order'[t].kind = o.kind /\ order'[t].symbol = o.symbol /\ order'[t].filled = o.filled + q
    <3>1. order'[t].kind = o.kind /\ order'[t].symbol = o.symbol /\ order'[t].filled = filled
      BY <1>a, <2>4, <2>5, ProgressIs
    <3> QED BY <3>1 DEF filled
  <2> SUFFICES ASSUME NEW s \in Symbols, outside'[s] = "no"
               PROVE  account'[s] = Units(s)' + InFlight(s)'
    BY DEF AccountMatchesBook
  <2>7. Units(s)' = Units(s)
    BY <2>1 DEF Units, UnitsIn, LotsOf, Open, Birth
  <2>8. account[s] = Units(s) + Flows(t, s) /\ InFlight(s)' = Flows(t, s)'
    BY <1>e, <1>f, <2>1
  <2>9. account'[s] = IF s = o.symbol THEN account[s] + Opened(o, q) ELSE account[s]
    BY <1>a, <2>3 DEF TypeOK
  <2>10. Flows(t, s)' = IF s = o.symbol THEN Flows(t, s) + Opened(o, q) ELSE Flows(t, s)
    BY <2>1, <2>4, <2>6 DEF Flows, Opened
  <2>11. Units(s) \in Int /\ Flows(t, s) \in Int /\ Opened(o, q) \in Int
    BY <1>f, <2>4 DEF Opened
  <2> QED BY <2>7, <2>8, <2>9, <2>10, <2>11
<1>4. CASE ChildFails(t)
  <2>1. /\ UNCHANGED outside
        /\ account' = [account EXCEPT ![o.symbol] = @ + Opened(o, 0)]
        /\ o.filled = 0 /\ \E also : Raise(t, TRUE, also)
    <3>1. o.left > 0 /\ UNCHANGED outside
      BY <1>4 DEF ChildFails
    <3>2. Child(o) \in Nat /\ 0 < Child(o)
      BY <1>a, <3>1, ChildIs
    <3>3. PICK stray \in {0, Child(o)} :
            /\ account' = [account EXCEPT ![o.symbol] = @ + Opened(o, stray)]
            /\ \/ o.filled = 0 /\ Raise(t, TRUE, IF stray > 0 THEN {"stray"} ELSE {})
               \/ disturbed' = disturbed \cup (IF stray > 0 THEN {"stray"} ELSE {}) \cup {"partial"}
      BY <1>4 DEF ChildFails
    <3>4. o.filled = 0 /\ Raise(t, TRUE, IF stray > 0 THEN {"stray"} ELSE {})
      BY <1>b, <3>3 DEF Whole, Without
    <3>5. (IF stray > 0 THEN {"stray"} ELSE {}) \subseteq disturbed'
      BY <3>4 DEF Raise
    <3>6. stray = 0
      BY <3>2, <3>5 DEF Without
    <3> QED BY <3>1, <3>3, <3>4, <3>6
  <2>2. account' = account
    BY <1>a, <2>1 DEF Opened, TypeOK
  <2> QED BY <1>h, <2>1, <2>2
<1>5. CASE SendFails(t)
  <2>1. Raise(t, FALSE, {}) /\ UNCHANGED <<account, outside>> /\ o.filled = 0
    BY <1>5, NothingSent DEF SendFails, NoOrders, broker
  <2> QED BY <1>h, <2>1
<1>6. CASE BookFails(t)
  <2>1. OrderFits(o)
    BY <1>c DEF AccountInv, FlattenInv, BookInv, OrdersFit
  <2>2. o.kind \in Exiting /\ Target(o) = {}
    BY <1>6, <1>a DEF BookFails, Done, Order, Exiting
  <2> QED BY <2>1, <2>2 DEF OrderFits
<1>7. CASE BookEntry(t)
  <2>1. UNCHANGED <<account, outside>> /\ order'[t] = NoOrder
    BY <1>7, <1>a DEF BookEntry, broker
  <2>2. \A s \in Symbols : Units(s)' = Units(s) + Flows(t, s)
    BY <1>7, <1>c, EntryAccounts
  <2> QED BY <1>g, <2>1, <2>2
<1>8. CASE BookExit(t)
  <2>1. UNCHANGED <<account, outside>> /\ order'[t] = NoOrder
    BY <1>8, <1>a DEF BookExit, broker
  <2>2. \A s \in Symbols : outside[s] = "no" => Units(s)' = Units(s) + Flows(t, s)
    BY <1>8, <1>c, ExitAccounts
  <2> QED BY <1>g, <2>1, <2>2
<1> QED BY <1>1, <1>2, <1>3, <1>4, <1>5, <1>6, <1>7, <1>8 DEF ThreadStep

\* Between the orders of a list nothing moves but what has expired, and what
\* an adoption has closed.
LEMMA SessionAccounts ==
  ASSUME AccountInv, TypeOK', disturbed \subseteq disturbed',
         Whole' => order' = order,
         UNCHANGED account,
         \A s \in Symbols : Whole' /\ outside'[s] = "no" =>
           \/ outside[s] = "no" /\ Units(s)' = Units(s)
           \/ account[s] = 0 /\ Units(s)' = 0 /\ \A t \in Threads : order[t] = NoOrder
  PROVE  AccountMatchesBook'
<1> SUFFICES ASSUME Without({"overlap", "partial", "stray"})', NEW s \in Symbols, outside'[s] = "no"
             PROVE  account'[s] = Units(s)' + InFlight(s)'
  BY DEF AccountMatchesBook
<1>1. Whole' /\ Without({"overlap", "partial", "stray"}) /\ order' = order
  BY DEF Whole, Without
<1>2. InFlight(s)' = InFlight(s)
  BY <1>1 DEF InFlight, Flows
<1>3. CASE outside[s] = "no" /\ Units(s)' = Units(s)
  BY <1>1, <1>2, <1>3 DEF AccountInv, AccountMatchesBook
<1>4. CASE account[s] = 0 /\ Units(s)' = 0 /\ \A t \in Threads : order[t] = NoOrder
  <2>1. Flows("tick", s) = 0 /\ Flows("hand", s) = 0
    BY <1>4, NothingFlows, NothingSent DEF Threads
  <2> QED BY <1>2, <1>4, <2>1 DEF InFlight
<1> QED BY <1>1, <1>3, <1>4

LEMMA AccountKept == AccountInv /\ [Next]_vars => AccountInv'
<1> SUFFICES ASSUME AccountInv, [Next]_vars PROVE AccountInv'
  OBVIOUS
<1>a. /\ FlattenInv /\ FlattenInv' /\ BookInv /\ ThreadInv /\ TypeOK /\ TypeOK' /\ ThreadInv'
      /\ "tick" \in Threads /\ "hand" \in Threads
  BY FlattenKept DEF AccountInv, FlattenInv, BookInv, LotInv, ThreadInv, Threads
<1>b. order \in [Threads -> Order]
  BY <1>a DEF TypeOK
<1>c. Whole => Quiet
  BY DEF Whole, Quiet, Without
\* A step that leaves orders, settled symbols and account alone.
<1>d. ASSUME disturbed \subseteq disturbed', Whole' => order' = order,
             settling' \subseteq settling, UNCHANGED account, settling' = settling \/ \A t \in Threads : order'[t] = NoOrder
      PROVE  OrdersFillWhole' /\ SettlingIsGone'
  <2>1. Whole' => Whole
    BY <1>d DEF Whole, Without
  <2>2. OrdersFillWhole'
    <3>1. CASE settling' = settling
      BY <1>d, <2>1, <3>1 DEF AccountInv, OrdersFillWhole, Filling
    <3>2. CASE \A t \in Threads : order'[t] = NoOrder
      BY <3>2, RestFills
    <3> QED BY <1>d, <3>1, <3>2
  <2>3. SettlingIsGone'
    BY <1>d, <2>1 DEF AccountInv, SettlingIsGone
  <2> QED BY <2>2, <2>3
<1>1. ASSUME NEW t \in Threads, ThreadStep(t) PROVE AccountInv'
  BY <1>a, <1>1, ThreadFills, ThreadAccounts DEF AccountInv
<1>2. CASE Decide
  <2>1. UNCHANGED <<portfolio, session, order, broker, disturbed>>
    BY <1>2 DEF Decide, seen
  <2>2. UNCHANGED <<lots, settling, account, outside, order, disturbed>>
    BY <2>1 DEF portfolio, session, broker
  <2>3. \A s \in Symbols : Units(s)' = Units(s)
    BY <2>2 DEF Units, UnitsIn, LotsOf, Open, Birth
  <2>4. AccountMatchesBook'
    BY <1>a, <2>2, <2>3, SessionAccounts
  <2> QED BY <1>a, <1>d, <2>2, <2>4 DEF AccountInv
<1>3. ASSUME NEW t \in Threads, ListDone(t), ~Idle(t), EndList(t), lots' = Written(t, TRUE, TRUE),
             UNCHANGED <<account, disturbed>>,
             \A s \in Symbols : outside'[s] = "no" => outside[s] = "no" \/ (s \in settling /\ t = "hand")
      PROVE  AccountInv'
  <2>1. Quiet => \A u \in Threads : order[u] = NoOrder
    BY <1>a, <1>3, Alone DEF ListDone
  <2>2. order' = order /\ settling' \subseteq settling
    BY <1>b, <1>3 DEF EndList, ListDone
  <2>3. ASSUME Whole PROVE settling' = settling \/ \A u \in Threads : order'[u] = NoOrder
    BY <1>c, <2>1, <2>2, <2>3
  <2>4. SameBook
    <3>1. TRUE \in BOOLEAN
      OBVIOUS
    <3> QED BY <1>a, <1>3, <3>1, WrittenIs
  <2>5. \A s \in Symbols : Units(s)' = Units(s)
    BY <1>a, <2>4, UnitsStay DEF SameBook
  <2>6. ASSUME NEW s \in Symbols, Whole', outside'[s] = "no"
        PROVE  \/ outside[s] = "no" /\ Units(s)' = Units(s)
               \/ account[s] = 0 /\ Units(s)' = 0 /\ \A u \in Threads : order[u] = NoOrder
    <3>1. CASE outside[s] = "no"
      BY <2>5, <3>1
    <3>2. CASE s \in settling /\ t = "hand"
      <4>1. Whole /\ Quiet
        BY <1>3, <1>c, <2>6 DEF Whole, Without
      <4>2. account[s] = 0
        BY <3>2, <4>1 DEF AccountInv, SettlingIsGone
      <4>3. LotsOf(s) = {}
        <5>1. DOMAIN todo["hand"] = {}
          BY <1>3, <3>2 DEF ListDone
        <5> QED BY <1>a, <1>3, <3>2, <4>1, <5>1 DEF FlattenInv, ClosingOut, LotsOf
      <4>4. Units(s)' = 0
        BY <2>5, <4>3, UnitsGone
      <4> QED BY <2>1, <4>1, <4>2, <4>4
    <3> QED BY <1>3, <2>6, <3>1, <3>2
  <2>7. AccountMatchesBook'
    BY <1>a, <1>3, <2>2, <2>6, SessionAccounts
  <2>8. OrdersFillWhole' /\ SettlingIsGone'
    <3>1. CASE Whole
      BY <1>d, <1>3, <2>2, <2>3, <3>1
    <3>2. CASE ~Whole
      BY <1>3, <3>2 DEF OrdersFillWhole, SettlingIsGone, Whole, Without
    <3> QED BY <3>1, <3>2
  <2> QED BY <1>a, <2>7, <2>8 DEF AccountInv
<1>4. CASE EndSlice
  <2>1. /\ ListDone("tick") /\ ~Idle("tick") /\ EndList("tick") /\ lots' = Written("tick", TRUE, TRUE)
        /\ UNCHANGED <<account, disturbed, outside>>
    BY <1>4 DEF EndSlice, Idle, broker, seen
  <2> QED BY <1>a, <1>3, <2>1
<1>5. CASE EndJob
  <2>1. /\ ListDone("hand") /\ ~Idle("hand") /\ EndList("hand") /\ lots' = Written("hand", TRUE, TRUE)
        /\ UNCHANGED <<account, disturbed>>
        /\ \A s \in Symbols : outside'[s] = IF s \in settling THEN "no" ELSE outside[s]
    BY <1>5 DEF EndJob, Idle, seen
  <2> QED BY <1>a, <1>3, <2>1
<1>6. CASE StartSlice
  <2>1. /\ disturbed \subseteq disturbed' /\ UNCHANGED <<session, order, broker>>
    BY <1>6 DEF StartSlice
  <2>2. UNCHANGED <<settling, account, outside, order>>
    BY <2>1 DEF session, broker
  <2>3. PICK priced \in SUBSET {s \in Symbols : outside[s] = "expired"} :
          /\ Birth' = Birth
          /\ \A b \in Birth :
               /\ lots'[b].symbol = lots[b].symbol
               /\ lots'[b].units = lots[b].units - (IF lots[b].symbol \in priced THEN lots[b].units ELSE 0)
    BY <1>6, <1>a, SettlementIs
  <2>4. ASSUME NEW s \in Symbols, outside[s] = "no" PROVE Units(s)' = Units(s)
    <3>1. s \notin priced /\ \A b \in Birth : lots[b].units \in Nat
      BY <1>a, <2>4, LotsTyped DEF Lot
    <3>2. \A b \in Birth : lots[b].symbol = s => lots'[b].units = lots[b].units
      BY <2>3, <3>1
    <3> QED BY <1>a, <2>3, <3>2, UnitsStay
  <2>5. AccountMatchesBook'
    BY <1>a, <2>1, <2>2, <2>4, SessionAccounts
  <2> QED BY <1>a, <1>d, <2>1, <2>2, <2>5 DEF AccountInv
<1>7. CASE Flatten \/ ManualOrder \/ AdoptBrokerClose
  <2>1. PICK kind, x, without : HandAsks(kind, x, without) /\
          \E list \in Lists(x) : Begins("hand", list) /\ \A i \in DOMAIN list : Sound(list[i])
    BY <1>7, <1>a, HandKeeps
  <2>2. PICK list \in Lists(x) : Begins("hand", list)
    BY <2>1
  <2>3. /\ settling' = without /\ disturbed \subseteq disturbed' /\ Idle("hand")
        /\ UNCHANGED <<lots, order, account, outside>>
    BY <2>1 DEF HandAsks, Intervene, portfolio, broker
  <2>4. Whole' => \A u \in Threads : order'[u] = NoOrder
    <3>1. Whole' => Quiet'
      BY DEF Whole, Quiet, Without
    <3>2. Quiet' => \A u \in Threads : order'[u] = NoOrder
      BY <1>a, <2>2, <2>3, BegunAlone
    <3> QED BY <3>1, <3>2
  <2>5. \A s \in Symbols : Units(s)' = Units(s)
    BY <2>3 DEF Units, UnitsIn, LotsOf, Open, Birth
  <2>6. AccountMatchesBook'
    BY <1>a, <2>3, <2>5, SessionAccounts
  <2>7. SettlingIsGone'
    BY <2>1, <2>3 DEF HandAsks, SettlingIsGone
  <2> QED BY <1>a, <2>4, <2>6, <2>7, RestFills DEF AccountInv
<1>8. CASE Restart
  <2>1. UNCHANGED <<lots, settling, order, broker>> /\ disturbed \subseteq disturbed'
    BY <1>8 DEF Restart, threads
  <2>2. UNCHANGED <<account, outside>>
    BY <2>1 DEF broker
  <2>3. \A s \in Symbols : Units(s)' = Units(s)
    BY <2>1 DEF Units, UnitsIn, LotsOf, Open, Birth
  <2>4. AccountMatchesBook'
    BY <1>a, <2>1, <2>2, <2>3, SessionAccounts
  <2> QED BY <1>a, <1>d, <2>1, <2>2, <2>4 DEF AccountInv
<1>9. CASE ResumeStrategy \/ Acknowledge \/ UNCHANGED vars
  <2>1. UNCHANGED <<lots, settling, order, disturbed, broker>>
    BY <1>9 DEF ResumeStrategy, Acknowledge, vars, portfolio, session, threads, seen
  <2>2. UNCHANGED <<account, outside>>
    BY <2>1 DEF broker
  <2>3. \A s \in Symbols : Units(s)' = Units(s)
    BY <2>1 DEF Units, UnitsIn, LotsOf, Open, Birth
  <2>4. AccountMatchesBook'
    BY <1>a, <2>1, <2>2, <2>3, SessionAccounts
  <2> QED BY <1>a, <1>d, <2>1, <2>2, <2>4 DEF AccountInv
<1>10. ASSUME NEW c \in Symbols, SquareOff(c) \/ Expire(c) PROVE AccountInv'
  <2>1. PICK how \in {"closed", "expired"} : ClosedOutside(c, how)
    BY <1>10 DEF SquareOff, Expire
  <2>2. /\ account' = [account EXCEPT ![c] = 0] /\ outside' = [outside EXCEPT ![c] = how]
        /\ UNCHANGED <<lots, settling, order, disturbed>>
    BY <2>1 DEF ClosedOutside, portfolio, session, threads, seen
  <2>3. \A s \in Symbols : Units(s)' = Units(s) /\ InFlight(s)' = InFlight(s)
    BY <2>2 DEF Units, UnitsIn, LotsOf, Open, Birth, InFlight, Flows
  <2>4. \A s \in Symbols : /\ account'[s] = IF s = c THEN 0 ELSE account[s]
                           /\ outside'[s] = IF s = c THEN how ELSE outside[s]
    BY <1>a, <2>2 DEF TypeOK
  <2>5. Without({"overlap", "partial", "stray"})' => Without({"overlap", "partial", "stray"})
    BY <2>2 DEF Without
  <2>6. AccountMatchesBook'
    BY <2>1, <2>3, <2>4, <2>5 DEF AccountInv, AccountMatchesBook
  <2>7. OrdersFillWhole'
    BY <2>2 DEF AccountInv, OrdersFillWhole, Filling, Whole, Without
  <2>8. SettlingIsGone'
    <3>1. settling \subseteq Symbols
      BY <1>a DEF TypeOK
    <3> QED BY <2>2, <2>4, <3>1 DEF AccountInv, SettlingIsGone, Whole, Without
  <2> QED BY <1>a, <2>6, <2>7, <2>8 DEF AccountInv
<1> QED BY <1>1, <1>2, <1>4, <1>5, <1>6, <1>7, <1>8, <1>9, <1>10, Steps

LEMMA InitialAccount == Init => AccountInv
<1> SUFFICES ASSUME Init PROVE AccountInv
  OBVIOUS
<1>1. /\ \A t \in Threads : order[t] = NoOrder
      /\ settling = {} /\ \A s \in Symbols : account[s] = Units(s)
  BY DEF Init
<1>2. FlattenInv
  BY InitialFlatten
<1>3. OrdersFillWhole /\ SettlingIsGone
  <2>1. NoOrder.filled = 0 /\ NoOrder.left = 0 /\ NoOrder.ask = 0
    BY DEF NoOrder
  <2> QED BY <1>1, <2>1 DEF OrdersFillWhole, Filling, SettlingIsGone
<1>4. AccountMatchesBook
  <2> SUFFICES ASSUME NEW s \in Symbols PROVE account[s] = Units(s) + InFlight(s)
    BY DEF AccountMatchesBook
  <2>1. Flows("tick", s) = 0 /\ Flows("hand", s) = 0
    BY <1>1, NothingFlows, NothingSent DEF Threads
  <2>2. Units(s) \in Nat
    BY <1>2, UnitsTyped DEF FlattenInv, BookInv, LotInv, ThreadInv
  <2> QED BY <1>1, <2>1, <2>2 DEF InFlight
<1> QED BY <1>2, <1>3, <1>4 DEF AccountInv

\* THEOREM: as long as every order fills whole, even in children and even when
\* others are refused, the account holds what the book does and the orders out
\* have filled: through entries, exits of a lot, of part of one and of all lots
\* of a symbol, adoptions and settlements (engine/execution.py books what was
\* asked for, never what filled).
THEOREM AccountAgrees == Spec => []AccountMatchesBook
<1>1. AccountInv => AccountMatchesBook
  BY DEF AccountInv
<1> QED BY <1>1, InitialAccount, AccountKept, PTL DEF Spec
=============================================================================
