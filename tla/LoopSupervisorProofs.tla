------------------------ MODULE LoopSupervisorProofs ------------------------
(***************************************************************************)
(* The safety of LoopSupervisor for any number of objects, loops, threads, *)
(* acts, restarts and failures: the types, the one loop of a run, the one  *)
(* tick that decides for it, and the row that says whether it runs.        *)
(***************************************************************************)
EXTENDS LoopSupervisor, TLAPS

USE DEF manager, bounds

ObjectType == [Objects -> [book : Int, auto : BOOLEAN, halted : BOOLEAN, finished : BOOLEAN]]
LoopsType == [Loops -> [state : {"sleep", "tick", "ended"}, of : Objects \cup {NoObject}]]
TicksType ==
  [Ticks -> [pc : {"none", "decide", "order", "save", "done"},
             of : Objects \cup {NoObject}, loop : Loops \cup {NoLoop}, want : Int]]
RowType ==
  [status : {"new", "running", "stopped", "deleted"}, archived : BOOLEAN,
   auto : BOOLEAN, book : Int]
RecoveryType ==
  [pc : {"check", "rebuild", "start", "done"}, of : Objects \cup {NoObject}]
Marks ==
  {"late", "early", "activated", "unguarded", "halfStopped", "removedEarly", "crash",
   "unrecovered"}

\* What lives and runs does so for an object.
Attached ==
  /\ \A l \in Loops : Alive(l) => loops[l].of \in Objects
  /\ \A t \in Ticks : ticks[t].pc # "none" => ticks[t].of \in Objects
  /\ recovery.pc = "rebuild" => recovery.of \in Objects
TInv == TypeOK /\ Attached

-----------------------------------------------------------------------------
(* The pieces of the manager.                                              *)

LEMMA ChosenLoop ==
  ASSUME FreeLoops # {}
  PROVE  (CHOOSE l \in FreeLoops : TRUE) \in FreeLoops
OBVIOUS

LEMMA ChosenTick ==
  ASSUME FreeTicks # {}
  PROVE  (CHOOSE t \in FreeTicks : TRUE) \in FreeTicks
OBVIOUS

LEMMA ChosenObject ==
  ASSUME FreeObjects # {}
  PROVE  (CHOOSE x \in FreeObjects : TRUE) \in FreeObjects
OBVIOUS

\* A loop that begins is a new task, asleep, of the object it is begun for.
LEMMA BeginLoopIs ==
  ASSUME TInv, NEW x \in Objects, BeginLoop(x)
  PROVE  /\ task' \in Loops /\ task' \in FreeLoops
         /\ loops' = [loops EXCEPT ![task'] = [state |-> "sleep", of |-> x]]
         /\ loops' \in LoopsType
         /\ \A l \in Loops : Alive(l)' => loops'[l].of \in Objects
<1>1. task' \in FreeLoops
  BY ChosenLoop DEF BeginLoop
<1>2. task' \in Loops
  BY <1>1 DEF FreeLoops
<1>3. loops' = [loops EXCEPT ![task'] = [state |-> "sleep", of |-> x]]
  BY DEF BeginLoop
<1>4. loops' \in LoopsType
  BY <1>2, <1>3 DEF LoopsType, TInv, TypeOK
<1>5. \A l \in Loops : Alive(l)' => loops'[l].of \in Objects
  BY <1>2, <1>3 DEF LoopsType, TInv, TypeOK, Attached, Alive
<1> QED BY <1>1, <1>2, <1>3, <1>4, <1>5

\* A loop that ends leaves the others as they were.
LEMMA EndedIs ==
  ASSUME TInv, NEW l \in Loops, loops' = Ended(l)
  PROVE  /\ loops' \in LoopsType
         /\ \A k \in Loops : Alive(k)' => loops'[k].of \in Objects
         /\ \A k \in Loops : k # l => loops'[k] = loops[k]
         /\ ~Alive(l)'
BY DEF Ended, NoTask, LoopsType, TInv, TypeOK, Attached, Alive

\* What becomes of the threads whose loop has gone.
LEMMA DetachedType ==
  ASSUME TInv, NEW l \in Loops
  PROVE  Detached(l) \in TicksType
BY DEF Detached, NoTick, TicksType, TInv, TypeOK

LEMMA DetachedIs ==
  ASSUME TInv, NEW l \in Loops, NEW t \in Ticks, Detached(l)[t].pc # "none"
  PROVE  /\ Detached(l)[t].of \in Objects
         /\ Detached(l)[t].of = ticks[t].of
         /\ Detached(l)[t].pc = ticks[t].pc
         /\ Detached(l)[t].want = ticks[t].want
         /\ ticks[t].loop # l => Detached(l)[t] = ticks[t]
         /\ ticks[t].loop = l => ticks[t].pc # "done"
<1>1. Detached(l)[t] = IF ticks[t].loop # l THEN ticks[t]
                       ELSE IF ticks[t].pc = "done" THEN NoTick
                       ELSE [ticks[t] EXCEPT !.loop = NoLoop]
  BY DEF Detached
<1>2. ticks[t] \in [pc : {"none", "decide", "order", "save", "done"},
                    of : Objects \cup {NoObject}, loop : Loops \cup {NoLoop}, want : Int]
  BY DEF TInv, TypeOK
<1>3. CASE ticks[t].loop # l
  BY <1>1, <1>3 DEF TInv, Attached
<1>4. CASE ticks[t].loop = l
  BY <1>1, <1>2, <1>4 DEF TInv, Attached, NoTick
<1> QED BY <1>3, <1>4

\* Cancelling the task keeps the types.
LEMMA CancelTaskIs ==
  ASSUME TInv, CancelTask
  PROVE  /\ task' = NoLoop
         /\ loops' \in LoopsType /\ ticks' \in TicksType
         /\ \A l \in Loops : Alive(l)' => loops'[l].of \in Objects
         /\ \A t \in Ticks : ticks'[t].pc # "none" => ticks'[t].of \in Objects
         /\ \A l \in Loops : l # task => loops'[l] = loops[l]
         /\ \A l \in Loops : l = task => ~Alive(l)'
<1>1. CASE task = NoLoop
  <2>1. UNCHANGED <<loops, ticks>> /\ task' = NoLoop
    BY <1>1 DEF CancelTask
  <2>2. \A l \in Loops : l # task
    BY <1>1, SupervisorAssumption
  <2>3. loops' \in LoopsType /\ ticks' \in TicksType
    BY <2>1 DEF TInv, TypeOK, LoopsType, TicksType
  <2>4. \A l \in Loops : Alive(l)' => loops'[l].of \in Objects
    BY <2>1 DEF TInv, Attached, Alive
  <2>5. \A t \in Ticks : ticks'[t].pc # "none" => ticks'[t].of \in Objects
    BY <2>1 DEF TInv, Attached
  <2> QED BY <2>1, <2>2, <2>3, <2>4, <2>5
<1>2. CASE task # NoLoop
  <2>1. PICK k \in Loops : task = k
    BY <1>2 DEF TInv, TypeOK
  <2>2. task' = NoLoop /\ loops' = Ended(k) /\ ticks' = Detached(k)
    BY <1>2, <2>1 DEF CancelTask
  <2>3. loops' \in LoopsType /\ \A l \in Loops : Alive(l)' => loops'[l].of \in Objects
    BY <2>1, <2>2, EndedIs
  <2>4. (\A l \in Loops : l # task => loops'[l] = loops[l]) /\ ~Alive(k)'
    BY <2>1, <2>2, EndedIs
  <2>5. ticks' \in TicksType /\ \A t \in Ticks : ticks'[t].pc # "none" => ticks'[t].of \in Objects
    BY <2>1, <2>2, DetachedType, DetachedIs
  <2> QED BY <2>1, <2>2, <2>3, <2>4, <2>5
<1> QED BY <1>1, <1>2
-----------------------------------------------------------------------------
(* Types.                                                                  *)

\* What every action but those of the loops and threads does to the types.
LEMMA TypesKept ==
  ASSUME TInv,
         row' \in RowType, runs' \in Objects \cup {NoObject}, task' \in Loops \cup {NoLoop},
         object' \in ObjectType, loops' \in LoopsType, ticks' \in TicksType,
         starts' \in Nat, recovery' \in RecoveryType, account' \in Int,
         acts' \in Nat, crashes' \in Nat, faults' \in Nat, disturbed' \subseteq Marks,
         \A l \in Loops : Alive(l)' => loops'[l].of \in Objects,
         \A t \in Ticks : ticks'[t].pc # "none" => ticks'[t].of \in Objects,
         recovery'.pc = "rebuild" => recovery'.of \in Objects
  PROVE  TInv'
BY DEF TInv, TypeOK, Attached, RowType, ObjectType, LoopsType, TicksType, RecoveryType, Marks

\* An object made afresh.
LEMMA NewRunIs ==
  ASSUME TInv, NEW x \in Objects, NEW auto \in BOOLEAN, NEW book \in Int, NewRun(x, auto, book)
  PROVE  /\ object' \in ObjectType
         /\ object'[x].book = book /\ object'[x].auto = auto
         /\ \A y \in Objects : y # x => object'[y] = object[y]
<1> DEFINE new == [Fresh EXCEPT !.book = book, !.auto = auto]
<1>1. new \in [book : Int, auto : BOOLEAN, halted : BOOLEAN, finished : BOOLEAN]
  BY DEF Fresh
<1>2. new.book = book /\ new.auto = auto
  BY DEF Fresh
<1>3. object' = [object EXCEPT ![x] = new]
  BY DEF NewRun
<1> HIDE DEF new
<1> QED BY <1>1, <1>2, <1>3 DEF ObjectType, TInv, TypeOK

\* A thread that goes on.
GoesOn(t, pc, want) == ticks' = [ticks EXCEPT ![t].pc = pc, ![t].want = want]

LEMMA TickGoesOn ==
  ASSUME TInv, NEW t \in Ticks, ticks[t].pc # "none", NEW want \in Int,
         NEW pc \in {"decide", "order", "save", "done"},
         GoesOn(t, pc, want)
  PROVE  /\ ticks' \in TicksType
         /\ \A u \in Ticks : ticks'[u].pc # "none" => ticks'[u].of \in Objects
         /\ \A u \in Ticks : u # t => ticks'[u] = ticks[u]
         /\ ticks'[t].pc = pc /\ ticks'[t].of = ticks[t].of
         /\ ticks'[t].loop = ticks[t].loop /\ ticks'[t].want = want
<1>1. ticks \in TicksType
  BY DEF TInv, TypeOK, TicksType
<1>2. /\ ticks'[t].pc = pc /\ ticks'[t].of = ticks[t].of
      /\ ticks'[t].loop = ticks[t].loop /\ ticks'[t].want = want
  BY <1>1 DEF TicksType, GoesOn
<1>3. \A u \in Ticks : u # t => ticks'[u] = ticks[u]
  BY <1>1 DEF TicksType, GoesOn
<1>4. ticks' \in TicksType
  BY <1>1 DEF TicksType, GoesOn
<1>5. ticks'[t].of \in Objects
  BY <1>2 DEF TInv, Attached
<1>6. \A u \in Ticks : ticks'[u].pc # "none" => ticks'[u].of \in Objects
  BY <1>3, <1>5 DEF TInv, Attached
<1> QED BY <1>2, <1>3, <1>4, <1>6

\* ... with its orders behind it.
LEMMA TickIsDone ==
  ASSUME TInv, NEW t \in Ticks, ticks[t].pc # "none",
         GoesOn(t, "save", 0)
  PROVE  /\ ticks' \in TicksType
         /\ \A u \in Ticks : ticks'[u].pc # "none" => ticks'[u].of \in Objects
         /\ \A u \in Ticks : u # t => ticks'[u] = ticks[u]
         /\ ticks'[t].pc = "save" /\ ticks'[t].of = ticks[t].of
         /\ ticks'[t].loop = ticks[t].loop /\ ticks'[t].want = 0
<1>1. PICK want \in Int, pc \in {"decide", "order", "save", "done"} : want = 0 /\ pc = "save"
  OBVIOUS
<1>2. GoesOn(t, pc, want)
  BY <1>1
<1> QED BY <1>1, <1>2, TickGoesOn

LEMMA TInvInit == Init => TInv
<1> SUFFICES ASSUME Init PROVE TInv
  OBVIOUS
<1>1. object \in ObjectType
  BY DEF Init, Fresh, ObjectType
<1>2. loops \in LoopsType /\ \A l \in Loops : ~Alive(l)
  BY DEF Init, NoTask, LoopsType, Alive
<1>3. ticks \in TicksType /\ \A t \in Ticks : ticks[t].pc = "none"
  BY DEF Init, NoTick, TicksType
<1> QED
  BY <1>1, <1>2, <1>3
  DEF Init, TInv, TypeOK, Attached, ObjectType, LoopsType, TicksType

LEMMA NotesAreMarks ==
  ASSUME TInv, NEW what, Note(what), what \subseteq Marks
  PROVE  disturbed' \subseteq Marks
BY DEF Note, TInv, TypeOK, Marks

LEMMA MarksOf ==
  /\ Late \subseteq Marks /\ Early \subseteq Marks /\ StoppedEarly \subseteq Marks
BY DEF Late, Early, StoppedEarly, Marks

LEMMA ActsAreCounted ==
  ASSUME TInv, OwnerActs \/ Fails
  PROVE  acts' \in Nat /\ crashes' \in Nat /\ faults' \in Nat
BY DEF OwnerActs, Fails, TInv, TypeOK

LEMMA TInvStep == TInv /\ [Next]_vars => TInv'
<1> SUFFICES ASSUME TInv, [Next]_vars PROVE TInv'
  OBVIOUS
<1> USE MarksOf DEF RowType, RecoveryType
<1>t. /\ row \in RowType /\ runs \in Objects \cup {NoObject} /\ task \in Loops \cup {NoLoop}
      /\ object \in ObjectType /\ loops \in LoopsType /\ ticks \in TicksType
      /\ starts \in Nat /\ recovery \in RecoveryType /\ account \in Int
      /\ acts \in Nat /\ crashes \in Nat /\ faults \in Nat /\ disturbed \subseteq Marks
  BY DEF TInv, TypeOK, ObjectType, LoopsType, TicksType, Marks
<1>a. /\ \A l \in Loops : Alive(l) => loops[l].of \in Objects
      /\ \A t \in Ticks : ticks[t].pc # "none" => ticks[t].of \in Objects
      /\ recovery.pc = "rebuild" => recovery.of \in Objects
  BY DEF TInv, Attached
<1>1. CASE Start
  <2>1. PICK x \in Objects, auto \in BOOLEAN :
          /\ row' = [status |-> "running", archived |-> FALSE, auto |-> auto, book |-> 0]
          /\ runs' = x /\ NewRun(x, auto, 0)
          /\ IF auto THEN BeginLoop(x) ELSE UNCHANGED <<loops, task>>
    BY <1>1, ChosenObject DEF Start, FreeObjects
  <2>2. object' \in ObjectType
    BY <2>1, NewRunIs
  <2>3. /\ task' \in Loops \cup {NoLoop} /\ loops' \in LoopsType
        /\ \A l \in Loops : Alive(l)' => loops'[l].of \in Objects
    <3>1. CASE auto
      BY <2>1, <3>1, BeginLoopIs
    <3>2. CASE ~auto
      BY <2>1, <3>2, <1>t, <1>a DEF Alive
    <3> QED BY <3>1, <3>2
  <2>4. UNCHANGED <<ticks, starts, recovery, account, disturbed>> /\ OwnerActs
    BY <1>1 DEF Start
  <2> QED BY <1>t, <1>a, <2>1, <2>2, <2>3, <2>4, ActsAreCounted, TypesKept
<1>2. CASE Stop
  <2>1. CancelTask /\ runs' = NoObject /\ row' = StoppedRow /\ OwnerActs
    BY <1>2 DEF Stop, Unregister
  <2>2. row' \in RowType
    BY <1>t, <1>2, <2>1 DEF StoppedRow, Stop, Registered, ObjectType
  <2>3. UNCHANGED <<object, starts, recovery, account>> /\ disturbed' \subseteq Marks
    BY <1>2, NotesAreMarks DEF Stop
  <2> QED BY <1>t, <1>a, <2>1, <2>2, <2>3, CancelTaskIs, ActsAreCounted, TypesKept
<1>3. CASE StopFails
  <2>1. CancelTask /\ runs' = NoObject /\ Fails
    BY <1>3 DEF StopFails, Unregister
  <2>2. row' \in RowType
    BY <1>t, <1>3 DEF StopFails, Registered, ObjectType
  <2>3. UNCHANGED <<object, starts, recovery, account>> /\ disturbed' \subseteq Marks
    BY <1>3, NotesAreMarks DEF StopFails, Marks
  <2> QED BY <1>t, <1>a, <2>1, <2>2, <2>3, CancelTaskIs, ActsAreCounted, TypesKept
<1>4. ASSUME NEW gone \in BOOLEAN, Remove(gone) PROVE TInv'
  <2>1. UNCHANGED <<object, starts, recovery, account>> /\ OwnerActs
    BY <1>4 DEF Remove
  <2>2. row' \in RowType
    <3>1. (IF Registered THEN StoppedRow ELSE row) \in RowType
      BY <1>t DEF StoppedRow, Registered, ObjectType
    <3> QED BY <1>4, <3>1 DEF Remove
  <2>3. CASE Registered
    <3>1. CancelTask /\ runs' = NoObject
      BY <1>4, <2>3 DEF Remove, Unregister
    <3>2. disturbed' \subseteq Marks
      BY <1>4, <2>3, NotesAreMarks DEF Remove, Marks
    <3> QED BY <1>t, <1>a, <2>1, <2>2, <3>1, <3>2, CancelTaskIs, ActsAreCounted, TypesKept
  <2>4. CASE ~Registered
    <3>1. UNCHANGED <<runs, task, loops, ticks>>
      BY <1>4, <2>4 DEF Remove
    <3>2. disturbed' \subseteq Marks
      BY <1>4, <2>4, NotesAreMarks DEF Remove
    <3> QED BY <1>t, <1>a, <2>1, <2>2, <3>1, <3>2, ActsAreCounted, TypesKept DEF Alive
  <2> QED BY <2>3, <2>4
<1>5. CASE Unarchive
  <2>1. row' \in RowType /\ OwnerActs
    BY <1>5, <1>t DEF Unarchive
  <2>2. UNCHANGED <<runs, task, object, loops, ticks, starts, recovery, account, disturbed>>
    BY <1>5 DEF Unarchive
  <2> QED BY <1>t, <1>a, <2>1, <2>2, ActsAreCounted, TypesKept DEF Alive
<1>6. CASE Activate
  <2>1. PICK x \in Objects :
          /\ row' = [row EXCEPT !.status = "running"]
          /\ runs' = x /\ NewRun(x, row.auto, row.book)
          /\ IF row.auto THEN BeginLoop(x) ELSE UNCHANGED <<loops, task>>
    BY <1>6, ChosenObject DEF Activate, FreeObjects
  <2>2. object' \in ObjectType /\ row' \in RowType
    BY <1>t, <2>1, NewRunIs
  <2>3. /\ task' \in Loops \cup {NoLoop} /\ loops' \in LoopsType
        /\ \A l \in Loops : Alive(l)' => loops'[l].of \in Objects
    <3>1. CASE row.auto
      BY <2>1, <3>1, BeginLoopIs
    <3>2. CASE ~row.auto
      BY <2>1, <3>2, <1>t, <1>a DEF Alive
    <3> QED BY <3>1, <3>2
  <2>4. UNCHANGED <<ticks, starts, recovery, account>> /\ OwnerActs
    BY <1>6 DEF Activate
  <2>5. disturbed' \subseteq Marks
    BY <1>6, NotesAreMarks DEF Activate, Marks
  <2> QED BY <1>t, <1>a, <2>1, <2>2, <2>3, <2>4, <2>5, ActsAreCounted, TypesKept
<1>7. CASE Pause
  <2>1. row' \in RowType /\ object' \in ObjectType /\ OwnerActs
    BY <1>7, <1>t DEF Pause, ObjectType
  <2>2. UNCHANGED <<runs, starts, recovery, account>> /\ disturbed' \subseteq Marks
    BY <1>7, NotesAreMarks DEF Pause
  <2>3. CASE LiveTask
    <3>1. CancelTask
      BY <1>7, <2>3 DEF Pause
    <3> QED BY <1>t, <1>a, <2>1, <2>2, <3>1, CancelTaskIs, ActsAreCounted, TypesKept
  <2>4. CASE ~LiveTask
    <3>1. UNCHANGED <<task, loops, ticks>>
      BY <1>7, <2>4 DEF Pause
    <3> QED BY <1>t, <1>a, <2>1, <2>2, <3>1, ActsAreCounted, TypesKept DEF Alive
  <2> QED BY <2>3, <2>4
<1>8. CASE Resume
  <2>1. row' \in RowType /\ object' \in ObjectType /\ OwnerActs
    BY <1>8, <1>t DEF Resume, ObjectType
  <2>2. UNCHANGED <<runs, ticks, starts, recovery, account>> /\ disturbed' \subseteq Marks
    BY <1>8, NotesAreMarks DEF Resume
  <2>3. /\ task' \in Loops \cup {NoLoop} /\ loops' \in LoopsType
        /\ \A l \in Loops : Alive(l)' => loops'[l].of \in Objects
    <3>1. CASE LiveTask
      BY <1>8, <3>1, <1>t, <1>a DEF Resume, Alive
    <3>2. CASE ~LiveTask
      <4>1. BeginLoop(runs) /\ runs \in Objects
        BY <1>8, <3>2, <1>t DEF Resume, Registered
      <4> QED BY <4>1, BeginLoopIs
    <3> QED BY <3>1, <3>2
  <2> QED BY <1>t, <1>a, <2>1, <2>2, <2>3, ActsAreCounted, TypesKept
<1>9. CASE Acknowledge
  <2>1. object' \in ObjectType
    BY <1>9, <1>t DEF Acknowledge, ObjectType
  <2>2. UNCHANGED <<row, runs, task, loops, ticks, starts, recovery, account, acts, crashes, faults, disturbed>>
    BY <1>9 DEF Acknowledge
  <2> QED BY <1>t, <1>a, <2>1, <2>2, TypesKept DEF Alive
<1>10. CASE StartFires
  <2>1. starts' \in Nat
    BY <1>10, <1>t DEF StartFires
  <2>2. UNCHANGED <<row, runs, object, ticks, recovery, account, acts, crashes, faults, disturbed>>
    BY <1>10 DEF StartFires
  <2>3. /\ task' \in Loops \cup {NoLoop} /\ loops' \in LoopsType
        /\ \A l \in Loops : Alive(l)' => loops'[l].of \in Objects
    <3>1. CASE Registered
      <4>1. BeginLoop(runs) /\ runs \in Objects
        BY <1>10, <3>1, <1>t DEF StartFires, Registered
      <4> QED BY <4>1, BeginLoopIs
    <3>2. CASE ~Registered
      BY <1>10, <3>2, <1>t, <1>a DEF StartFires, Alive
    <3> QED BY <3>1, <3>2
  <2> QED BY <1>t, <1>a, <2>1, <2>2, <2>3, TypesKept
<1>11. CASE Watchdog
  <2>1. BeginLoop(runs) /\ runs \in Objects
    BY <1>11, <1>t DEF Watchdog, Registered
  <2>2. UNCHANGED <<row, runs, object, ticks, starts, recovery, account, acts, crashes, faults>>
    BY <1>11 DEF Watchdog
  <2>3. disturbed' \subseteq Marks
    BY <1>11, NotesAreMarks DEF Watchdog
  <2> QED BY <1>t, <1>a, <2>1, <2>2, <2>3, BeginLoopIs, TypesKept
<1>12. CASE Recover \/ RecoverFails
  <2>1. UNCHANGED <<row, task, loops, ticks, account>>
    BY <1>12 DEF Recover, RecoverReads, RecoverRegisters, RecoverStarts, RecoverFails
  <2>2. /\ recovery' \in RecoveryType
        /\ recovery'.pc = "rebuild" => recovery'.of \in Objects
        /\ object' \in ObjectType /\ runs' \in Objects \cup {NoObject}
    <3>1. CASE RecoverReads
      <4>1. CASE Registered \/ row.status = "deleted"
        BY <1>t, <3>1, <4>1 DEF RecoverReads
      <4>2. CASE ~(Registered \/ row.status = "deleted")
        <5>1. PICK x \in Objects : /\ recovery' = [pc |-> "rebuild", of |-> x]
                                   /\ NewRun(x, row.auto, row.book)
          BY <3>1, <4>2, ChosenObject DEF RecoverReads, FreeObjects
        <5>2. object' \in ObjectType
          BY <1>t, <5>1, NewRunIs
        <5> QED BY <1>t, <3>1, <5>1, <5>2 DEF RecoverReads
      <4> QED BY <4>1, <4>2
    <3>2. CASE RecoverRegisters
      BY <1>t, <1>a, <3>2 DEF RecoverRegisters
    <3>3. CASE RecoverStarts
      BY <1>t, <1>a, <3>3 DEF RecoverStarts
    <3>4. CASE RecoverFails
      BY <1>t, <3>4 DEF RecoverFails
    <3> QED BY <1>12, <3>1, <3>2, <3>3, <3>4 DEF Recover
  <2>3. starts' \in Nat /\ acts' \in Nat /\ crashes' \in Nat /\ faults' \in Nat
    BY <1>12, <1>t, ActsAreCounted
    DEF Recover, RecoverReads, RecoverRegisters, RecoverStarts, RecoverFails
  <2>4. disturbed' \subseteq Marks
    BY <1>12, <1>t, NotesAreMarks
    DEF Recover, RecoverReads, RecoverRegisters, RecoverStarts, RecoverFails, Marks
  <2> QED BY <1>t, <1>a, <2>1, <2>2, <2>3, <2>4, TypesKept DEF Alive
<1>13. CASE Crash
  <2>1. loops' \in LoopsType /\ \A l \in Loops : ~Alive(l)'
    BY <1>13 DEF Crash, NoTask, LoopsType, Alive
  <2>2. ticks' \in TicksType /\ \A t \in Ticks : ticks'[t].pc = "none"
    BY <1>13 DEF Crash, NoTick, TicksType
  <2>3. object' \in ObjectType
    BY <1>13 DEF Crash, Fresh, ObjectType
  <2>4. /\ recovery' \in RecoveryType /\ recovery'.pc # "rebuild"
        /\ runs' = NoObject /\ task' = NoLoop /\ starts' = 0
        /\ UNCHANGED <<row, account>>
    BY <1>13 DEF Crash
  <2>5. acts' \in Nat /\ crashes' \in Nat /\ faults' \in Nat
    BY <1>13, <1>t DEF Crash
  <2>6. disturbed' \subseteq Marks
    BY <1>13, NotesAreMarks DEF Crash, Marks
  <2> QED BY <1>t, <2>1, <2>2, <2>3, <2>4, <2>5, <2>6, TypesKept
<1>14. ASSUME NEW l \in Loops, LoopTicks(l) PROVE TInv'
  <2>1. PICK t \in Ticks :
          ticks' = [ticks EXCEPT ![t] = [pc |-> "decide", of |-> loops[l].of, loop |-> l, want |-> 0]]
    BY <1>14, ChosenTick DEF LoopTicks, FreeTicks
  <2>2. loops' = [loops EXCEPT ![l].state = "tick"] /\ Alive(l)
    BY <1>14 DEF LoopTicks, Alive
  <2>3. ticks' \in TicksType /\ \A u \in Ticks : ticks'[u].pc # "none" => ticks'[u].of \in Objects
    BY <1>t, <1>a, <2>1, <2>2 DEF TicksType, LoopsType
  <2>4. loops' \in LoopsType /\ \A k \in Loops : Alive(k)' => loops'[k].of \in Objects
    BY <1>t, <1>a, <2>2 DEF LoopsType, Alive
  <2>5. UNCHANGED <<row, runs, task, object, starts, recovery, account, acts, crashes, faults, disturbed>>
    BY <1>14 DEF LoopTicks
  <2> QED BY <1>t, <1>a, <2>3, <2>4, <2>5, TypesKept
<1>15. ASSUME NEW l \in Loops, LoopDies(l) PROVE TInv'
  <2>1. loops' = Ended(l) /\ Fails
    BY <1>15 DEF LoopDies
  <2>2. UNCHANGED <<row, runs, task, object, ticks, starts, recovery, account, disturbed>>
    BY <1>15 DEF LoopDies
  <2> QED BY <1>t, <1>a, <2>1, <2>2, EndedIs, ActsAreCounted, TypesKept
<1>16. ASSUME NEW l \in Loops, LoopResumes(l) PROVE TInv'
  <2>1. UNCHANGED <<object, starts, recovery, account, acts, crashes, faults>>
    BY <1>16 DEF LoopResumes
  <2>2. disturbed' \subseteq Marks
    BY <1>16, NotesAreMarks DEF LoopResumes
  <2>3. ticks' \in TicksType /\ \A t \in Ticks : ticks'[t].pc # "none" => ticks'[t].of \in Objects
    <3>1. ticks' = [t \in Ticks |-> IF ticks[t].loop = task /\ Completed(loops[l].of)
                                      THEN Detached(task)[t] ELSE Detached(l)[t]]
      BY <1>16 DEF LoopResumes
    <3>2. PICK k : k = task
      OBVIOUS
    <3>3. ASSUME NEW t \in Ticks
          PROVE  /\ ticks'[t] \in [pc : {"none", "decide", "order", "save", "done"},
                      of : Objects \cup {NoObject}, loop : Loops \cup {NoLoop}, want : Int]
                 /\ ticks'[t].pc # "none" => ticks'[t].of \in Objects
      <4>1. CASE k \in Loops
        <5>1. ticks'[t] = Detached(k)[t] \/ ticks'[t] = Detached(l)[t]
          BY <3>1, <3>2
        <5>2. Detached(k) \in TicksType /\ Detached(l) \in TicksType
          BY <4>1, DetachedType
        <5> QED BY <5>1, <5>2, <4>1, DetachedIs DEF TicksType
      <4>2. CASE ticks'[t] = Detached(l)[t]
        <5>1. Detached(l) \in TicksType
          BY DetachedType
        <5> QED BY <4>2, <5>1, DetachedIs DEF TicksType
      <4>3. CASE k \notin Loops /\ ticks'[t] = Detached(k)[t]
        <5>1. ticks'[t] = IF ticks[t].loop # k THEN ticks[t]
                          ELSE IF ticks[t].pc = "done" THEN NoTick
                          ELSE [ticks[t] EXCEPT !.loop = NoLoop]
          BY <4>3 DEF Detached
        <5>2. ticks[t] \in [pc : {"none", "decide", "order", "save", "done"},
                 of : Objects \cup {NoObject}, loop : Loops \cup {NoLoop}, want : Int]
          BY <1>t DEF TicksType
        <5> QED BY <5>1, <5>2, <1>a DEF NoTick
      <4> QED BY <3>1, <3>2, <4>1, <4>2, <4>3
    <3>4. \A t \in Ticks : ticks'[t].pc # "none" => ticks'[t].of \in Objects
      BY <3>3
    <3>5. ticks' \in TicksType
      BY <3>1, <3>3 DEF TicksType
    <3> QED BY <3>4, <3>5
  <2>4. /\ loops' \in LoopsType /\ \A k \in Loops : Alive(k)' => loops'[k].of \in Objects
        /\ runs' \in Objects \cup {NoObject} /\ task' \in Loops \cup {NoLoop}
        /\ row' \in RowType
    <3>1. CASE Completed(loops[l].of)
      <4>1. /\ task' = NoLoop /\ runs' = NoObject
            /\ row' = (IF Registered THEN StoppedRow ELSE row)
            /\ loops' = [m \in Loops |-> IF m \in {l, task} THEN NoTask ELSE loops[m]]
        BY <1>16, <3>1 DEF LoopResumes
      <4>2. row' \in RowType
        BY <1>t, <4>1 DEF StoppedRow, Registered, ObjectType
      <4>3. loops' \in LoopsType /\ \A k \in Loops : Alive(k)' => loops'[k].of \in Objects
        BY <1>t, <1>a, <4>1 DEF LoopsType, NoTask, Alive
      <4> QED BY <4>1, <4>2, <4>3
    <3>2. CASE ~Completed(loops[l].of)
      <4>1. loops' = [loops EXCEPT ![l].state = "sleep"] /\ UNCHANGED <<row, runs, task>>
            /\ Alive(l)
        BY <1>16, <3>2 DEF LoopResumes, Alive
      <4>2. loops' \in LoopsType /\ \A k \in Loops : Alive(k)' => loops'[k].of \in Objects
        BY <1>t, <1>a, <4>1 DEF LoopsType, Alive
      <4> QED BY <1>t, <4>1, <4>2
    <3> QED BY <3>1, <3>2
  <2> QED BY <1>t, <1>a, <2>1, <2>2, <2>3, <2>4, TypesKept
<1>17. ASSUME NEW t \in Ticks, TickDecides(t) PROVE TInv'
  <2>1. UNCHANGED <<row, runs, task, loops, starts, recovery, account, acts, crashes, faults, disturbed>>
    BY <1>17 DEF TickDecides
  <2>2. ticks[t].of \in Objects /\ ticks[t].pc = "decide"
    BY <1>17, <1>a DEF TickDecides
  <2>3. object[ticks[t].of].book \in Int /\ object[ticks[t].of].finished \in BOOLEAN
    BY <2>2, <1>t DEF ObjectType
  <2>4. PICK want \in Int, pc \in {"save", "order"} :
          GoesOn(t, pc, want)
    <3>1. PICK want \in {0} \cup IF object[ticks[t].of].halted THEN {}
                            ELSE IF object[ticks[t].of].book > 0 THEN {-object[ticks[t].of].book}
                            ELSE IF object[ticks[t].of].finished THEN {} ELSE {1} :
            ticks' = [ticks EXCEPT ![t].pc = IF want = 0 THEN "save" ELSE "order", ![t].want = want]
      BY <1>17 DEF TickDecides
    <3>2. want \in Int
      BY <2>3, <3>1
    <3> QED BY <3>1, <3>2 DEF GoesOn
  <2>5. PICK done \in BOOLEAN : object' = [object EXCEPT ![ticks[t].of].finished = done]
    BY <1>17, <2>3 DEF TickDecides
  <2>6. ticks' \in TicksType /\ \A u \in Ticks : ticks'[u].pc # "none" => ticks'[u].of \in Objects
    BY <2>2, <2>4, TickGoesOn
  <2>7. object' \in ObjectType
    BY <1>t, <2>5 DEF ObjectType
  <2> QED BY <1>t, <1>a, <2>1, <2>6, <2>7, TypesKept DEF Alive
<1>18. ASSUME NEW t \in Ticks, TickTrades(t) PROVE TInv'
  <2>1. UNCHANGED <<row, runs, task, loops, starts, recovery, acts, crashes, faults, disturbed>>
    BY <1>18 DEF TickTrades
  <2>2. ticks[t].of \in Objects /\ ticks[t].want \in Int
    BY <1>18, <1>t, <1>a DEF TickTrades, TicksType
  <2>3. account' \in Int
    BY <1>18, <1>t, <2>2 DEF TickTrades
  <2>4. object' \in ObjectType
    BY <1>18, <1>t, <2>2 DEF TickTrades, ObjectType
  <2>5. ticks' \in TicksType /\ \A u \in Ticks : ticks'[u].pc # "none" => ticks'[u].of \in Objects
    <3>1. GoesOn(t, "save", 0)
      BY <1>18 DEF TickTrades, GoesOn
    <3>2. ticks[t].pc # "none"
      BY <1>18 DEF TickTrades
    <3> QED BY <3>1, <3>2, TickIsDone
  <2> QED BY <1>t, <1>a, <2>1, <2>3, <2>4, <2>5, TypesKept DEF Alive
<1>19. ASSUME NEW t \in Ticks, TickFails(t) PROVE TInv'
  <2>1. UNCHANGED <<row, runs, task, loops, starts, recovery, account, disturbed>> /\ Fails
    BY <1>19 DEF TickFails
  <2>2. ticks[t].of \in Objects
    BY <1>19, <1>a DEF TickFails
  <2>3. object' \in ObjectType
    BY <1>19, <1>t DEF TickFails, ObjectType
  <2>4. ticks' \in TicksType /\ \A u \in Ticks : ticks'[u].pc # "none" => ticks'[u].of \in Objects
    <3>1. GoesOn(t, "save", 0)
      BY <1>19 DEF TickFails, GoesOn
    <3>2. ticks[t].pc # "none"
      BY <1>19 DEF TickFails
    <3> QED BY <3>1, <3>2, TickIsDone
  <2> QED BY <1>t, <1>a, <2>1, <2>3, <2>4, ActsAreCounted, TypesKept DEF Alive
<1>20. ASSUME NEW t \in Ticks, TickSaves(t) PROVE TInv'
  <2>1. UNCHANGED <<runs, task, object, loops, starts, recovery, account, acts, crashes, faults, disturbed>>
    BY <1>20 DEF TickSaves
  <2>2. ticks[t].of \in Objects
    BY <1>20, <1>a DEF TickSaves
  <2>3. row' \in RowType
    BY <1>20, <1>t, <2>2 DEF TickSaves, Save, ObjectType
  <2>4. ticks' \in TicksType /\ \A u \in Ticks : ticks'[u].pc # "none" => ticks'[u].of \in Objects
    BY <1>20, <1>t, <1>a, <2>2 DEF TickSaves, TicksType, NoTick
  <2> QED BY <1>t, <1>a, <2>1, <2>3, <2>4, TypesKept DEF Alive
<1>21. CASE UNCHANGED vars
  <2>1. UNCHANGED <<row, runs, task, object, loops, ticks, starts, recovery, account, acts, crashes, faults, disturbed>>
    BY <1>21 DEF vars
  <2> QED BY <1>t, <1>a, <2>1, TypesKept DEF Alive
<1>22. CASE Archive \/ Delete
  BY <1>22, <1>4 DEF Archive, Delete
<1> QED
  BY <1>1, <1>2, <1>3, <1>5, <1>6, <1>7, <1>8, <1>9, <1>10, <1>11, <1>12, <1>13, <1>14,
     <1>15, <1>16, <1>17, <1>18, <1>19, <1>20, <1>21, <1>22
  DEF Next, Routes, TickStep

\* Every variable keeps its type, for all bounds.
THEOREM TypeCorrect == Spec => []TypeOK
<1>1. TInv => TypeOK
  BY DEF TInv
<1> QED BY TInvInit, TInvStep, <1>1, PTL DEF Spec
-----------------------------------------------------------------------------
(* One loop.                                                               *)

Races == {"activated", "early"}

\* A run that has not been started has nobody to start it.
NotYetStarted ==
  row.status = "new" => runs = NoObject /\ recovery.pc = "done" /\ starts = 0

\* The recovery hands over one start, and is then done.
OneHandover == starts > 0 => starts = 1 /\ recovery.pc = "done"

\* While the recovery rebuilds the run nobody has it, and until the start it
\* hands over has run there is no loop.
RecoveryIsAlone ==
  Without(Races) => /\ recovery.pc = "rebuild" => runs = NoObject
                    /\ Starting => \A l \in Loops : ~Alive(l)

LoopInv == TInv /\ NoOrphanLoop /\ NotYetStarted /\ OneHandover /\ RecoveryIsAlone

\* What is noted stays noted.
LEMMA NotesStay ==
  ASSUME NEW what, Note(what), NEW S, Without(S)'
  PROVE  Without(S) /\ what \cap S = {}
BY DEF Note, Without

\* A step that begins no loop, and leaves the recovery alone.
LEMMA NoneBegins ==
  ASSUME LoopInv, TInv', UNCHANGED <<runs, task, starts, recovery>>,
         row'.status = "new" => row.status = "new",
         Without(Races)' => Without(Races),
         \A l \in Loops : Alive(l)' => Alive(l) /\ loops'[l].of = loops[l].of
  PROVE  LoopInv'
<1>1. NoOrphanLoop'
  BY DEF LoopInv, NoOrphanLoop, Races
<1>2. NotYetStarted' /\ OneHandover'
  BY DEF LoopInv, NotYetStarted, OneHandover
<1>3. RecoveryIsAlone'
  BY DEF LoopInv, RecoveryIsAlone, Starting
<1> QED BY <1>1, <1>2, <1>3 DEF LoopInv

\* A step that leaves no loop alive.
LEMMA AllEnd ==
  ASSUME LoopInv, TInv', UNCHANGED <<starts, recovery>>,
         row'.status = "new" => row.status = "new" /\ runs' \in {runs, NoObject},
         Without(Races)' => /\ Without(Races)
                            /\ \A l \in Loops : ~Alive(l)'
                            /\ recovery.pc = "rebuild" => runs' \in {runs, NoObject}
  PROVE  LoopInv'
<1>1. NoOrphanLoop'
  BY DEF LoopInv, NoOrphanLoop, Races
<1>2. NotYetStarted' /\ OneHandover'
  BY DEF LoopInv, NotYetStarted, OneHandover
<1>3. RecoveryIsAlone'
  BY DEF LoopInv, RecoveryIsAlone, Starting
<1> QED BY <1>1, <1>2, <1>3 DEF LoopInv

\* A step that begins the loop of a run that had none.
LEMMA OneBegins ==
  ASSUME LoopInv, TInv', NEW x \in Objects, BeginLoop(x), runs' = x, UNCHANGED recovery,
         row'.status # "new", OneHandover',
         Without(Races)' => /\ Without(Races)
                            /\ \A l \in Loops : ~Alive(l)
                            /\ recovery.pc # "rebuild"
                            /\ ~Starting'
  PROVE  LoopInv'
<1>1. NoOrphanLoop'
  <2> SUFFICES ASSUME Without(Races)', NEW l \in Loops, Alive(l)'
               PROVE  task' = l /\ loops'[l].of = runs'
    BY DEF NoOrphanLoop, Races
  <2>1. /\ task' \in Loops /\ loops' = [loops EXCEPT ![task'] = [state |-> "sleep", of |-> x]]
        /\ loops \in LoopsType
    BY BeginLoopIs DEF LoopInv, TInv, TypeOK, LoopsType
  <2>2. CASE l # task'
    BY <2>1, <2>2 DEF Alive, LoopsType
  <2>3. CASE l = task'
    BY <2>1, <2>3 DEF LoopsType
  <2> QED BY <2>2, <2>3
<1>2. NotYetStarted' /\ OneHandover'
  BY DEF NotYetStarted
<1>3. RecoveryIsAlone'
  BY DEF RecoveryIsAlone
<1> QED BY <1>1, <1>2, <1>3 DEF LoopInv

\* Cancelling the task of a run ends the only loop there is.
LEMMA CancelEndsAll ==
  ASSUME LoopInv, CancelTask, Without(Races)
  PROVE  \A l \in Loops : ~Alive(l)'
<1> SUFFICES ASSUME NEW l \in Loops, Alive(l)' PROVE FALSE
  OBVIOUS
<1>1. l # task /\ loops'[l] = loops[l]
  BY CancelTaskIs DEF LoopInv
<1> QED BY <1>1 DEF LoopInv, NoOrphanLoop, Races, Alive

\* Without a live task there is no loop.
LEMMA NoTaskNoLoop ==
  ASSUME LoopInv, ~LiveTask, Without(Races)
  PROVE  \A l \in Loops : ~Alive(l)
BY DEF LoopInv, NoOrphanLoop, Races, LiveTask

LEMMA LoopInvInit == Init => LoopInv
<1> SUFFICES ASSUME Init PROVE LoopInv
  OBVIOUS
<1>1. \A l \in Loops : ~Alive(l)
  BY DEF Init, NoTask, Alive
<1>2. NoOrphanLoop
  BY <1>1 DEF NoOrphanLoop
<1>3. NotYetStarted /\ OneHandover /\ RecoveryIsAlone
  BY <1>1 DEF Init, NotYetStarted, OneHandover, RecoveryIsAlone
<1> QED BY <1>2, <1>3, TInvInit DEF LoopInv

LEMMA LoopInvStep == LoopInv /\ [Next]_vars => LoopInv'
<1> SUFFICES ASSUME LoopInv, [Next]_vars PROVE LoopInv'
  OBVIOUS
<1>t. TInv /\ TInv'
  BY TInvStep DEF LoopInv
<1>r. /\ row \in RowType /\ runs \in Objects \cup {NoObject} /\ recovery \in RecoveryType
      /\ starts \in Nat /\ object \in ObjectType /\ row' \in RowType
  BY <1>t DEF TInv, TypeOK, RowType, RecoveryType, ObjectType
<1>1. CASE Start
  <2>1. PICK x \in Objects, auto \in BOOLEAN :
          /\ row' = [status |-> "running", archived |-> FALSE, auto |-> auto, book |-> 0]
          /\ runs' = x
          /\ IF auto THEN BeginLoop(x) ELSE UNCHANGED <<loops, task>>
    BY <1>1, ChosenObject DEF Start, FreeObjects
  <2>2. /\ UNCHANGED <<starts, recovery, disturbed>> /\ row.status = "new"
        /\ runs = NoObject /\ recovery.pc = "done" /\ starts = 0
    BY <1>1 DEF Start, LoopInv, NotYetStarted
  <2>3. Without(Races)' => Without(Races)
    BY <2>2 DEF Without
  <2>4. Without(Races) => \A l \in Loops : ~Alive(l)
    BY <2>2, <1>t, SupervisorAssumption DEF LoopInv, NoOrphanLoop, Races, TInv, Attached
  <2>5. ~Starting /\ ~Starting' /\ row'.status # "new" /\ OneHandover'
    BY <2>1, <2>2 DEF Starting, OneHandover
  <2>6. CASE auto
    <3>1. BeginLoop(x)
      BY <2>1, <2>6
    <3> QED BY <1>t, <2>1, <2>2, <2>3, <2>4, <2>5, <3>1, OneBegins
  <2>7. CASE ~auto
    <3>1. Without(Races) => \A l \in Loops : ~Alive(l)'
      BY <2>1, <2>4, <2>7 DEF Alive
    <3> QED BY <1>t, <2>2, <2>3, <2>5, <3>1, AllEnd
  <2> QED BY <2>6, <2>7
<1>2. CASE Stop
  <2>1. CancelTask /\ runs' = NoObject /\ row'.status # "new" /\ UNCHANGED <<starts, recovery>>
    BY <1>2, <1>r DEF Stop, Unregister, StoppedRow, RowType
  <2>2. Without(Races)' => Without(Races)
    BY <1>2, NotesStay DEF Stop
  <2> QED BY <1>t, <2>1, <2>2, CancelEndsAll, AllEnd
<1>3. CASE StopFails
  <2>1. CancelTask /\ runs' = NoObject /\ row'.status = row.status /\ UNCHANGED <<starts, recovery>>
    BY <1>3, <1>r DEF StopFails, Unregister, RowType
  <2>2. Without(Races)' => Without(Races)
    BY <1>3, NotesStay DEF StopFails
  <2> QED BY <1>t, <2>1, <2>2, CancelEndsAll, AllEnd
<1>4. ASSUME NEW gone \in BOOLEAN, Remove(gone) PROVE LoopInv'
  <2>1. row.status # "new" /\ UNCHANGED <<starts, recovery>>
    BY <1>4 DEF Remove
  <2>2. row'.status # "new"
    <3>1. (IF Registered THEN StoppedRow ELSE row).status # "new"
      BY <2>1, <1>r DEF StoppedRow, RowType
    <3>2. (IF Registered THEN StoppedRow ELSE row) \in RowType
      BY <1>r DEF StoppedRow, Registered, RowType, ObjectType
    <3> QED BY <1>4, <3>1, <3>2 DEF Remove, RowType
  <2>3. CASE Registered
    <3>1. CancelTask /\ runs' = NoObject
      BY <1>4, <2>3 DEF Remove, Unregister
    <3>2. Without(Races)' => Without(Races)
      BY <1>4, <2>3, NotesStay DEF Remove
    <3> QED BY <1>t, <2>1, <2>2, <3>1, <3>2, CancelEndsAll, AllEnd
  <2>4. CASE ~Registered
    <3>1. UNCHANGED <<runs, task, loops>>
      BY <1>4, <2>4 DEF Remove
    <3>2. Without(Races)' => Without(Races)
      BY <1>4, <2>4, NotesStay DEF Remove
    <3> QED BY <1>t, <2>1, <2>2, <3>1, <3>2, NoneBegins DEF Alive
  <2> QED BY <2>3, <2>4
<1>5. CASE Unarchive
  <2>1. UNCHANGED <<runs, task, starts, recovery, loops, disturbed>> /\ row'.status = row.status
    BY <1>5, <1>r DEF Unarchive, RowType
  <2> QED BY <1>t, <2>1, NoneBegins DEF Alive, Without
<1>6. CASE Activate
  <2>1. PICK x \in Objects :
          /\ row' = [row EXCEPT !.status = "running"]
          /\ runs' = x
          /\ IF row.auto THEN BeginLoop(x) ELSE UNCHANGED <<loops, task>>
    BY <1>6, ChosenObject DEF Activate, FreeObjects
  <2>2. UNCHANGED <<starts, recovery>> /\ row'.status # "new" /\ runs = NoObject
    BY <1>6, <2>1, <1>r DEF Activate, RowType, Registered
  <2>3. Note(Early \cup IF recovery.pc = "rebuild" THEN {"activated"} ELSE {})
    BY <1>6 DEF Activate
  <2>4. Without(Races)' => Without(Races) /\ ~Starting /\ recovery.pc # "rebuild"
    <3> SUFFICES ASSUME Without(Races)' PROVE Without(Races) /\ ~Starting /\ recovery.pc # "rebuild"
      OBVIOUS
    <3>1. /\ Without(Races)
          /\ (Early \cup IF recovery.pc = "rebuild" THEN {"activated"} ELSE {}) \cap Races = {}
      BY <2>3, NotesStay
    <3> QED BY <3>1 DEF Early, Races
  <2>5. Without(Races) => \A l \in Loops : ~Alive(l)
    BY <2>2, <1>t, SupervisorAssumption DEF LoopInv, NoOrphanLoop, Races, TInv, Attached
  <2>6. CASE row.auto
    <3>1. BeginLoop(x)
      BY <2>1, <2>6
    <3>2. OneHandover' /\ (~Starting => ~Starting')
      BY <2>2 DEF LoopInv, OneHandover, Starting
    <3> QED BY <1>t, <2>1, <2>2, <2>4, <2>5, <3>1, <3>2, OneBegins
  <2>7. CASE ~row.auto
    <3>1. Without(Races) => \A l \in Loops : ~Alive(l)'
      BY <2>1, <2>5, <2>7 DEF Alive
    <3> QED BY <1>t, <2>2, <2>4, <3>1, AllEnd
  <2> QED BY <2>6, <2>7
<1>7. CASE Pause
  <2>1. UNCHANGED <<runs, starts, recovery>> /\ row'.status = row.status
    BY <1>7, <1>r DEF Pause, RowType
  <2>2. Without(Races)' => Without(Races)
    BY <1>7, NotesStay DEF Pause
  <2>3. CASE LiveTask
    <3>1. CancelTask
      BY <1>7, <2>3 DEF Pause
    <3> QED BY <1>t, <2>1, <2>2, <3>1, CancelEndsAll, AllEnd
  <2>4. CASE ~LiveTask
    <3>1. UNCHANGED <<task, loops>>
      BY <1>7, <2>4 DEF Pause
    <3> QED BY <1>t, <2>1, <2>2, <3>1, NoneBegins DEF Alive
  <2> QED BY <2>3, <2>4
<1>8. CASE Resume
  <2>1. UNCHANGED <<runs, starts, recovery>> /\ row'.status = row.status /\ runs \in Objects
    BY <1>8, <1>r DEF Resume, RowType, Registered
  <2>2. Without(Races)' => Without(Races) /\ ~Starting
    BY <1>8, NotesStay DEF Resume, Early, Races
  <2>3. CASE LiveTask
    <3>1. UNCHANGED <<task, loops>>
      BY <1>8, <2>3 DEF Resume
    <3> QED BY <1>t, <2>1, <2>2, <3>1, NoneBegins DEF Alive
  <2>4. CASE ~LiveTask
    <3>1. BeginLoop(runs)
      BY <1>8, <2>4 DEF Resume
    <3>2. row'.status # "new" /\ (Without(Races) => recovery.pc # "rebuild")
      BY <2>1, SupervisorAssumption DEF LoopInv, NotYetStarted, RecoveryIsAlone
    <3>3. OneHandover' /\ (~Starting => ~Starting')
      BY <2>1 DEF LoopInv, OneHandover, Starting
    <3> QED BY <1>t, <2>1, <2>2, <2>4, <3>1, <3>2, <3>3, NoTaskNoLoop, OneBegins
  <2> QED BY <2>3, <2>4
<1>9. CASE Acknowledge
  <2>1. UNCHANGED <<row, runs, task, starts, recovery, loops, disturbed>>
    BY <1>9 DEF Acknowledge
  <2> QED BY <1>t, <2>1, NoneBegins DEF Alive, Without
<1>10. CASE StartFires
  <2>1. /\ UNCHANGED <<row, runs, recovery, disturbed>> /\ starts = 1 /\ starts' = 0
        /\ recovery.pc = "done"
    BY <1>10, <1>r DEF StartFires, LoopInv, OneHandover
  <2>2. OneHandover' /\ Starting /\ ~Starting' /\ row.status # "new"
    BY <2>1 DEF OneHandover, Starting, LoopInv, NotYetStarted
  <2>3. Without(Races)' => Without(Races) /\ \A l \in Loops : ~Alive(l)
    BY <2>1, <2>2 DEF Without, LoopInv, RecoveryIsAlone
  <2>4. CASE Registered
    <3>1. BeginLoop(runs) /\ runs \in Objects
      BY <1>10, <2>4, <1>r DEF StartFires, Registered
    <3> QED BY <1>t, <2>1, <2>2, <2>3, <3>1, OneBegins
  <2>5. CASE ~Registered
    <3>1. UNCHANGED <<loops, task>>
      BY <1>10, <2>5 DEF StartFires
    <3>2. NoOrphanLoop'
      BY <2>1, <2>3, <3>1 DEF NoOrphanLoop, Races, Alive
    <3>3. NotYetStarted' /\ RecoveryIsAlone'
      BY <2>1, <2>2 DEF NotYetStarted, RecoveryIsAlone
    <3> QED BY <1>t, <2>2, <3>2, <3>3 DEF LoopInv
  <2> QED BY <2>4, <2>5
<1>11. CASE Watchdog
  <2>1. /\ UNCHANGED <<row, runs, starts, recovery>> /\ runs \in Objects /\ BeginLoop(runs)
        /\ ~LiveTask
    BY <1>11, <1>r DEF Watchdog, Registered
  <2>2. Without(Races)' => Without(Races) /\ ~Starting
    BY <1>11, NotesStay DEF Watchdog, Early, Races
  <2>3. row'.status # "new" /\ (Without(Races) => recovery.pc # "rebuild")
    BY <2>1, SupervisorAssumption DEF LoopInv, NotYetStarted, RecoveryIsAlone
  <2>4. OneHandover' /\ (~Starting => ~Starting')
    BY <2>1 DEF LoopInv, OneHandover, Starting
  <2> QED BY <1>t, <2>1, <2>2, <2>3, <2>4, NoTaskNoLoop, OneBegins
<1>12. CASE Recover \/ RecoverFails
  <2>1. UNCHANGED <<row, task, loops>>
    BY <1>12 DEF Recover, RecoverReads, RecoverRegisters, RecoverStarts, RecoverFails
  <2>2. row.status # "new" /\ recovery.pc # "done" /\ starts = 0
    BY <1>12, <1>r DEF Recover, RecoverReads, RecoverRegisters, RecoverStarts, RecoverFails,
                       LoopInv, NotYetStarted, OneHandover
  <2>3. Without(Races)' => Without(Races)
    BY <1>12, NotesStay
    DEF Recover, RecoverReads, RecoverRegisters, RecoverStarts, RecoverFails, Without
  <2>4. Without(Races) /\ runs = NoObject => \A l \in Loops : ~Alive(l)
    BY <1>t, SupervisorAssumption DEF LoopInv, NoOrphanLoop, Races, TInv, Attached
  <2>5. NotYetStarted'
    BY <2>1, <2>2 DEF NotYetStarted
  <2>6. CASE RecoverReads
    <3>1. UNCHANGED <<runs, starts>> /\ recovery'.pc \in {"rebuild", "done"}
          /\ (recovery'.pc = "rebuild" => runs = NoObject)
      BY <2>6, <1>r DEF RecoverReads, Registered, RecoveryType
    <3>2. NoOrphanLoop'
      BY <2>1, <2>3, <3>1 DEF LoopInv, NoOrphanLoop, Races, Alive
    <3>3. OneHandover' /\ RecoveryIsAlone'
      BY <2>2, <3>1 DEF OneHandover, RecoveryIsAlone, Starting
    <3> QED BY <1>t, <2>5, <3>2, <3>3 DEF LoopInv
  <2>7. CASE RecoverFails
    <3>1. UNCHANGED <<runs, starts>> /\ recovery'.pc = "done"
      BY <2>7 DEF RecoverFails
    <3>2. NoOrphanLoop'
      BY <2>1, <2>3, <3>1 DEF LoopInv, NoOrphanLoop, Races, Alive
    <3>3. OneHandover' /\ RecoveryIsAlone'
      BY <2>2, <3>1 DEF OneHandover, RecoveryIsAlone, Starting
    <3> QED BY <1>t, <2>5, <3>2, <3>3 DEF LoopInv
  <2>8. CASE RecoverRegisters
    <3>1. UNCHANGED starts /\ recovery'.pc \in {"start", "done"} /\ recovery.pc = "rebuild"
      BY <2>8, <1>r DEF RecoverRegisters, RecoveryType
    <3>2. Without(Races)' => \A l \in Loops : ~Alive(l)'
      BY <2>1, <2>3, <2>4, <3>1 DEF LoopInv, RecoveryIsAlone, Alive
    <3>3. NoOrphanLoop' /\ OneHandover' /\ RecoveryIsAlone'
      BY <2>2, <3>1, <3>2 DEF NoOrphanLoop, Races, OneHandover, RecoveryIsAlone
    <3> QED BY <1>t, <2>5, <3>3 DEF LoopInv
  <2>9. CASE RecoverStarts
    <3>1. UNCHANGED runs /\ recovery'.pc = "done" /\ starts' = 1 /\ recovery.pc = "start"
      BY <2>2, <2>9, <1>r DEF RecoverStarts, RecoveryType
    <3>2. Without(Races)' => \A l \in Loops : ~Alive(l)'
      BY <2>1, <2>3, <3>1 DEF LoopInv, RecoveryIsAlone, Starting, Alive
    <3>3. NoOrphanLoop' /\ OneHandover' /\ RecoveryIsAlone'
      BY <3>1, <3>2 DEF NoOrphanLoop, Races, OneHandover, RecoveryIsAlone
    <3> QED BY <1>t, <2>5, <3>3 DEF LoopInv
  <2> QED BY <1>12, <2>6, <2>7, <2>8, <2>9 DEF Recover
<1>13. CASE Crash
  <2>1. /\ \A l \in Loops : ~Alive(l)'
        /\ runs' = NoObject /\ starts' = 0 /\ UNCHANGED row
        /\ recovery'.pc = IF row.status = "running" THEN "check" ELSE "done"
    BY <1>13 DEF Crash, NoTask, Alive
  <2>2. NoOrphanLoop' /\ NotYetStarted' /\ OneHandover' /\ RecoveryIsAlone'
    BY <2>1 DEF NoOrphanLoop, NotYetStarted, OneHandover, RecoveryIsAlone
  <2> QED BY <1>t, <2>2 DEF LoopInv
<1>14. ASSUME NEW l \in Loops, LoopTicks(l) PROVE LoopInv'
  <2>1. UNCHANGED <<row, runs, task, starts, recovery, disturbed>>
        /\ loops' = [loops EXCEPT ![l].state = "tick"] /\ Alive(l)
    BY <1>14 DEF LoopTicks, Alive
  <2>2. \A k \in Loops : Alive(k)' => Alive(k) /\ loops'[k].of = loops[k].of
    BY <2>1, <1>t DEF Alive, TInv, TypeOK
  <2> QED BY <1>t, <2>1, <2>2, NoneBegins DEF Without
<1>15. ASSUME NEW l \in Loops, LoopDies(l) PROVE LoopInv'
  <2>1. UNCHANGED <<row, runs, task, starts, recovery, disturbed>> /\ loops' = Ended(l)
    BY <1>15 DEF LoopDies
  <2>2. \A k \in Loops : Alive(k)' => Alive(k) /\ loops'[k].of = loops[k].of
    BY <2>1, <1>t, EndedIs DEF Alive
  <2> QED BY <1>t, <2>1, <2>2, NoneBegins DEF Without
<1>16. ASSUME NEW l \in Loops, LoopResumes(l) PROVE LoopInv'
  <2>1. UNCHANGED <<starts, recovery>> /\ Alive(l)
    BY <1>16 DEF LoopResumes, Alive
  <2>2. Without(Races)' => Without(Races)
    BY <1>16, NotesStay DEF LoopResumes
  <2>3. CASE Completed(loops[l].of)
    <3>1. /\ runs' = NoObject
          /\ row' = (IF Registered THEN StoppedRow ELSE row)
          /\ loops' = [m \in Loops |-> IF m \in {l, task} THEN NoTask ELSE loops[m]]
      BY <1>16, <2>3 DEF LoopResumes
    <3>2. row'.status = "new" => row.status = "new"
      BY <3>1, <1>r DEF StoppedRow, RowType
    <3>3. Without(Races)' => \A k \in Loops : ~Alive(k)'
      BY <2>2, <3>1 DEF LoopInv, NoOrphanLoop, Races, Alive, NoTask
    <3> QED BY <1>t, <2>1, <2>2, <3>1, <3>2, <3>3, AllEnd
  <2>4. CASE ~Completed(loops[l].of)
    <3>1. loops' = [loops EXCEPT ![l].state = "sleep"] /\ UNCHANGED <<row, runs, task>>
      BY <1>16, <2>4 DEF LoopResumes
    <3>2. \A k \in Loops : Alive(k)' => Alive(k) /\ loops'[k].of = loops[k].of
      BY <2>1, <3>1, <1>t DEF Alive, TInv, TypeOK
    <3> QED BY <1>t, <2>1, <2>2, <3>1, <3>2, NoneBegins
  <2> QED BY <2>3, <2>4
<1>17. ASSUME NEW t \in Ticks, TickStep(t) \/ TickFails(t) PROVE LoopInv'
  <2>1. UNCHANGED <<runs, task, starts, recovery, loops, disturbed>>
    BY <1>17 DEF TickStep, TickDecides, TickTrades, TickSaves, TickFails
  <2>2. row'.status = row.status
    BY <1>17, <1>r DEF TickStep, TickDecides, TickTrades, TickSaves, TickFails, Save, RowType
  <2> QED BY <1>t, <2>1, <2>2, NoneBegins DEF Alive, Without
<1>18. CASE UNCHANGED vars
  <2>1. UNCHANGED <<row, runs, task, starts, recovery, loops, disturbed>>
    BY <1>18 DEF vars
  <2> QED BY <1>t, <2>1, NoneBegins DEF Alive, Without
<1>19. CASE Archive \/ Delete
  BY <1>19, <1>4 DEF Archive, Delete
<1> QED
  BY <1>1, <1>2, <1>3, <1>5, <1>6, <1>7, <1>8, <1>9, <1>10, <1>11, <1>12, <1>13, <1>14,
     <1>15, <1>16, <1>17, <1>18, <1>19
  DEF Next, Routes

\* But for the two races of the recovery, every loop that lives is the task of
\* the run that the routes know, and ticks that run.
THEOREM OneLoop == Spec => []NoOrphanLoop
<1>1. LoopInv => NoOrphanLoop
  BY DEF LoopInv
<1> QED BY LoopInvInit, LoopInvStep, <1>1, PTL DEF Spec

-----------------------------------------------------------------------------
(* One tick.                                                               *)

TickRaces == Races \cup {"late"}

\* Every thread is awaited by the loop it ticks for, and is alone.
Awaited ==
  Without(TickRaces) =>
    /\ \A t \in Ticks : ticks[t].pc # "none" =>
         /\ ticks[t].loop \in Loops
         /\ loops[ticks[t].loop].state = "tick"
         /\ loops[ticks[t].loop].of = ticks[t].of
    /\ \A t, u \in Ticks : ticks[t].pc # "none" /\ ticks[u].pc # "none" => t = u

TickInv == LoopInv /\ Awaited

LEMMA FewerRaces == Without(TickRaces) => Without(Races)
BY DEF Without, TickRaces

\* A step that leaves the threads alone, and the loops that await one.
LEMMA TicksUntouched ==
  ASSUME TickInv, LoopInv', UNCHANGED ticks, Without(TickRaces)' => Without(TickRaces),
         \A l \in Loops : loops[l].state = "tick" => loops'[l] = loops[l]
  PROVE  TickInv'
BY DEF TickInv, Awaited

LEMMA TicksGone ==
  ASSUME LoopInv', Without(TickRaces)' => \A t \in Ticks : ticks'[t].pc = "none"
  PROVE  TickInv'
BY DEF TickInv, Awaited

\* A new loop is none of those that await a thread.
LEMMA BeginLoopSpares ==
  ASSUME TInv, NEW x \in Objects, BeginLoop(x)
  PROVE  \A l \in Loops : loops[l].state = "tick" => loops'[l] = loops[l]
<1>1. task' \in FreeLoops /\ loops' = [loops EXCEPT ![task'] = [state |-> "sleep", of |-> x]]
  BY BeginLoopIs
<1>2. loops \in LoopsType
  BY DEF TInv, TypeOK, LoopsType
<1> QED BY <1>1, <1>2 DEF FreeLoops, Alive, LoopsType

\* The thread that ticks does so for the task of the run.
LEMMA TickOfTheRun ==
  ASSUME TickInv, Without(TickRaces), NEW t \in Ticks, ticks[t].pc # "none"
  PROVE  ticks[t].loop = task /\ ticks[t].of = runs /\ task \in Loops /\ runs \in Objects
<1>1. /\ ticks[t].loop \in Loops /\ Alive(ticks[t].loop)
      /\ loops[ticks[t].loop].of = ticks[t].of
  BY DEF TickInv, Awaited, Alive
<1>2. Without(Races)
  BY FewerRaces
<1> QED BY <1>1, <1>2 DEF TickInv, LoopInv, NoOrphanLoop, Races, TInv, Attached

\* Cancelling the task while no thread ticks for the run leaves no thread.
LEMMA CancelQuiet ==
  ASSUME TickInv, CancelTask, Without(TickRaces), ~Ticking(runs)
  PROVE  /\ \A t \in Ticks : ticks'[t].pc = "none"
         /\ \A t \in Ticks : ticks[t].pc \in {"none", "done"}
<1>1. ASSUME NEW t \in Ticks, ticks[t].pc # "none"
      PROVE  ticks[t].loop = task /\ task \in Loops /\ ticks[t].pc = "done"
  <2>1. ticks[t].loop = task /\ ticks[t].of = runs /\ task \in Loops
    BY <1>1, TickOfTheRun
  <2>2. ticks[t].pc \in {"none", "decide", "order", "save", "done"}
    BY DEF TickInv, LoopInv, TInv, TypeOK
  <2> QED BY <1>1, <2>1, <2>2 DEF Ticking, Busy
<1>2. ASSUME NEW t \in Ticks, ticks'[t].pc # "none"
      PROVE  FALSE
  <2>1. CASE task = NoLoop
    <3>1. UNCHANGED ticks
      BY <2>1 DEF CancelTask
    <3> QED BY <1>1, <1>2, <2>1, <3>1, SupervisorAssumption
  <2>2. CASE task # NoLoop
    <3>1. PICK k \in Loops : task = k
      BY <2>2 DEF TickInv, LoopInv, TInv, TypeOK
    <3>2. ticks' = Detached(k)
      BY <2>2, <3>1 DEF CancelTask
    <3>3. Detached(k)[t].pc # "none"
      BY <1>2, <3>2
    <3>4. ticks[t].pc # "none" /\ (ticks[t].loop = k => ticks[t].pc # "done")
      BY <3>3, DetachedIs DEF TickInv, LoopInv
    <3> QED BY <1>1, <3>1, <3>4
  <2> QED BY <2>1, <2>2
<1> QED BY <1>1, <1>2

LEMMA LateIsTicking ==
  ASSUME NEW S, Late \cap S = {}, "late" \in S
  PROVE  ~Ticking(runs)
BY DEF Late

\* The thread whose loop has resumed is the only one, and it is over.
LEMMA ResumeQuiet ==
  ASSUME TickInv, NEW l \in Loops, LoopResumes(l), Without(TickRaces)
  PROVE  /\ \A t \in Ticks : ticks'[t].pc = "none"
         /\ \A t \in Ticks : ticks[t].pc \in {"none", "done"}
         /\ loops[l].of = runs /\ task = l
<1>1. PICK t \in Ticks : ticks[t].pc = "done" /\ ticks[t].loop = l
  BY DEF LoopResumes
<1>2. \A u \in Ticks : ticks[u].pc # "none" => u = t
  BY <1>1 DEF TickInv, Awaited
<1>3. task = l /\ loops[l].of = runs
  BY <1>1, TickOfTheRun DEF TickInv, Awaited
<1>4. ticks' = [u \in Ticks |-> IF ticks[u].loop = task /\ Completed(loops[l].of)
                                 THEN Detached(task)[u] ELSE Detached(l)[u]]
  BY DEF LoopResumes
<1>5. ASSUME NEW u \in Ticks, ticks'[u].pc # "none" PROVE FALSE
  <2>1. ticks'[u] = Detached(l)[u]
    BY <1>3, <1>4
  <2>2. ticks[u].pc # "none" /\ (ticks[u].loop = l => ticks[u].pc # "done")
    BY <1>5, <2>1, DetachedIs DEF TickInv, LoopInv
  <2> QED BY <1>1, <1>2, <2>2
<1> QED BY <1>1, <1>2, <1>3, <1>5

\* No thread ticks when a loop begins to.
LEMMA SleepingIsQuiet ==
  ASSUME TickInv, NEW l \in Loops, loops[l].state = "sleep", Without(TickRaces)
  PROVE  \A t \in Ticks : ticks[t].pc = "none"
<1> SUFFICES ASSUME NEW t \in Ticks, ticks[t].pc # "none" PROVE FALSE
  OBVIOUS
<1>1. ticks[t].loop = task /\ loops[ticks[t].loop].state = "tick"
  BY TickOfTheRun DEF TickInv, Awaited
<1>2. task = l
  BY FewerRaces DEF TickInv, LoopInv, NoOrphanLoop, Races, Alive
<1> QED BY <1>1, <1>2

LEMMA TickInvInit == Init => TickInv
<1> SUFFICES ASSUME Init PROVE TickInv
  OBVIOUS
<1>1. \A t \in Ticks : ticks[t].pc = "none"
  BY DEF Init, NoTick
<1> QED BY <1>1, LoopInvInit DEF TickInv, Awaited

LEMMA TickInvStep == TickInv /\ [Next]_vars => TickInv'
<1> SUFFICES ASSUME TickInv, [Next]_vars PROVE TickInv'
  OBVIOUS
<1>t. LoopInv /\ LoopInv' /\ TInv /\ TInv'
  BY LoopInvStep DEF TickInv, LoopInv
<1>r. /\ runs \in Objects \cup {NoObject} /\ loops \in LoopsType /\ ticks \in TicksType
  BY <1>t DEF TInv, TypeOK, LoopsType, TicksType
<1>1. CASE Start
  <2>1. PICK x \in Objects, auto \in BOOLEAN :
          IF auto THEN BeginLoop(x) ELSE UNCHANGED <<loops, task>>
    BY <1>1, ChosenObject DEF Start, FreeObjects
  <2>2. UNCHANGED <<ticks, disturbed>>
    BY <1>1 DEF Start
  <2>3. \A l \in Loops : loops[l].state = "tick" => loops'[l] = loops[l]
    BY <1>t, <2>1, BeginLoopSpares
  <2> QED BY <1>t, <2>2, <2>3, TicksUntouched DEF Without
<1>2. CASE Stop \/ StopFails
  <2>1. CancelTask
    BY <1>2 DEF Stop, StopFails, Unregister
  <2>2. Without(TickRaces)' => Without(TickRaces) /\ Late \cap TickRaces = {}
    BY <1>2, NotesStay DEF Stop, StopFails
  <2>3. Without(TickRaces)' => \A t \in Ticks : ticks'[t].pc = "none"
    BY <2>1, <2>2, CancelQuiet, LateIsTicking DEF TickRaces
  <2> QED BY <1>t, <2>3, TicksGone
<1>3. ASSUME NEW gone \in BOOLEAN, Remove(gone) PROVE TickInv'
  <2>1. CASE Registered
    <3>1. CancelTask
      BY <1>3, <2>1 DEF Remove, Unregister
    <3>2. Without(TickRaces)' => Without(TickRaces) /\ Late \cap TickRaces = {}
      BY <1>3, <2>1, NotesStay DEF Remove
    <3>3. Without(TickRaces)' => \A t \in Ticks : ticks'[t].pc = "none"
      BY <3>1, <3>2, CancelQuiet, LateIsTicking DEF TickRaces
    <3> QED BY <1>t, <3>3, TicksGone
  <2>2. CASE ~Registered
    <3>1. UNCHANGED <<loops, ticks>>
      BY <1>3, <2>2 DEF Remove
    <3>2. Without(TickRaces)' => Without(TickRaces)
      BY <1>3, <2>2, NotesStay DEF Remove
    <3> QED BY <1>t, <3>1, <3>2, TicksUntouched
  <2> QED BY <2>1, <2>2
<1>4. CASE Unarchive \/ Acknowledge
  <2>1. UNCHANGED <<loops, ticks, disturbed>>
    BY <1>4 DEF Unarchive, Acknowledge
  <2> QED BY <1>t, <2>1, TicksUntouched DEF Without
<1>5. CASE Activate
  <2>1. PICK x \in Objects : IF row.auto THEN BeginLoop(x) ELSE UNCHANGED <<loops, task>>
    BY <1>5, ChosenObject DEF Activate, FreeObjects
  <2>2. UNCHANGED ticks
    BY <1>5 DEF Activate
  <2>3. \A l \in Loops : loops[l].state = "tick" => loops'[l] = loops[l]
    BY <1>t, <2>1, BeginLoopSpares
  <2>4. Without(TickRaces)' => Without(TickRaces)
    BY <1>5, NotesStay DEF Activate
  <2> QED BY <1>t, <2>2, <2>3, <2>4, TicksUntouched
<1>6. CASE Pause
  <2>1. Without(TickRaces)' => Without(TickRaces) /\ Late \cap TickRaces = {}
    BY <1>6, NotesStay DEF Pause
  <2>2. CASE LiveTask
    <3>1. CancelTask
      BY <1>6, <2>2 DEF Pause
    <3>2. Without(TickRaces)' => \A t \in Ticks : ticks'[t].pc = "none"
      BY <2>1, <3>1, CancelQuiet, LateIsTicking DEF TickRaces
    <3> QED BY <1>t, <3>2, TicksGone
  <2>3. CASE ~LiveTask
    <3>1. UNCHANGED <<loops, ticks>>
      BY <1>6, <2>3 DEF Pause
    <3> QED BY <1>t, <2>1, <3>1, TicksUntouched
  <2> QED BY <2>2, <2>3
<1>7. CASE Resume
  <2>1. UNCHANGED ticks
    BY <1>7 DEF Resume
  <2>2. Without(TickRaces)' => Without(TickRaces)
    BY <1>7, NotesStay DEF Resume
  <2>3. \A l \in Loops : loops[l].state = "tick" => loops'[l] = loops[l]
    <3>1. CASE LiveTask
      BY <1>7, <3>1 DEF Resume
    <3>2. CASE ~LiveTask
      <4>1. BeginLoop(runs) /\ runs \in Objects
        BY <1>7, <1>r, <3>2 DEF Resume, Registered
      <4> QED BY <1>t, <4>1, BeginLoopSpares
    <3> QED BY <3>1, <3>2
  <2> QED BY <1>t, <2>1, <2>2, <2>3, TicksUntouched
<1>8. CASE StartFires
  <2>1. UNCHANGED <<ticks, disturbed>>
    BY <1>8 DEF StartFires
  <2>2. \A l \in Loops : loops[l].state = "tick" => loops'[l] = loops[l]
    <3>1. CASE Registered
      <4>1. BeginLoop(runs) /\ runs \in Objects
        BY <1>8, <1>r, <3>1 DEF StartFires, Registered
      <4> QED BY <1>t, <4>1, BeginLoopSpares
    <3>2. CASE ~Registered
      BY <1>8, <3>2 DEF StartFires
    <3> QED BY <3>1, <3>2
  <2> QED BY <1>t, <2>1, <2>2, TicksUntouched DEF Without
<1>9. CASE Watchdog
  <2>1. UNCHANGED ticks /\ BeginLoop(runs) /\ runs \in Objects
    BY <1>9, <1>r DEF Watchdog, Registered
  <2>2. Without(TickRaces)' => Without(TickRaces)
    BY <1>9, NotesStay DEF Watchdog
  <2> QED BY <1>t, <2>1, <2>2, BeginLoopSpares, TicksUntouched
<1>10. CASE Recover \/ RecoverFails
  <2>1. UNCHANGED <<loops, ticks>>
    BY <1>10 DEF Recover, RecoverReads, RecoverRegisters, RecoverStarts, RecoverFails
  <2>2. Without(TickRaces)' => Without(TickRaces)
    BY <1>10, NotesStay
    DEF Recover, RecoverReads, RecoverRegisters, RecoverStarts, RecoverFails, Without
  <2> QED BY <1>t, <2>1, <2>2, TicksUntouched
<1>11. CASE Crash
  <2>1. \A t \in Ticks : ticks'[t].pc = "none"
    BY <1>11 DEF Crash, NoTick
  <2> QED BY <1>t, <2>1, TicksGone
<1>12. ASSUME NEW l \in Loops, LoopTicks(l) PROVE TickInv'
  <2>1. PICK t \in Ticks :
          ticks' = [ticks EXCEPT ![t] = [pc |-> "decide", of |-> loops[l].of, loop |-> l, want |-> 0]]
    BY <1>12, ChosenTick DEF LoopTicks, FreeTicks
  <2>2. /\ loops' = [loops EXCEPT ![l].state = "tick"] /\ loops[l].state = "sleep"
        /\ UNCHANGED disturbed
    BY <1>12 DEF LoopTicks
  <2>3. /\ ticks'[t].loop = l /\ ticks'[t].of = loops[l].of
        /\ \A u \in Ticks : u # t => ticks'[u] = ticks[u]
        /\ loops'[l].state = "tick" /\ loops'[l].of = loops[l].of
    BY <2>1, <2>2, <1>r DEF LoopsType, TicksType
  <2>4. Without(TickRaces)' => \A u \in Ticks : ticks[u].pc = "none"
    BY <2>2, SleepingIsQuiet DEF Without
  <2> QED BY <1>t, <2>3, <2>4 DEF TickInv, Awaited
<1>13. ASSUME NEW l \in Loops, LoopDies(l) PROVE TickInv'
  <2>1. loops' = Ended(l) /\ loops[l].state = "sleep" /\ UNCHANGED <<ticks, disturbed>>
    BY <1>13 DEF LoopDies
  <2>2. \A k \in Loops : loops[k].state = "tick" => loops'[k] = loops[k]
    BY <1>t, <2>1, EndedIs
  <2> QED BY <1>t, <2>1, <2>2, TicksUntouched DEF Without
<1>14. ASSUME NEW l \in Loops, LoopResumes(l) PROVE TickInv'
  <2>1. Without(TickRaces)' => Without(TickRaces)
    BY <1>14, NotesStay DEF LoopResumes
  <2>2. Without(TickRaces)' => \A t \in Ticks : ticks'[t].pc = "none"
    BY <1>14, <2>1, ResumeQuiet
  <2> QED BY <1>t, <2>2, TicksGone
<1>15. ASSUME NEW t \in Ticks, TickStep(t) \/ TickFails(t) PROVE TickInv'
  <2>1. UNCHANGED <<loops, disturbed>> /\ ticks[t].pc # "none"
    BY <1>15 DEF TickStep, TickDecides, TickTrades, TickSaves, TickFails
  <2>2. /\ \A u \in Ticks : u # t => ticks'[u] = ticks[u]
        /\ ticks[t].loop # NoLoop => ticks'[t].loop = ticks[t].loop /\ ticks'[t].of = ticks[t].of
    <3>1. CASE TickDecides(t)
      BY <3>1, <1>r DEF TickDecides, TicksType
    <3>2. CASE TickTrades(t) \/ TickFails(t)
      BY <3>2, <1>r DEF TickTrades, TickFails, TicksType
    <3>3. CASE TickSaves(t)
      BY <3>3, <1>r DEF TickSaves, TicksType
    <3> QED BY <1>15, <3>1, <3>2, <3>3 DEF TickStep
  <2>3. Without(TickRaces)' => Without(TickRaces)
    BY <2>1 DEF Without
  <2> QED BY <1>t, <2>1, <2>2, <2>3, SupervisorAssumption DEF TickInv, Awaited
<1>16. CASE UNCHANGED vars
  <2>1. UNCHANGED <<loops, ticks, disturbed>>
    BY <1>16 DEF vars
  <2> QED BY <1>t, <2>1, TicksUntouched DEF Without
<1>17. CASE Archive \/ Delete
  BY <1>17, <1>3 DEF Archive, Delete
<1> QED
  BY <1>1, <1>2, <1>4, <1>5, <1>6, <1>7, <1>8, <1>9, <1>10, <1>11, <1>12, <1>13, <1>14,
     <1>15, <1>16, <1>17
  DEF Next, Routes

\* But for those races and for a stop or a pause while a tick is under way,
\* one thread at a time decides for a run.
THEOREM OneTick == Spec => []OneDecider
<1>1. TickInv => OneDecider
  BY DEF TickInv, Awaited, TickRaces, Races, OneDecider, Busy
<1> QED BY TickInvInit, TickInvStep, <1>1, PTL DEF Spec

-----------------------------------------------------------------------------
(* The row.                                                                *)

RowRaces == {"activated", "halfStopped", "removedEarly", "unrecovered"}

\* A run runs with its row, but while the recovery has yet to bring it back.
RowFollows ==
  Without(RowRaces) =>
    /\ row.status = "running" => ~row.archived
    /\ recovery.pc \in {"start", "done"} => (Registered <=> row.status = "running")
    /\ recovery.pc \in {"check", "rebuild"} => row.status = "running"

RowInv == LoopInv /\ RowFollows

\* A step that leaves the run and the recovery where they are.
LEMMA RowKept ==
  ASSUME RowInv, LoopInv', UNCHANGED <<runs, recovery>>, row'.status = row.status,
         row.status = "running" => row'.archived = row.archived,
         Without(RowRaces)' => Without(RowRaces)
  PROVE  RowInv'
BY DEF RowInv, RowFollows, Registered

\* A run that goes with its row, once the recovery is through with it.
LEMMA RowGone ==
  ASSUME RowInv, LoopInv', runs' = NoObject, UNCHANGED recovery, row'.status # "running",
         Without(RowRaces)' => ~Unrecovered
  PROVE  RowInv'
BY DEF RowInv, RowFollows, Registered, Unrecovered

\* A run that comes with its row.
LEMMA RowComes ==
  ASSUME RowInv, LoopInv', runs' \in Objects, row'.status = "running", ~row'.archived
  PROVE  RowInv'
BY SupervisorAssumption DEF RowInv, RowFollows, Registered

LEMMA EarlyIsUnrecovered ==
  ASSUME NEW S, StoppedEarly \cap S = {}, "removedEarly" \in S
  PROVE  ~Unrecovered
BY DEF StoppedEarly

LEMMA RowInvInit == Init => RowInv
BY LoopInvInit DEF Init, RowInv, RowFollows, Registered

LEMMA RowInvStep == RowInv /\ [Next]_vars => RowInv'
<1> SUFFICES ASSUME RowInv, [Next]_vars PROVE RowInv'
  OBVIOUS
<1>t. LoopInv /\ LoopInv' /\ TInv
  BY LoopInvStep DEF RowInv, LoopInv
<1>r. /\ row \in RowType /\ runs \in Objects \cup {NoObject} /\ recovery \in RecoveryType
      /\ object \in ObjectType
  BY <1>t DEF TInv, TypeOK, RowType, RecoveryType, ObjectType
<1>1. CASE Start
  <2>1. PICK x \in Objects, auto \in BOOLEAN :
          /\ row' = [status |-> "running", archived |-> FALSE, auto |-> auto, book |-> 0]
          /\ runs' = x
    BY <1>1, ChosenObject DEF Start, FreeObjects
  <2> QED BY <1>t, <2>1, RowComes
<1>2. CASE Stop
  <2>1. runs' = NoObject /\ row'.status = "stopped" /\ UNCHANGED recovery
    BY <1>2, <1>r DEF Stop, Unregister, StoppedRow, RowType
  <2>2. Without(RowRaces)' => ~Unrecovered
    BY <1>2, NotesStay, EarlyIsUnrecovered DEF Stop, RowRaces
  <2> QED BY <1>t, <2>1, <2>2, RowGone
<1>3. CASE StopFails
  <2>1. ~Without(RowRaces)'
    BY <1>3, NotesStay DEF StopFails, RowRaces
  <2> QED BY <1>t, <2>1 DEF RowInv, RowFollows
<1>4. ASSUME NEW gone \in BOOLEAN, Remove(gone) PROVE RowInv'
  <2>1. UNCHANGED recovery
    BY <1>4 DEF Remove
  <2>2. runs' = NoObject
    BY <1>4 DEF Remove, Unregister, Registered
  <2>3. Without(RowRaces)' => Without(RowRaces) /\ ~Unrecovered
    <3>1. CASE Registered
      BY <1>4, <3>1, NotesStay, EarlyIsUnrecovered DEF Remove, RowRaces
    <3>2. CASE ~Registered
      BY <1>4, <3>2, NotesStay, EarlyIsUnrecovered DEF Remove, RowRaces
    <3> QED BY <3>1, <3>2
  <2>4. Without(RowRaces)' => row'.status # "running"
    <3>1. CASE Registered
      <4>1. StoppedRow \in RowType /\ StoppedRow.status = "stopped"
        BY <1>r, <3>1 DEF StoppedRow, Registered, RowType, ObjectType
      <4>2. row' = IF gone THEN [StoppedRow EXCEPT !.status = "deleted"]
                   ELSE [StoppedRow EXCEPT !.archived = TRUE]
        BY <1>4, <3>1 DEF Remove
      <4> QED BY <4>1, <4>2 DEF RowType
    <3>2. CASE ~Registered
      <4>1. row' = IF gone THEN [row EXCEPT !.status = "deleted"]
                   ELSE [row EXCEPT !.archived = TRUE]
        BY <1>4, <3>2 DEF Remove
      <4>2. Without(RowRaces)' => row.status # "running"
        BY <2>3, <3>2, <1>r DEF RowInv, RowFollows, Unrecovered, RecoveryType
      <4> QED BY <4>1, <4>2, <1>r DEF RowType
    <3> QED BY <3>1, <3>2
  <2> QED BY <1>t, <2>1, <2>2, <2>3, <2>4 DEF RowInv, RowFollows, Registered, Unrecovered
<1>5. CASE Unarchive
  <2>1. UNCHANGED <<runs, recovery, disturbed>> /\ row'.status = row.status
        /\ ~row'.archived
    BY <1>5, <1>r DEF Unarchive, RowType
  <2> QED BY <1>t, <2>1 DEF RowInv, RowFollows, Registered, Without
<1>6. CASE Activate
  <2>1. PICK x \in Objects : row' = [row EXCEPT !.status = "running"] /\ runs' = x
    BY <1>6, ChosenObject DEF Activate, FreeObjects
  <2>2. row'.status = "running" /\ ~row'.archived
    BY <1>6, <1>r, <2>1 DEF Activate, RowType
  <2> QED BY <1>t, <2>1, <2>2, RowComes
<1>7. CASE Pause \/ Resume \/ Acknowledge \/ StartFires \/ Watchdog
  <2>1. UNCHANGED <<runs, recovery>>
    BY <1>7 DEF Pause, Resume, Acknowledge, StartFires, Watchdog
  <2>2. row'.status = row.status /\ row'.archived = row.archived
    BY <1>7, <1>r DEF Pause, Resume, Acknowledge, StartFires, Watchdog, RowType
  <2>3. Without(RowRaces)' => Without(RowRaces)
    BY <1>7, NotesStay DEF Pause, Resume, Acknowledge, StartFires, Watchdog, Without
  <2> QED BY <1>t, <2>1, <2>2, <2>3, RowKept
<1>8. CASE RecoverReads
  <2>1. UNCHANGED <<row, runs, disturbed>> /\ recovery.pc = "check"
    BY <1>8 DEF RecoverReads
  <2>2. CASE Registered \/ row.status = "deleted"
    <3>1. recovery'.pc = "done"
      BY <1>8, <1>r, <2>2 DEF RecoverReads, RecoveryType
    <3> QED BY <1>t, <2>1, <2>2, <3>1 DEF RowInv, RowFollows, Registered, Without
  <2>3. CASE ~(Registered \/ row.status = "deleted")
    <3>1. recovery'.pc = "rebuild"
      BY <1>8, <2>3 DEF RecoverReads
    <3> QED BY <1>t, <2>1, <3>1 DEF RowInv, RowFollows, Registered, Without
  <2> QED BY <2>2, <2>3
<1>9. CASE RecoverRegisters
  <2>1. UNCHANGED <<row, disturbed>> /\ runs' = recovery.of /\ recovery.pc = "rebuild"
        /\ recovery'.pc \in {"start", "done"}
    BY <1>9 DEF RecoverRegisters
  <2>2. recovery.of \in Objects
    BY <1>t, <2>1 DEF TInv, Attached
  <2> QED BY <1>t, <2>1, <2>2, SupervisorAssumption DEF RowInv, RowFollows, Registered, Without
<1>10. CASE RecoverStarts
  <2>1. UNCHANGED <<row, runs, disturbed>> /\ recovery.pc = "start" /\ recovery'.pc = "done"
    BY <1>10, <1>r DEF RecoverStarts, RecoveryType
  <2> QED BY <1>t, <2>1 DEF RowInv, RowFollows, Registered, Without
<1>11. CASE RecoverFails
  <2>1. ~Without(RowRaces)'
    BY <1>11, NotesStay DEF RecoverFails, RowRaces
  <2> QED BY <1>t, <2>1 DEF RowInv, RowFollows
<1>12. CASE Crash
  <2>1. UNCHANGED row /\ runs' = NoObject
        /\ recovery'.pc = IF row.status = "running" THEN "check" ELSE "done"
    BY <1>12 DEF Crash
  <2>2. Without(RowRaces)' => Without(RowRaces)
    BY <1>12, NotesStay DEF Crash
  <2> QED BY <1>t, <2>1, <2>2 DEF RowInv, RowFollows, Registered
<1>13. ASSUME NEW l \in Loops, LoopTicks(l) \/ LoopDies(l) PROVE RowInv'
  <2>1. UNCHANGED <<row, runs, recovery, disturbed>>
    BY <1>13 DEF LoopTicks, LoopDies
  <2> QED BY <1>t, <2>1, RowKept DEF Without
<1>14. ASSUME NEW l \in Loops, LoopResumes(l) PROVE RowInv'
  <2>1. UNCHANGED recovery
    BY <1>14 DEF LoopResumes
  <2>2. Without(RowRaces)' => Without(RowRaces)
    BY <1>14, NotesStay DEF LoopResumes
  <2>3. CASE Completed(loops[l].of) /\ Registered
    <3>1. runs' = NoObject /\ row' = StoppedRow
      BY <1>14, <2>3 DEF LoopResumes
    <3>2. Without(RowRaces)' => ~Unrecovered
      BY <1>14, <2>3, NotesStay, EarlyIsUnrecovered DEF LoopResumes, RowRaces
    <3>3. row'.status # "running"
      BY <3>1, <1>r DEF StoppedRow, RowType
    <3> QED BY <1>t, <2>1, <3>1, <3>2, <3>3, RowGone
  <2>4. CASE ~(Completed(loops[l].of) /\ Registered)
    <3>1. UNCHANGED <<row, runs>>
      BY <1>14, <2>4 DEF LoopResumes, Registered
    <3> QED BY <1>t, <2>1, <2>2, <3>1, RowKept
  <2> QED BY <2>3, <2>4
<1>15. ASSUME NEW t \in Ticks, TickStep(t) \/ TickFails(t) PROVE RowInv'
  <2>1. UNCHANGED <<runs, recovery, disturbed>>
    BY <1>15 DEF TickStep, TickDecides, TickTrades, TickSaves, TickFails
  <2>2. row'.status = row.status /\ row'.archived = row.archived
    BY <1>15, <1>r DEF TickStep, TickDecides, TickTrades, TickSaves, TickFails, Save, RowType
  <2> QED BY <1>t, <2>1, <2>2, RowKept DEF Without
<1>16. CASE UNCHANGED vars
  <2>1. UNCHANGED <<row, runs, recovery, disturbed>>
    BY <1>16 DEF vars
  <2> QED BY <1>t, <2>1, RowKept DEF Without
<1>17. CASE Archive \/ Delete
  BY <1>17, <1>4 DEF Archive, Delete
<1> QED
  BY <1>1, <1>2, <1>3, <1>5, <1>6, <1>7, <1>8, <1>9, <1>10, <1>11, <1>12, <1>13, <1>14,
     <1>15, <1>16, <1>17
  DEF Next, Routes, Recover

\* But for an activation or a removal beside the recovery and for a stop or a
\* recovery that fails, the database says that a run runs exactly when the
\* manager has it, and no archived run does.
THEOREM RowIsRight == Spec => []RowTellsTheTruth
<1>1. RowInv => RowTellsTheTruth
  BY DEF RowInv, RowFollows, RowRaces, RowTellsTheTruth
<1> QED BY RowInvInit, RowInvStep, <1>1, PTL DEF Spec

-----------------------------------------------------------------------------
(* The account.                                                            *)

BookRaces == TickRaces \cup RowRaces \cup {"unguarded", "crash"}

\* The run, or what the recovery makes of it, has in its book what the account
\* holds, and so has the saved row but for the thread that is about to save.
BookFollows ==
  Without(BookRaces) =>
    /\ Registered => account = object[runs].book
    /\ recovery.pc = "rebuild" => account = object[recovery.of].book
    /\ ~Registered /\ recovery.pc \in {"start", "done"} => account = 0
    /\ (\A t \in Ticks : ticks[t].pc # "save") => row.book = account
    /\ \A t \in Ticks : ticks[t].pc = "order" =>
         \/ ticks[t].want = 1
         \/ object[ticks[t].of].book > 0 /\ ticks[t].want = -object[ticks[t].of].book

BookInv == TickInv /\ RowInv /\ BookFollows

LEMMA FewerBookRaces ==
  Without(BookRaces) => Without(TickRaces) /\ Without(Races) /\ Without(RowRaces)
BY DEF Without, BookRaces, TickRaces

\* A step that touches no book and no thread.
LEMMA BooksKept ==
  ASSUME BookInv, TickInv', RowInv', UNCHANGED <<runs, recovery, account, ticks>>,
         row'.book = row.book, \A x \in Objects : object'[x].book = object[x].book,
         Without(BookRaces)' => Without(BookRaces)
  PROVE  BookInv'
<1>1. /\ runs \in Objects \cup {NoObject}
      /\ recovery.pc = "rebuild" => recovery.of \in Objects
      /\ \A t \in Ticks : ticks[t].pc # "none" => ticks[t].of \in Objects
  BY DEF BookInv, TickInv, LoopInv, TInv, TypeOK, Attached
<1> QED BY <1>1 DEF BookInv, BookFollows, Registered

\* A run that goes with an empty book.
LEMMA BookGone ==
  ASSUME BookInv, TickInv', RowInv', UNCHANGED <<account, recovery>>, runs' = NoObject,
         Without(BookRaces)' => /\ Without(BookRaces) /\ ~Unrecovered
                                /\ account = 0 /\ row'.book = 0
                                /\ \A t \in Ticks : ticks'[t].pc = "none"
  PROVE  BookInv'
BY DEF BookInv, BookFollows, Registered, Unrecovered

\* A run that comes with the book of its row.
LEMMA BookComes ==
  ASSUME BookInv, TickInv', RowInv', UNCHANGED <<account, recovery, ticks>>,
         runs' \in Objects, object'[runs'].book = row'.book,
         Without(BookRaces)' => /\ row'.book = account /\ recovery.pc # "rebuild"
                                /\ \A t \in Ticks : ticks[t].pc = "none"
  PROVE  BookInv'
BY SupervisorAssumption DEF BookInv, BookFollows, Registered

\* Nobody ticks while nobody has the run.
LEMMA UnregisteredIsQuiet ==
  ASSUME BookInv, Without(BookRaces), runs = NoObject
  PROVE  \A t \in Ticks : ticks[t].pc = "none"
BY FewerBookRaces, TickOfTheRun, SupervisorAssumption DEF BookInv

LEMMA BookInvInit == Init => BookInv
<1> SUFFICES ASSUME Init PROVE BookInv
  OBVIOUS
<1>1. \A t \in Ticks : ticks[t].pc = "none"
  BY DEF Init, NoTick
<1>2. BookFollows
  BY <1>1 DEF Init, BookFollows, Registered
<1> QED BY <1>2, TickInvInit, RowInvInit DEF BookInv

LEMMA BookInvStep == BookInv /\ [Next]_vars => BookInv'
<1> SUFFICES ASSUME BookInv, [Next]_vars PROVE BookInv'
  OBVIOUS
<1>t. TickInv /\ TickInv' /\ RowInv /\ RowInv' /\ LoopInv /\ TInv
  BY TickInvStep, RowInvStep DEF BookInv, RowInv, LoopInv
<1>r. /\ row \in RowType /\ runs \in Objects \cup {NoObject} /\ recovery \in RecoveryType
      /\ object \in ObjectType /\ ticks \in TicksType /\ account \in Int
      /\ row' \in RowType
      /\ \A t \in Ticks : ticks[t].pc # "none" => ticks[t].of \in Objects
  BY <1>t DEF TInv, TypeOK, RowType, RecoveryType, ObjectType, TicksType, TickInv, LoopInv, Attached
<1>1. CASE Start
  <2>1. PICK x \in Objects, auto \in BOOLEAN :
          /\ row' = [status |-> "running", archived |-> FALSE, auto |-> auto, book |-> 0]
          /\ runs' = x /\ NewRun(x, auto, 0)
    BY <1>1, ChosenObject DEF Start, FreeObjects
  <2>2. UNCHANGED <<account, recovery, ticks, disturbed>> /\ runs = NoObject
        /\ recovery.pc = "done"
    BY <1>1, <1>t DEF Start, LoopInv, NotYetStarted
  <2>3. object'[runs'].book = row'.book /\ row'.book = 0
    BY <1>t, <2>1, NewRunIs
  <2>4. Without(BookRaces)' => Without(BookRaces)
    BY <2>2 DEF Without
  <2>5. Without(BookRaces) => account = 0
    BY <2>2 DEF BookInv, BookFollows, Registered
  <2> QED BY <1>t, <2>1, <2>2, <2>3, <2>4, <2>5, UnregisteredIsQuiet, BookComes
<1>2. CASE Stop
  <2>1. CancelTask /\ runs' = NoObject /\ row' = StoppedRow /\ UNCHANGED <<account, recovery>>
        /\ object[runs].book = 0 /\ Registered
    BY <1>2 DEF Stop, Unregister
  <2>2. row'.book = 0
    BY <1>r, <2>1 DEF StoppedRow, RowType
  <2>3. Without(BookRaces)' => Without(BookRaces) /\ ~Unrecovered /\ ~Ticking(runs)
    BY <1>2, NotesStay, EarlyIsUnrecovered, LateIsTicking
    DEF Stop, BookRaces, RowRaces, TickRaces
  <2>4. Without(BookRaces) => account = 0
    BY <2>1 DEF BookInv, BookFollows
  <2>5. Without(BookRaces)' => \A t \in Ticks : ticks'[t].pc = "none"
    BY <1>t, <2>1, <2>3, CancelQuiet, FewerBookRaces
  <2> QED BY <1>t, <2>1, <2>2, <2>3, <2>4, <2>5, BookGone
<1>3. CASE StopFails
  <2>1. ~Without(BookRaces)'
    BY <1>3, NotesStay DEF StopFails, BookRaces, RowRaces
  <2> QED BY <1>t, <2>1 DEF BookInv, BookFollows
<1>4. ASSUME NEW gone \in BOOLEAN, Remove(gone) PROVE BookInv'
  <2>1. UNCHANGED <<object, account, recovery>> /\ runs' = NoObject
    BY <1>4 DEF Remove, Unregister, Registered
  <2>2. CASE Registered
    <3>1. CancelTask
      BY <1>4, <2>2 DEF Remove, Unregister
    <3>2. Note(Late \cup StoppedEarly \cup IF object[runs].book = 0 THEN {} ELSE {"unguarded"})
      BY <1>4, <2>2 DEF Remove
    <3>3. Without(BookRaces)' => /\ Without(BookRaces) /\ ~Unrecovered /\ ~Ticking(runs)
                                 /\ object[runs].book = 0
      <4> SUFFICES ASSUME Without(BookRaces)'
                   PROVE  /\ Without(BookRaces) /\ ~Unrecovered /\ ~Ticking(runs)
                          /\ object[runs].book = 0
        OBVIOUS
      <4>1. Without(BookRaces)
            /\ (Late \cup StoppedEarly \cup IF object[runs].book = 0 THEN {} ELSE {"unguarded"})
                 \cap BookRaces = {}
        BY <3>2, NotesStay
      <4>2. ~Unrecovered /\ ~Ticking(runs)
        BY <4>1 DEF Late, StoppedEarly, BookRaces, RowRaces, TickRaces
      <4>3. object[runs].book = 0
        BY <4>1 DEF BookRaces
      <4> QED BY <4>1, <4>2, <4>3
    <3>4. Without(BookRaces)' => account = 0
      BY <2>2, <3>3 DEF BookInv, BookFollows
    <3>5. Without(BookRaces)' => row'.book = 0
      <4>1. StoppedRow \in RowType /\ StoppedRow.book = object[runs].book
        BY <1>r, <2>2 DEF StoppedRow, Registered, RowType, ObjectType
      <4>2. row' = IF gone THEN [StoppedRow EXCEPT !.status = "deleted"]
                   ELSE [StoppedRow EXCEPT !.archived = TRUE]
        BY <1>4, <2>2 DEF Remove
      <4>3. row'.book = StoppedRow.book
        BY <4>1, <4>2 DEF RowType
      <4> QED BY <3>3, <4>1, <4>3
    <3>6. Without(BookRaces)' => \A t \in Ticks : ticks'[t].pc = "none"
      BY <1>t, <3>1, <3>3, CancelQuiet, FewerBookRaces
    <3> QED BY <1>t, <2>1, <3>3, <3>4, <3>5, <3>6, BookGone
  <2>3. CASE ~Registered
    <3>1. row'.book = row.book
      BY <1>4, <1>r, <2>3 DEF Remove, RowType
    <3>2. UNCHANGED <<runs, ticks>>
      BY <1>4, <2>3 DEF Remove
    <3>3. Without(BookRaces)' => Without(BookRaces)
      BY <1>4, <2>3, NotesStay DEF Remove
    <3> QED BY <1>t, <2>1, <3>1, <3>2, <3>3, BooksKept
  <2> QED BY <2>2, <2>3
<1>5. CASE Unarchive \/ StartFires
  <2>1. UNCHANGED <<runs, recovery, account, ticks, object, disturbed>>
    BY <1>5 DEF Unarchive, StartFires
  <2>2. row'.book = row.book
    BY <1>5, <1>r DEF Unarchive, StartFires, RowType
  <2> QED BY <1>t, <2>1, <2>2, BooksKept DEF Without
<1>6. CASE Activate
  <2>1. PICK x \in Objects : /\ row' = [row EXCEPT !.status = "running"]
                            /\ runs' = x /\ NewRun(x, row.auto, row.book)
    BY <1>6, ChosenObject DEF Activate, FreeObjects
  <2>2. UNCHANGED <<account, recovery, ticks>> /\ runs = NoObject
    BY <1>6 DEF Activate, Registered
  <2>3. row'.book = row.book /\ object'[runs'].book = row.book
    BY <1>t, <1>r, <2>1, NewRunIs DEF RowType
  <2>4. Without(BookRaces)' => Without(BookRaces) /\ recovery.pc # "rebuild"
    <3> SUFFICES ASSUME Without(BookRaces)'
                 PROVE  Without(BookRaces) /\ recovery.pc # "rebuild"
      OBVIOUS
    <3>1. Note(Early \cup IF recovery.pc = "rebuild" THEN {"activated"} ELSE {})
      BY <1>6 DEF Activate
    <3>2. /\ Without(BookRaces)
          /\ (Early \cup IF recovery.pc = "rebuild" THEN {"activated"} ELSE {}) \cap BookRaces = {}
      BY <3>1, NotesStay
    <3> QED BY <3>2 DEF BookRaces, RowRaces
  <2>5. Without(BookRaces) => \A t \in Ticks : ticks[t].pc = "none"
    BY <2>2, UnregisteredIsQuiet
  <2>6. Without(BookRaces) => row.book = account
    BY <2>5 DEF BookInv, BookFollows
  <2> QED BY <1>t, <2>1, <2>2, <2>3, <2>4, <2>5, <2>6, BookComes
<1>7. CASE Pause
  <2>1. UNCHANGED <<runs, recovery, account>> /\ row'.book = row.book
    BY <1>7, <1>r DEF Pause, RowType
  <2>2. \A x \in Objects : object'[x].book = object[x].book
    BY <1>7, <1>r DEF Pause, ObjectType
  <2>3. Without(BookRaces)' => Without(BookRaces) /\ ~Ticking(runs)
    BY <1>7, NotesStay, LateIsTicking DEF Pause, BookRaces, TickRaces
  <2>4. CASE ~LiveTask
    <3>1. UNCHANGED ticks
      BY <1>7, <2>4 DEF Pause
    <3> QED BY <1>t, <2>1, <2>2, <2>3, <3>1, BooksKept
  <2>5. CASE LiveTask
    <3>1. CancelTask
      BY <1>7, <2>5 DEF Pause
    <3>2. Without(BookRaces)' => /\ \A t \in Ticks : ticks'[t].pc = "none"
                                 /\ \A t \in Ticks : ticks[t].pc # "save"
      BY <1>t, <2>3, <3>1, CancelQuiet, FewerBookRaces
    <3>3. recovery.pc = "rebuild" => recovery.of \in Objects
      BY <1>t DEF TInv, Attached
    <3> QED BY <1>t, <1>r, <2>1, <2>2, <2>3, <3>2, <3>3 DEF BookInv, BookFollows, Registered
  <2> QED BY <2>4, <2>5
<1>8. CASE Resume \/ Acknowledge \/ Watchdog
  <2>1. UNCHANGED <<runs, recovery, account, ticks>>
    BY <1>8 DEF Resume, Acknowledge, Watchdog
  <2>2. row'.book = row.book
    BY <1>8, <1>r DEF Resume, Acknowledge, Watchdog, RowType
  <2>3. \A x \in Objects : object'[x].book = object[x].book
    BY <1>8, <1>r DEF Resume, Acknowledge, Watchdog, ObjectType
  <2>4. Without(BookRaces)' => Without(BookRaces)
    BY <1>8, NotesStay DEF Resume, Acknowledge, Watchdog, Without
  <2> QED BY <1>t, <2>1, <2>2, <2>3, <2>4, BooksKept
<1>9. CASE RecoverReads
  <2>1. UNCHANGED <<row, runs, account, ticks, disturbed>> /\ recovery.pc = "check"
    BY <1>9 DEF RecoverReads
  <2>2. Without(BookRaces)' => Without(BookRaces)
    BY <2>1 DEF Without
  <2>3. CASE Registered \/ row.status = "deleted"
    <3>1. recovery'.pc = "done" /\ UNCHANGED object
      BY <1>9, <1>r, <2>3 DEF RecoverReads, RecoveryType
    <3>2. Without(BookRaces) => Registered
      BY <1>t, <2>1, <2>3, FewerBookRaces DEF RowInv, RowFollows
    <3> QED BY <1>t, <2>1, <2>2, <3>1, <3>2 DEF BookInv, BookFollows, Registered
  <2>4. CASE ~(Registered \/ row.status = "deleted")
    <3>1. PICK x \in Objects : /\ recovery' = [pc |-> "rebuild", of |-> x]
                               /\ NewRun(x, row.auto, row.book)
      BY <1>9, <2>4, ChosenObject DEF RecoverReads, FreeObjects
    <3>2. object'[recovery'.of].book = row.book /\ recovery'.pc = "rebuild"
      BY <1>t, <1>r, <3>1, NewRunIs DEF RowType
    <3>3. Without(BookRaces) => \A t \in Ticks : ticks[t].pc = "none"
      BY <2>4, UnregisteredIsQuiet DEF Registered
    <3> QED BY <1>t, <2>1, <2>2, <2>4, <3>2, <3>3 DEF BookInv, BookFollows, Registered
  <2> QED BY <2>3, <2>4
<1>10. CASE RecoverRegisters
  <2>1. UNCHANGED <<row, object, account, ticks, disturbed>> /\ runs' = recovery.of
        /\ recovery.pc = "rebuild" /\ recovery'.pc \in {"start", "done"}
    BY <1>10 DEF RecoverRegisters
  <2>2. recovery.of \in Objects
    BY <1>t, <2>1 DEF TInv, Attached
  <2> QED BY <1>t, <2>1, <2>2, SupervisorAssumption
          DEF BookInv, BookFollows, Registered, Without
<1>11. CASE RecoverStarts
  <2>1. UNCHANGED <<row, runs, object, account, ticks, disturbed>> /\ recovery.pc = "start"
        /\ recovery'.pc = "done"
    BY <1>11, <1>r DEF RecoverStarts, RecoveryType
  <2> QED BY <1>t, <2>1 DEF BookInv, BookFollows, Registered, Without
<1>12. CASE RecoverFails
  <2>1. ~Without(BookRaces)'
    BY <1>12, NotesStay DEF RecoverFails, BookRaces, RowRaces
  <2> QED BY <1>t, <2>1 DEF BookInv, BookFollows
<1>13. CASE Crash
  <2>1. /\ UNCHANGED <<row, account>> /\ runs' = NoObject
        /\ recovery'.pc = IF row.status = "running" THEN "check" ELSE "done"
        /\ \A t \in Ticks : ticks'[t].pc = "none"
    BY <1>13 DEF Crash, NoTick
  <2>2. Without(BookRaces)' => /\ Without(BookRaces)
                               /\ \A t \in Ticks : ticks[t].pc # "save"
    <3> SUFFICES ASSUME Without(BookRaces)'
                 PROVE  Without(BookRaces) /\ \A t \in Ticks : ticks[t].pc # "save"
      OBVIOUS
    <3>1. Note(IF \E t \in Ticks : ticks[t].pc \in {"order", "save"} THEN {"crash"} ELSE {})
      BY <1>13 DEF Crash
    <3>2. /\ Without(BookRaces)
          /\ (IF \E t \in Ticks : ticks[t].pc \in {"order", "save"} THEN {"crash"} ELSE {})
               \cap BookRaces = {}
      BY <3>1, NotesStay
    <3> QED BY <3>2 DEF BookRaces
  <2>3. Without(BookRaces)' => row.book = account
    BY <2>2 DEF BookInv, BookFollows
  <2>4. Without(BookRaces) /\ row.status # "running" => account = 0
    <3> SUFFICES ASSUME Without(BookRaces), row.status # "running" PROVE account = 0
      OBVIOUS
    <3>1. ~Registered /\ recovery.pc \in {"start", "done"}
      BY <1>t, <1>r, FewerBookRaces DEF RowInv, RowFollows, RecoveryType
    <3> QED BY <3>1 DEF BookInv, BookFollows
  <2> QED BY <1>t, <2>1, <2>2, <2>3, <2>4 DEF BookInv, BookFollows, Registered
<1>14. ASSUME NEW l \in Loops, LoopTicks(l) PROVE BookInv'
  <2>1. PICK t \in Ticks :
          ticks' = [ticks EXCEPT ![t] = [pc |-> "decide", of |-> loops[l].of, loop |-> l, want |-> 0]]
    BY <1>14, ChosenTick DEF LoopTicks, FreeTicks
  <2>2. UNCHANGED <<row, runs, object, recovery, account, disturbed>> /\ loops[l].state = "sleep"
    BY <1>14 DEF LoopTicks
  <2>3. Without(BookRaces) => \A u \in Ticks : ticks[u].pc = "none"
    BY <1>t, <2>2, SleepingIsQuiet, FewerBookRaces
  <2>4. \A u \in Ticks : ticks'[u].pc \in {"decide", ticks[u].pc}
    BY <1>r, <2>1 DEF TicksType
  <2> QED BY <1>t, <2>2, <2>3, <2>4 DEF BookInv, BookFollows, Registered, Without
<1>15. ASSUME NEW l \in Loops, LoopDies(l) PROVE BookInv'
  <2>1. UNCHANGED <<row, runs, object, ticks, recovery, account, disturbed>>
    BY <1>15 DEF LoopDies
  <2> QED BY <1>t, <2>1, BooksKept DEF Without
<1>16. ASSUME NEW l \in Loops, LoopResumes(l) PROVE BookInv'
  <2>1. UNCHANGED <<object, recovery, account>>
    BY <1>16 DEF LoopResumes
  <2>2. Without(BookRaces)' => Without(BookRaces)
    BY <1>16, NotesStay DEF LoopResumes
  <2>3. Without(BookRaces)' => /\ \A t \in Ticks : ticks'[t].pc = "none"
                               /\ \A t \in Ticks : ticks[t].pc # "save"
                               /\ loops[l].of = runs
    BY <1>16, <1>t, <2>2, ResumeQuiet, FewerBookRaces
  <2>4. CASE Completed(loops[l].of) /\ Registered
    <3>1. runs' = NoObject /\ row' = StoppedRow
      BY <1>16, <2>4 DEF LoopResumes
    <3>2. Without(BookRaces)' => ~Unrecovered
      BY <1>16, <2>4, NotesStay, EarlyIsUnrecovered DEF LoopResumes, BookRaces, RowRaces
    <3>3. Without(BookRaces)' => account = 0 /\ row'.book = 0
      <4>1. StoppedRow.book = object[runs].book
        BY <1>r DEF StoppedRow, RowType
      <4> QED BY <2>2, <2>3, <2>4, <3>1, <4>1 DEF Completed, BookInv, BookFollows
    <3> QED BY <1>t, <2>1, <2>2, <2>3, <3>1, <3>2, <3>3, BookGone
  <2>5. CASE ~(Completed(loops[l].of) /\ Registered)
    <3>1. UNCHANGED <<row, runs>>
      BY <1>16, <2>5 DEF LoopResumes, Registered
    <3> QED BY <1>t, <2>1, <2>2, <2>3, <3>1 DEF BookInv, BookFollows, Registered
  <2> QED BY <2>4, <2>5
<1>17. ASSUME NEW t \in Ticks, TickDecides(t) PROVE BookInv'
  <2>1. UNCHANGED <<row, runs, recovery, account, disturbed>> /\ ticks[t].pc = "decide"
        /\ ticks[t].of \in Objects
    BY <1>17, <1>r DEF TickDecides
  <2>2. \A x \in Objects : object'[x].book = object[x].book
    <3>1. PICK done : object' = [object EXCEPT ![ticks[t].of].finished = done]
      BY <1>17 DEF TickDecides
    <3> QED BY <1>r, <2>1, <3>1 DEF ObjectType
  <2>3. /\ \A u \in Ticks : u # t => ticks'[u] = ticks[u]
        /\ ticks'[t].of = ticks[t].of
        /\ ticks'[t].pc = "order" =>
             \/ ticks'[t].want = 1
             \/ object[ticks[t].of].book > 0 /\ ticks'[t].want = -object[ticks[t].of].book
    <3> DEFINE o == object[ticks[t].of]
    <3>1. PICK want \in {0} \cup IF o.halted THEN {} ELSE IF o.book > 0 THEN {-o.book}
                              ELSE IF o.finished THEN {} ELSE {1} :
            ticks' = [ticks EXCEPT ![t].pc = IF want = 0 THEN "save" ELSE "order", ![t].want = want]
      BY <1>17 DEF TickDecides
    <3>2. want = 0 \/ want = 1 \/ (o.book > 0 /\ want = -o.book)
      BY <3>1
    <3> HIDE DEF o
    <3>3. /\ \A u \in Ticks : u # t => ticks'[u] = ticks[u]
          /\ ticks'[t].of = ticks[t].of /\ ticks'[t].want = want
          /\ ticks'[t].pc = "order" => want # 0
      BY <1>r, <3>1 DEF TicksType
    <3> QED BY <3>2, <3>3 DEF o
  <2>4. \A u \in Ticks : ticks[u].pc = "save" => ticks'[u].pc = "save"
    BY <2>1, <2>3
  <2>5. recovery.pc = "rebuild" => recovery.of \in Objects
    BY <1>t DEF TInv, Attached
  <2>6. Without(BookRaces) => \A u \in Ticks : ticks'[u].pc = "order" =>
          \/ ticks'[u].want = 1
          \/ object'[ticks'[u].of].book > 0 /\ ticks'[u].want = -object'[ticks'[u].of].book
    BY <1>r, <2>1, <2>2, <2>3 DEF BookInv, BookFollows
  <2> QED BY <1>t, <1>r, <2>1, <2>2, <2>4, <2>5, <2>6 DEF BookInv, BookFollows, Registered, Without
<1>18. ASSUME NEW t \in Ticks, TickTrades(t) PROVE BookInv'
  <2>1. UNCHANGED <<row, runs, recovery, disturbed>> /\ ticks[t].pc = "order"
        /\ ticks[t].of \in Objects /\ ticks[t].want \in Int
    BY <1>18, <1>r DEF TickTrades, TicksType
  <2>2. /\ object'[ticks[t].of].book = IF ticks[t].want > 0 THEN object[ticks[t].of].book + 1 ELSE 0
        /\ account' = account + ticks[t].want
    BY <1>18, <1>r, <2>1 DEF TickTrades, ObjectType
  <2>3. ticks'[t].pc = "save" /\ \A u \in Ticks : u # t => ticks'[u] = ticks[u]
    BY <1>18, <1>r DEF TickTrades, TicksType
  <2>4. Without(BookRaces) =>
          /\ runs = ticks[t].of /\ Registered
          /\ \A u \in Ticks : u # t => ticks[u].pc = "none"
          /\ recovery.pc # "rebuild"
    BY <1>t, <2>1, FewerBookRaces, TickOfTheRun, SupervisorAssumption
    DEF TickInv, Awaited, Registered, LoopInv, RecoveryIsAlone
  <2>5. Without(BookRaces) => account' = object'[runs'].book
    <3> SUFFICES ASSUME Without(BookRaces) PROVE account' = object'[runs'].book
      OBVIOUS
    <3>1. account = object[ticks[t].of].book /\ runs = ticks[t].of
      BY <2>4 DEF BookInv, BookFollows
    <3>2. \/ ticks[t].want = 1
          \/ object[ticks[t].of].book > 0 /\ ticks[t].want = -object[ticks[t].of].book
      BY <2>1 DEF BookInv, BookFollows
    <3> QED BY <1>r, <2>1, <2>2, <3>1, <3>2
  <2> QED BY <1>t, <2>1, <2>3, <2>4, <2>5 DEF BookInv, BookFollows, Registered, Without
<1>19. ASSUME NEW t \in Ticks, TickFails(t) PROVE BookInv'
  <2>1. UNCHANGED <<row, runs, recovery, account, disturbed>> /\ ticks[t].pc = "order"
    BY <1>19 DEF TickFails
  <2>2. \A x \in Objects : object'[x].book = object[x].book
    BY <1>19, <1>r DEF TickFails, ObjectType
  <2>3. ticks'[t].pc = "save" /\ \A u \in Ticks : u # t => ticks'[u] = ticks[u]
    BY <1>19, <1>r DEF TickFails, TicksType
  <2>4. recovery.pc = "rebuild" => recovery.of \in Objects
    BY <1>t DEF TInv, Attached
  <2> QED BY <1>t, <1>r, <2>1, <2>2, <2>3, <2>4 DEF BookInv, BookFollows, Registered, Without
<1>20. ASSUME NEW t \in Ticks, TickSaves(t) PROVE BookInv'
  <2>1. UNCHANGED <<runs, object, recovery, account, disturbed>> /\ ticks[t].pc = "save"
        /\ row' = Save(object[ticks[t].of].book)
    BY <1>20 DEF TickSaves
  <2>2. ticks'[t].pc \notin {"order", "save"} /\ \A u \in Ticks : u # t => ticks'[u] = ticks[u]
    BY <1>20, <1>r DEF TickSaves, TicksType, NoTick
  <2>3. Without(BookRaces) =>
          /\ runs = ticks[t].of /\ Registered
          /\ \A u \in Ticks : u # t => ticks[u].pc = "none"
          /\ recovery.pc # "rebuild"
    BY <1>t, <2>1, FewerBookRaces, TickOfTheRun, SupervisorAssumption
    DEF TickInv, Awaited, Registered, LoopInv, RecoveryIsAlone
  <2>4. Without(BookRaces) => row.status = "running"
    BY <1>t, <1>r, <2>3, FewerBookRaces DEF RowInv, RowFollows, RecoveryType
  <2>5. Without(BookRaces) => row'.book = account
    BY <1>r, <2>1, <2>3, <2>4 DEF Save, RowType, BookInv, BookFollows
  <2> QED BY <1>t, <2>1, <2>2, <2>3, <2>5 DEF BookInv, BookFollows, Registered, Without
<1>21. CASE UNCHANGED vars
  <2>1. UNCHANGED <<row, runs, object, ticks, recovery, account, disturbed>>
    BY <1>21 DEF vars
  <2> QED BY <1>t, <2>1, BooksKept DEF Without
<1>22. CASE Archive \/ Delete
  BY <1>22, <1>4 DEF Archive, Delete
<1> QED
  BY <1>1, <1>2, <1>3, <1>5, <1>6, <1>7, <1>8, <1>9, <1>10, <1>11, <1>12, <1>13, <1>14,
     <1>15, <1>16, <1>17, <1>18, <1>19, <1>20, <1>21, <1>22
  DEF Next, Routes, Recover, TickStep

\* But for every race and failure named, the account holds what the run that is
\* registered has in its book, and nothing when there is none.
THEOREM AccountIsBook == Spec => []BookIsAccount
<1>1. BookInv => BookIsAccount
  BY DEF BookInv, BookFollows, BookRaces, TickRaces, Races, RowRaces, BookIsAccount, Without
<1> QED BY BookInvInit, BookInvStep, <1>1, PTL DEF Spec

=============================================================================
