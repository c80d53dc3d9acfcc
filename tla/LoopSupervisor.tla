--------------------------- MODULE LoopSupervisor ---------------------------
(***************************************************************************)
(* Who decides for a deployment: LiveRunManager's start, stop, controls,   *)
(* watchdog and loop (live/manager.py), the recovery thread of the startup *)
(* (live/recovery.py) and the lifecycle routes (api/routes/live.py), for   *)
(* one run id.                                                             *)
(*                                                                         *)
(* The routes, the watchdog and the loops are callbacks of one event loop  *)
(* and each is one step.  Beside them run the tick threads, which a loop   *)
(* awaits and which go on when the loop is cancelled, and the recovery     *)
(* thread, which hands its starts over to the event loop.                  *)
(*                                                                         *)
(* Abstractions.  A book is a number of units, a decision enters one or    *)
(* leaves all; the strategy is one that sells (one that never does may be  *)
(* stopped holding).  Markets, quotes, reconciliation and the failures of  *)
(* a save are RunGate's, and so is a decision the owner asks for, which is *)
(* no tick's.  The pool always has a thread.                               *)
(***************************************************************************)
EXTENDS Integers, FiniteSets

CONSTANTS
  Objects, Loops, Ticks,    \* LiveRun objects, asyncio tasks, tick threads
  NoObject, NoLoop,
  MaxActs,                  \* bound: acts of the owner
  MaxCrashes, MaxFaults,    \* bounds: process restarts; failures
  MaxUnits,                 \* bound: units at the account, either sign
  MaxDisturbed              \* bound: kinds of races and failures that come
                            \* together

ASSUME SupervisorAssumption ==
  /\ NoObject \notin Objects /\ NoLoop \notin Loops
  /\ MaxActs \in Nat /\ MaxCrashes \in Nat /\ MaxFaults \in Nat /\ MaxUnits \in Nat
  /\ MaxDisturbed \in Nat

VARIABLES
  row,                      \* the AlgoRun in the database
  runs, task,               \* manager.runs and manager._tasks
  object,                   \* the LiveRun objects
  loops, ticks,
  starts,                   \* _start_loop_on_loop callbacks not yet run
  recovery,                 \* the recovery thread
  account,                  \* units the account holds for the run
  acts, crashes, faults,    \* bounds
  disturbed                 \* what has come between, so far

manager == <<runs, task>>
bounds == <<acts, crashes, faults>>
vars == <<row, manager, object, loops, ticks, starts, recovery, account, bounds, disturbed>>

Alive(l) == loops[l].state # "ended"
Busy(t) == ticks[t].pc \in {"decide", "order", "save"}
Ticking(x) == \E t \in Ticks : Busy(t) /\ ticks[t].of = x
Registered == runs # NoObject
LiveTask == \E l \in Loops : task = l /\ Alive(l)

FreeLoops == {l \in Loops : ~Alive(l) /\ task # l}
FreeTicks == {t \in Ticks : ticks[t].pc = "none"}
FreeObjects ==
  {x \in Objects : /\ runs # x /\ recovery.of # x
                   /\ \A l \in Loops : Alive(l) => loops[l].of # x
                   /\ \A t \in Ticks : ticks[t].pc # "none" => ticks[t].of # x}

Late == IF Ticking(runs) THEN {"late"} ELSE {}
Starting == starts > 0 \/ recovery.pc = "start"
Early == IF Starting THEN {"early"} ELSE {}
Unrecovered == recovery.pc \in {"check", "rebuild"}
StoppedEarly == IF Unrecovered THEN {"removedEarly"} ELSE {}
Note(what) ==
  /\ disturbed' = disturbed \cup what
  /\ Cardinality(disturbed') <= MaxDisturbed

OwnerActs == acts < MaxActs /\ acts' = acts + 1 /\ UNCHANGED <<crashes, faults>>
Fails == faults < MaxFaults /\ faults' = faults + 1 /\ UNCHANGED <<acts, crashes>>

-----------------------------------------------------------------------------
(* The pieces of the manager.                                              *)

Fresh == [book |-> 0, auto |-> FALSE, halted |-> FALSE, finished |-> FALSE]
NewRun(x, auto, book) ==
  object' = [object EXCEPT ![x] = [Fresh EXCEPT !.book = book, !.auto = auto]]

\* _start_loop_on_loop for the object x: whatever task there was is forgotten.
BeginLoop(x) ==
  /\ FreeLoops # {}
  /\ task' = CHOOSE l \in FreeLoops : TRUE
  /\ loops' = [loops EXCEPT ![task'] = [state |-> "sleep", of |-> x]]

NoTask == [state |-> "ended", of |-> NoObject]
NoTick == [pc |-> "none", of |-> NoObject, loop |-> NoLoop, want |-> 0]
Ended(l) == [loops EXCEPT ![l] = NoTask]

\* Nobody awaits the thread any more; it goes on.
Detached(l) ==
  [t \in Ticks |->
     IF ticks[t].loop # l THEN ticks[t]
     ELSE IF ticks[t].pc = "done" THEN NoTick
     ELSE [ticks[t] EXCEPT !.loop = NoLoop]]

CancelTask ==
  /\ task' = NoLoop
  /\ IF task = NoLoop THEN UNCHANGED <<loops, ticks>>
     ELSE loops' = Ended(task) /\ ticks' = Detached(task)

Save(book) == IF row.status = "deleted" THEN row ELSE [row EXCEPT !.book = book]

\* LiveRunManager.stop, the run's own stop included, up to the row.
Unregister ==
  /\ CancelTask
  /\ runs' = NoObject
\* Mutant of StoppedRow: the report is written, the status is not.
StoppedRowRunning == [row EXCEPT !.book = object[runs].book]

StoppedRow == [row EXCEPT !.status = "stopped", !.book = object[runs].book]

-----------------------------------------------------------------------------
(* The routes.                                                             *)

Start ==
  /\ row.status = "new" /\ OwnerActs
  /\ FreeObjects # {}
  /\ \E x \in {CHOOSE y \in FreeObjects : TRUE}, auto \in BOOLEAN :
       /\ row' = [status |-> "running", archived |-> FALSE, auto |-> auto, book |-> 0]
       /\ runs' = x
       /\ NewRun(x, auto, 0)
       /\ IF auto THEN BeginLoop(x) ELSE UNCHANGED <<loops, task>>
  /\ UNCHANGED <<ticks, starts, recovery, account, disturbed>>

\* Mutant of Stop: the loop goes on.
StopUncancelled ==
  /\ Registered /\ OwnerActs
  /\ object[runs].book = 0
  /\ task' = NoLoop /\ UNCHANGED <<loops, ticks>>
  /\ runs' = NoObject
  /\ row' = StoppedRow
  /\ Note(Late \cup StoppedEarly)
  /\ UNCHANGED <<object, starts, recovery, account>>

Stop ==
  /\ Registered /\ OwnerActs
  /\ object[runs].book = 0
  /\ Unregister
  /\ row' = StoppedRow
  /\ Note(Late \cup StoppedEarly)
  /\ UNCHANGED <<object, starts, recovery, account>>

\* The row is not written: the report or the database fails.
StopFails ==
  /\ Registered /\ Fails
  /\ object[runs].book = 0
  /\ Unregister
  /\ row' \in {row, [row EXCEPT !.book = object[runs].book]}
  /\ Note({"halfStopped"} \cup Late \cup StoppedEarly)
  /\ UNCHANGED <<object, starts, recovery, account>>

\* Archiving or deleting stops the run first, whatever it holds.
Remove(gone) ==
  /\ row.status \in {"running", "stopped"} /\ OwnerActs
  /\ LET stopped == IF Registered THEN StoppedRow ELSE row
     IN  row' = IF gone THEN [stopped EXCEPT !.status = "deleted"]
                ELSE [stopped EXCEPT !.archived = TRUE]
  /\ IF Registered
       THEN Unregister /\ Note(Late \cup StoppedEarly \cup IF object[runs].book = 0 THEN {} ELSE {"unguarded"})
       ELSE /\ UNCHANGED <<manager, loops, ticks>>
            /\ Note(StoppedEarly)
  /\ UNCHANGED <<object, starts, recovery, account>>
Archive == Remove(FALSE)
Delete == Remove(TRUE)

Unarchive ==
  /\ row.archived /\ row.status \in {"running", "stopped"} /\ OwnerActs
  /\ row' = [row EXCEPT !.archived = FALSE]
  /\ UNCHANGED <<manager, object, loops, ticks, starts, recovery, account, disturbed>>

\* Activate, reactivate and _rebuild, in one callback.
Activate ==
  /\ ~Registered /\ ~row.archived /\ row.status \in {"running", "stopped"} /\ OwnerActs
  /\ FreeObjects # {}
  /\ \E x \in {CHOOSE y \in FreeObjects : TRUE} :
       /\ row' = [row EXCEPT !.status = "running"]
       /\ runs' = x
       /\ NewRun(x, row.auto, row.book)
       /\ IF row.auto THEN BeginLoop(x) ELSE UNCHANGED <<loops, task>>
  /\ Note(Early \cup IF recovery.pc = "rebuild" THEN {"activated"} ELSE {})
  /\ UNCHANGED <<ticks, starts, recovery, account>>

\* Mutant of Pause: a loop that awaits its tick is left to end by itself.
PauseIdle ==
  /\ Registered /\ OwnerActs
  /\ object' = [object EXCEPT ![runs].auto = FALSE]
  /\ row' = (IF row.status = "deleted" THEN row ELSE [row EXCEPT !.auto = FALSE])
  /\ IF LiveTask /\ loops[task].state = "sleep" THEN CancelTask
     ELSE UNCHANGED <<task, loops, ticks>>
  /\ Note(Early \cup Late)
  /\ UNCHANGED <<runs, starts, recovery, account>>

\* update_controls, auto turned off and on.
Pause ==
  /\ Registered /\ OwnerActs
  /\ object' = [object EXCEPT ![runs].auto = FALSE]
  /\ row' = (IF row.status = "deleted" THEN row ELSE [row EXCEPT !.auto = FALSE])
  /\ IF LiveTask THEN CancelTask
     ELSE UNCHANGED <<task, loops, ticks>>
  /\ Note(Early \cup Late)
  /\ UNCHANGED <<runs, starts, recovery, account>>

\* Mutant of Resume: the loop that is there is not looked for.
ResumeAnyway ==
  /\ Registered /\ OwnerActs
  /\ object' = [object EXCEPT ![runs].auto = TRUE]
  /\ row' = (IF row.status = "deleted" THEN row ELSE [row EXCEPT !.auto = TRUE])
  /\ BeginLoop(runs)
  /\ Note(Early)
  /\ UNCHANGED <<runs, ticks, starts, recovery, account>>

Resume ==
  /\ Registered /\ OwnerActs
  /\ object' = [object EXCEPT ![runs].auto = TRUE]
  /\ row' = (IF row.status = "deleted" THEN row ELSE [row EXCEPT !.auto = TRUE])
  /\ IF LiveTask THEN UNCHANGED <<loops, task>>
     ELSE BeginLoop(runs)
  /\ Note(Early)
  /\ UNCHANGED <<runs, ticks, starts, recovery, account>>

Acknowledge ==
  /\ Registered /\ object[runs].halted
  /\ object' = [object EXCEPT ![runs].halted = FALSE]
  /\ UNCHANGED <<row, manager, loops, ticks, starts, recovery, account, bounds, disturbed>>

-----------------------------------------------------------------------------
(* The event loop's own callbacks.                                         *)

\* Mutant of StartFires: a start nobody has asked for.
StartFiresUnasked ==
  /\ starts' = starts - 1
  /\ IF Registered THEN BeginLoop(runs) ELSE UNCHANGED <<loops, task>>
  /\ UNCHANGED <<row, runs, object, ticks, recovery, account, bounds, disturbed>>

StartFires ==
  /\ starts > 0 /\ starts' = starts - 1
  /\ IF Registered THEN BeginLoop(runs) ELSE UNCHANGED <<loops, task>>
  /\ UNCHANGED <<row, runs, object, ticks, recovery, account, bounds, disturbed>>

\* Mutant of Watchdog: only a task that is missing is replaced.
WatchdogMissing ==
  /\ Registered /\ object[runs].auto
  /\ task = NoLoop
  /\ BeginLoop(runs)
  /\ Note(Early)
  /\ UNCHANGED <<row, runs, object, ticks, starts, recovery, account, bounds>>

Watchdog ==
  /\ Registered /\ object[runs].auto
  /\ ~LiveTask
  /\ BeginLoop(runs)
  /\ Note(Early)
  /\ UNCHANGED <<row, runs, object, ticks, starts, recovery, account, bounds>>

LoopTicks(l) ==
  /\ loops[l].state = "sleep" /\ FreeTicks # {}
  /\ loops' = [loops EXCEPT ![l].state = "tick"]
  /\ \E t \in {CHOOSE u \in FreeTicks : TRUE} :
       ticks' = [ticks EXCEPT ![t] = [pc |-> "decide", of |-> loops[l].of, loop |-> l, want |-> 0]]
  /\ UNCHANGED <<row, manager, object, starts, recovery, account, bounds, disturbed>>

\* An exception outside the guard of the tick.
LoopDies(l) ==
  /\ loops[l].state = "sleep" /\ Fails
  /\ loops' = Ended(l)
  /\ UNCHANGED <<row, manager, object, ticks, starts, recovery, account, disturbed>>

Completed(x) == object[x].finished /\ object[x].book = 0 /\ ~object[x].halted

\* Mutant of LoopResumes: a run that says so stops whatever it holds.
LoopResumesCareless(l) ==
  LET x == loops[l].of
  IN  /\ loops[l].state = "tick"
      /\ \E t \in Ticks : ticks[t].pc = "done" /\ ticks[t].loop = l
      /\ IF object[x].finished /\ Registered
           THEN /\ task' = NoLoop /\ runs' = NoObject /\ row' = StoppedRow
                /\ loops' = [m \in Loops |-> IF m \in {l, task} THEN NoTask ELSE loops[m]]
           ELSE /\ loops' = [loops EXCEPT ![l].state = "sleep"] /\ UNCHANGED <<row, manager>>
      /\ ticks' = Detached(l)
      /\ UNCHANGED <<object, starts, recovery, account, bounds, disturbed>>

\* The tick has come back.  A strategy that is done stops the run: whichever
\* object has the id now.
LoopResumes(l) ==
  LET x == loops[l].of
  IN  /\ loops[l].state = "tick"
      /\ \E t \in Ticks : ticks[t].pc = "done" /\ ticks[t].loop = l
      /\ IF Completed(x)
           THEN /\ task' = NoLoop /\ runs' = NoObject
                /\ row' = (IF Registered THEN StoppedRow ELSE row)
                /\ loops' = [m \in Loops |-> IF m \in {l, task} THEN NoTask ELSE loops[m]]
           ELSE /\ loops' = [loops EXCEPT ![l].state = "sleep"] /\ UNCHANGED <<row, manager>>
      /\ ticks' = [t \in Ticks |-> IF ticks[t].loop = task /\ Completed(x) THEN Detached(task)[t] ELSE Detached(l)[t]]
      /\ Note(IF Completed(x) THEN StoppedEarly ELSE {})
      /\ UNCHANGED <<object, starts, recovery, account, bounds>>

-----------------------------------------------------------------------------
(* The tick threads.                                                       *)

TickDecides(t) ==
  LET x == ticks[t].of
      o == object[x]
  IN  /\ ticks[t].pc = "decide"
      /\ \E want \in {0} \cup IF o.halted THEN {} ELSE IF o.book > 0 THEN {-o.book}
                              ELSE IF o.finished THEN {} ELSE {1} :
           /\ want # 0 => account + want \in -MaxUnits..MaxUnits
           /\ ticks' = [ticks EXCEPT ![t].pc = IF want = 0 THEN "save" ELSE "order", ![t].want = want]
           /\ \E done \in {o.finished} \cup IF want = 1 \/ o.halted THEN {} ELSE {TRUE} :
                object' = [object EXCEPT ![x].finished = done]
      /\ UNCHANGED <<row, manager, loops, starts, recovery, account, bounds, disturbed>>

TickTrades(t) ==
  LET x == ticks[t].of
  IN  /\ ticks[t].pc = "order"
      /\ object' = [object EXCEPT ![x].book = IF ticks[t].want > 0 THEN @ + 1 ELSE 0]
      /\ account' = account + ticks[t].want
      /\ ticks' = [ticks EXCEPT ![t].pc = "save", ![t].want = 0]
      /\ UNCHANGED <<row, manager, loops, starts, recovery, bounds, disturbed>>

\* The order fails: the run halts.
TickFails(t) ==
  /\ ticks[t].pc = "order" /\ Fails
  /\ object' = [object EXCEPT ![ticks[t].of].halted = TRUE]
  /\ ticks' = [ticks EXCEPT ![t].pc = "save", ![t].want = 0]
  /\ UNCHANGED <<row, manager, loops, starts, recovery, account, disturbed>>

TickSaves(t) ==
  /\ ticks[t].pc = "save"
  /\ row' = Save(object[ticks[t].of].book)
  /\ ticks' = [ticks EXCEPT ![t] = IF @.loop = NoLoop THEN NoTick ELSE [@ EXCEPT !.pc = "done"]]
  /\ UNCHANGED <<manager, object, loops, starts, recovery, account, bounds, disturbed>>

-----------------------------------------------------------------------------
(* The process and its recovery thread.                                    *)

Crash ==
  /\ crashes < MaxCrashes /\ crashes' = crashes + 1 /\ UNCHANGED <<acts, faults>>
  /\ runs' = NoObject /\ task' = NoLoop
  /\ loops' = [l \in Loops |-> NoTask]
  /\ ticks' = [t \in Ticks |-> NoTick]
  /\ starts' = 0
  /\ recovery' = [pc |-> IF row.status = "running" THEN "check" ELSE "done", of |-> NoObject]
  /\ Note(IF \E t \in Ticks : ticks[t].pc \in {"order", "save"} THEN {"crash"} ELSE {})
  /\ object' = [x \in Objects |-> Fresh]
  /\ UNCHANGED <<row, account>>

RecoverReads ==
  /\ recovery.pc = "check"
  /\ IF Registered \/ row.status = "deleted"
       THEN recovery' = [recovery EXCEPT !.pc = "done"] /\ UNCHANGED object
       ELSE /\ FreeObjects # {}
            /\ \E x \in {CHOOSE y \in FreeObjects : TRUE} :
                 /\ recovery' = [pc |-> "rebuild", of |-> x]
                 /\ NewRun(x, row.auto, row.book)
  /\ UNCHANGED <<row, manager, loops, ticks, starts, account, bounds, disturbed>>

RecoverFails ==
  /\ recovery.pc = "rebuild" /\ Fails
  /\ recovery' = [pc |-> "done", of |-> NoObject]
  /\ Note({"unrecovered"})
  /\ UNCHANGED <<row, manager, object, loops, ticks, starts, account>>

RecoverRegisters ==
  /\ recovery.pc = "rebuild"
  /\ runs' = recovery.of
  /\ recovery' = [pc |-> IF object[recovery.of].auto THEN "start" ELSE "done", of |-> NoObject]
  /\ UNCHANGED <<row, task, object, loops, ticks, starts, account, bounds, disturbed>>

RecoverStarts ==
  /\ recovery.pc = "start"
  /\ starts' = starts + 1
  /\ recovery' = [recovery EXCEPT !.pc = "done"]
  /\ UNCHANGED <<row, manager, object, loops, ticks, account, bounds, disturbed>>

-----------------------------------------------------------------------------
Init ==
  /\ row = [status |-> "new", archived |-> FALSE, auto |-> FALSE, book |-> 0]
  /\ runs = NoObject /\ task = NoLoop
  /\ object = [x \in Objects |-> Fresh]
  /\ loops = [l \in Loops |-> NoTask]
  /\ ticks = [t \in Ticks |-> NoTick]
  /\ starts = 0 /\ recovery = [pc |-> "done", of |-> NoObject]
  /\ account = 0
  /\ acts = 0 /\ crashes = 0 /\ faults = 0
  /\ disturbed = {}

Routes ==
  \/ Start \/ Stop \/ StopFails \/ Archive \/ Delete \/ Unarchive \/ Activate
  \/ Pause \/ Resume \/ Acknowledge
TickStep(t) == TickDecides(t) \/ TickTrades(t) \/ TickSaves(t)
Recover == RecoverReads \/ RecoverRegisters \/ RecoverStarts

Next ==
  \/ Routes \/ StartFires \/ Watchdog \/ Recover \/ RecoverFails \/ Crash
  \/ \E l \in Loops : LoopTicks(l) \/ LoopDies(l) \/ LoopResumes(l)
  \/ \E t \in Ticks : TickStep(t) \/ TickFails(t)

\* Every callback runs, every thread goes on, the watchdog comes every five
\* minutes; the owner and the failures may stay away.
Spec ==
  /\ Init /\ [][Next]_vars
  /\ WF_vars(StartFires) /\ WF_vars(Watchdog) /\ WF_vars(Recover)
  /\ \A l \in Loops : WF_vars(LoopResumes(l))
  /\ \A t \in Ticks : WF_vars(TickStep(t))

-----------------------------------------------------------------------------
(* Properties.                                                             *)

\* Every variable stays in its type.
TypeOK ==
  /\ row \in [status : {"new", "running", "stopped", "deleted"}, archived : BOOLEAN,
              auto : BOOLEAN, book : Int]
  /\ runs \in Objects \cup {NoObject} /\ task \in Loops \cup {NoLoop}
  /\ object \in [Objects -> [book : Int, auto : BOOLEAN, halted : BOOLEAN, finished : BOOLEAN]]
  /\ loops \in [Loops -> [state : {"sleep", "tick", "ended"}, of : Objects \cup {NoObject}]]
  /\ ticks \in [Ticks -> [pc : {"none", "decide", "order", "save", "done"},
                          of : Objects \cup {NoObject}, loop : Loops \cup {NoLoop}, want : Int]]
  /\ starts \in Nat
  /\ recovery \in [pc : {"check", "rebuild", "start", "done"}, of : Objects \cup {NoObject}]
  /\ account \in Int
  /\ acts \in Nat /\ crashes \in Nat /\ faults \in Nat
  /\ disturbed \subseteq {"late", "early", "activated", "unguarded", "halfStopped",
                          "removedEarly", "crash", "unrecovered"}

Without(what) == disturbed \cap what = {}

\* Every loop that lives is the one its run's stop would cancel, and ticks the
\* object the routes know.  Two races of the recovery break it: an activation
\* while it rebuilds the run, and anybody who starts or pauses the run between
\* its registration and the start it has handed over.
NoOrphanLoop ==
  Without({"activated", "early"}) =>
    \A l \in Loops : Alive(l) => task = l /\ loops[l].of = runs

\* One tick at a time decides for a run; but for those races, a tick goes on
\* beside the next loop only when a stop or a pause came while it ran.
OneDecider ==
  Without({"activated", "early", "late"}) =>
    \A t, u \in Ticks : Busy(t) /\ Busy(u) => t = u

\* What the account holds is what the run that is registered thinks it holds,
\* and nothing when none is.
BookIsAccount ==
  Without({"activated", "early", "late", "unguarded", "halfStopped", "removedEarly", "crash",
           "unrecovered"}) /\ recovery.pc = "done" =>
    account = IF Registered THEN object[runs].book ELSE 0

\* The database and the manager agree on whether the run runs, so that what a
\* restart recovers is what ran, and nothing that was archived or deleted.
RowTellsTheTruth ==
  Without({"activated", "halfStopped", "removedEarly", "unrecovered"}) /\ recovery.pc = "done" =>
    /\ Registered <=> row.status = "running"
    /\ Registered => ~row.archived

\* A loop of an automatic run that has died comes back.
DeadLoopsComeBack ==
  Registered /\ ~LiveTask ~>
    ~Registered \/ ~object[runs].auto \/ LiveTask

\* A paused run comes to rest: its loop ends and the tick under way is its last.
PausedGoesQuiet ==
  Registered /\ ~object[runs].auto /\ Without({"activated", "early"}) ~>
    \/ ~Registered \/ object[runs].auto \/ ~Without({"activated", "early"})
    \/ (\A t \in Ticks : ~Busy(t)) /\ \A l \in Loops : ~Alive(l)
=============================================================================
