---------------------------- MODULE SvcinitProofs ----------------------------
(***************************************************************************)
(* Proofs about Svcinit, for any targets, dependencies, timeouts and modes.*)
(*                                                                         *)
(* IInv says what the order of the worker pool means for the processes:    *)
(* while main is in StartAll every completed task is a target that serves, *)
(* and while it is in StopAll every completed task is a target without a   *)
(* process.  What is not pending has all it needs completed; that this     *)
(* covers what it needs indirectly follows from the definition of Needs as *)
(* the least set that is closed under Deps.                                *)
(***************************************************************************)
EXTENDS Svcinit, TLAPS

\* StartAll.
Booting ==
  main = "starting" =>
    /\ \A t \in Targets : status[t] = "pending" => proc[t] = "new"
    /\ \A t \in Targets : status[t] # "pending" =>
         \A d \in Deps[t] : status[d] = "completed"
    /\ \A t \in Targets : status[t] = "completed" /\ ~Skipped(t) => Served(t)
    /\ stopping => firstErr # "none"
    /\ test = "none"

\* A run of the worker pool that has returned, and what each has to say of it.
Returned ==
  main \in {"starting", "stopping"} =>
    /\ outcome = "ok" => \A t \in Targets : status[t] = "completed"
    /\ outcome = "error" => stopping

\* StopAll, and the signals it sends.
ShuttingDown ==
  /\ main \in {"starting", "select"} => killed = {}
  /\ overdue \subseteq killed
  /\ \A t \in killed : ~Skipped(t)
  /\ main = "stopping" =>
       /\ \A t \in Targets : status[t] # "pending" =>
            \A u \in Targets : t \in Deps[u] => status[u] = "completed"
       /\ \A t \in Targets : status[t] = "completed" /\ ~Skipped(t) =>
            proc[t] \in {"new", "waited"}
       /\ \A t \in overdue \cap Enforce : status[t] # "completed"
       /\ OneShot /\ ~Cancelled => test = "passed"

\* The test runs, or main waits for it, only when every target serves.
AllServe == \A t \in Targets : ~Skipped(t) => Served(t)
Serving == main = "select" \/ test # "none" => AllServe

\* The rest: the flags and channels.
Flags ==
  /\ exit # "none" => main = "exited"
  /\ main # "exited" => signals < 2
  /\ firstErr = "canceled" => Cancelled
  /\ testErr => test \in {"passed", "failed"}
  /\ \A t \in Targets : Skipped(t) => proc[t] = "new"

Safety ==
  /\ StartedInOrder /\ StoppedInOrder /\ OkMeansStopped /\ TestVerdict
  /\ EnforcedShutdown

IInv ==
  TypeOK /\ Booting /\ Returned /\ ShuttingDown /\ Serving /\ Flags /\ Safety

-----------------------------------------------------------------------------
(* What a target needs. *)

LEMMA TypesOfTargets ==
  /\ \A t \in Targets : Type[t] \in {"service", "task", "group"}
  /\ \A t \in Targets : Deps[t] \subseteq Targets
  /\ \A t, u \in Targets : t \in Dependents[u] <=> u \in Deps[t]
BY SvcinitAssumption DEF Dependents

LEMMA NeedsIsLeast ==
  ASSUME NEW t \in Targets, NEW S \in SUBSET Targets,
         Deps[t] \subseteq S, \A v \in S : Deps[v] \subseteq S
  PROVE  Needs[t] \subseteq S
BY DEF Needs

\* In StartAll: what a task needs has completed once it is handed out.
LEMMA NeedsCompleted ==
  ASSUME IInv, main = "starting", NEW t \in Targets, status[t] # "pending"
  PROVE  \A u \in Needs[t] : u \in Targets /\ status[u] = "completed"
<1> DEFINE S == {v \in Targets : status[v] = "completed"}
<1>1. Deps[t] \subseteq S
  BY TypesOfTargets DEF IInv, Booting
<1>2. \A v \in S : Deps[v] \subseteq S
  BY TypesOfTargets DEF IInv, Booting
<1>3. Needs[t] \subseteq S
  <2> HIDE DEF S
  <2> QED BY <1>1, <1>2, NeedsIsLeast DEF S
<1> QED BY <1>3

\* In StopAll: what needs a task has completed once it is handed out.
LEMMA NeededByCompleted ==
  ASSUME IInv, main = "stopping", NEW t \in Targets, status[t] # "pending",
         NEW u \in Targets, t \in Needs[u]
  PROVE  status[u] = "completed"
<1> DEFINE S == {v \in Targets : status[v] = "pending"}
<1> SUFFICES ASSUME status[u] # "completed" PROVE FALSE
  OBVIOUS
<1>1. Deps[u] \subseteq S
  BY TypesOfTargets DEF IInv, ShuttingDown
<1>2. \A v \in S : Deps[v] \subseteq S
  BY TypesOfTargets DEF IInv, ShuttingDown
<1>3. Needs[u] \subseteq S
  <2> HIDE DEF S
  <2> QED BY <1>1, <1>2, NeedsIsLeast DEF S
<1> QED BY <1>3

LEMMA ServedMeans ==
  ASSUME NEW t \in Targets, ~Skipped(t)
  PROVE  Served(t) <=> \/ Type[t] = "service" /\ t \in passed
                       \/ Type[t] = "task" /\ proc[t] = "waited" /\ how[t] = "clean"
BY TypesOfTargets DEF Served, Skipped

-----------------------------------------------------------------------------
\* What every step but a launch does to the processes: none starts to run, and what has
\* been waited for stays so.
Onward ==
  /\ passed \subseteq passed'
  /\ \A t \in Targets :
       /\ proc[t] = "new" => proc'[t] = "new"
       /\ proc[t] # "running" => proc'[t] # "running"
       /\ proc[t] = "waited" => proc'[t] = "waited" /\ how'[t] = how[t]

LEMMA ServedStays ==
  ASSUME Onward, NEW t \in Targets, ~Skipped(t), Served(t) PROVE Served(t)'
<1>1. Served(t)' <=> \/ Type[t] = "service" /\ t \in passed'
                     \/ Type[t] = "task" /\ proc'[t] = "waited" /\ how'[t] = "clean"
  BY TypesOfTargets DEF Served, Skipped
<1> QED BY <1>1, ServedMeans DEF Onward

\* So the order of starts is kept, and of stops if none is signalled.
LEMMA OrderStays ==
  ASSUME IInv, Onward
  PROVE  /\ StartedInOrder'
         /\ AllServe => AllServe'
         /\ killed' = killed => StoppedInOrder'
<1>1. StartedInOrder'
  <2> SUFFICES ASSUME NEW t \in Targets, proc'[t] # "new", NEW u \in Needs[t], ~Skipped(u)
               PROVE  Served(u)'
    BY DEF StartedInOrder, Skipped, Needs
  <2>1. u \in Targets
    BY DEF Needs
  <2>2. Served(u)
    BY DEF IInv, Safety, StartedInOrder, Onward
  <2> QED BY <2>1, <2>2, ServedStays
<1>2. AllServe => AllServe'
  BY ServedStays DEF AllServe, Skipped
<1>3. killed' = killed => StoppedInOrder'
  BY DEF IInv, Safety, StoppedInOrder, Onward, Needs, Skipped
<1> QED BY <1>1, <1>2, <1>3

-----------------------------------------------------------------------------
LEMMA InitIInv == Init => IInv
<1> SUFFICES ASSUME Init PROVE IInv
  OBVIOUS
<1> USE DEF Init
<1>1. TypeOK
  <2>1. status \in [Targets -> {"pending", "running", "completed", "failed"}]
    OBVIOUS
  <2>2. proc \in [Targets -> {"new", "running", "exited", "waited"}]
    OBVIOUS
  <2>3. how \in [Targets -> {"none", "clean", "error", "context"}]
    OBVIOUS
  <2>4. /\ passed \subseteq Targets /\ killed \subseteq Targets
        /\ overdue \subseteq Targets /\ told \subseteq Targets
        /\ reports \subseteq Targets
    OBVIOUS
  <2>5. stopping \in BOOLEAN /\ testErr \in BOOLEAN
    OBVIOUS
  <2>6. signals \in 0..2
    OBVIOUS
  <2>7. /\ mode \in Modes
        /\ main \in {"starting", "select", "stopping", "exited"}
        /\ exit \in {"none", "ok", "fail", "panic", "forced"}
        /\ outcome \in {"open", "ok", "error"}
        /\ firstErr \in {"none", "canceled", "other"}
        /\ test \in {"none", "running", "passed", "failed"}
    OBVIOUS
  <2> HIDE DEF Init
  <2> QED BY <2>1, <2>2, <2>3, <2>4, <2>5, <2>6, <2>7 DEF TypeOK
<1>2. Booting /\ Returned /\ ShuttingDown /\ Serving /\ Flags
  BY DEF Booting, Returned, ShuttingDown, Serving, Flags
<1>3. Safety
  BY DEF Safety, StartedInOrder, StoppedInOrder, OkMeansStopped, TestVerdict,
         EnforcedShutdown
<1> QED BY <1>1, <1>2, <1>3 DEF IInv

\* TypeOK in three parts: the worker pool, the processes, main.
OrderTyped ==
  /\ status \in [Targets -> {"pending", "running", "completed", "failed"}]
  /\ stopping \in BOOLEAN /\ outcome \in {"open", "ok", "error"}
  /\ firstErr \in {"none", "canceled", "other"}
ProcsTyped ==
  /\ proc \in [Targets -> {"new", "running", "exited", "waited"}]
  /\ how \in [Targets -> {"none", "clean", "error", "context"}]
  /\ passed \subseteq Targets /\ killed \subseteq Targets /\ overdue \subseteq Targets
  /\ told \subseteq Targets /\ reports \subseteq Targets
MainTyped ==
  /\ mode \in Modes
  /\ main \in {"starting", "select", "stopping", "exited"}
  /\ exit \in {"none", "ok", "fail", "panic", "forced"}
  /\ signals \in 0..2
  /\ test \in {"none", "running", "passed", "failed"}
  /\ testErr \in BOOLEAN

LEMMA TypeParts == OrderTyped' /\ ProcsTyped' /\ MainTyped' => TypeOK'
BY Zenon DEF TypeOK, OrderTyped, ProcsTyped, MainTyped

LEMMA FailsIsTyped ==
  ASSUME TypeOK, NEW t \in Targets, NEW e \in {"canceled", "other"}, Fails(t, e)
  PROVE  OrderTyped'
BY DEF TypeOK, OrderTyped, Fails, Starter!Fail

\* A step of the worker pool alone.
LEMMA OnlyOrderMoves ==
  ASSUME TypeOK, OrderTyped', UNCHANGED <<mode, main, exit, signals, services, testing>>
  PROVE  TypeOK'
<1>1. ProcsTyped'
  BY DEF TypeOK, ProcsTyped, services
<1>2. MainTyped'
  BY DEF TypeOK, MainTyped, testing
<1> QED BY <1>1, <1>2, TypeParts

LEMMA TypeStep == TypeOK /\ Flags /\ [Next]_vars => TypeOK'
<1> SUFFICES ASSUME TypeOK, Flags, [Next]_vars PROVE TypeOK'
  OBVIOUS
<1> USE DEF order, services, testing
<1>1. ASSUME NEW t \in Targets, TargetStep(t) PROVE TypeOK'
  <2>1. CASE Schedule(t)
    BY <2>1 DEF TypeOK, Schedule, Starter!Start, Stopper!Start
  <2>2. CASE Skip(t)
    BY <2>2 DEF TypeOK, Skip, Starter!Complete, Stopper!Complete
  <2>3. CASE Launch(t)
    <3>1. CASE Fails(t, IF Cancelled THEN "canceled" ELSE "other") /\ UNCHANGED proc
      BY <2>3, <3>1, FailsIsTyped, OnlyOrderMoves DEF Launch
    <3>2. CASE proc' = [proc EXCEPT ![t] = "running"] /\ UNCHANGED order
      BY <2>3, <3>2 DEF TypeOK, Launch
    <3> QED BY <2>3, <3>1, <3>2 DEF Launch
  <2>4. CASE Unhealthy(t)
    <3>1. Fails(t, "other") \/ Fails(t, "canceled")
      BY <2>4 DEF Unhealthy
    <3> QED BY <2>4, <3>1, FailsIsTyped, OnlyOrderMoves DEF Unhealthy
  <2>5. CASE TaskEnds(t)
    <3>1. CASE Starts(t)
      BY <2>5, <3>1 DEF TypeOK, TaskEnds, Starts, Starter!Complete
    <3>2. CASE Fails(t, "other")
      BY <2>5, <3>2, FailsIsTyped, OnlyOrderMoves DEF TaskEnds
    <3> QED BY <2>5, <3>1, <3>2 DEF TaskEnds
  <2>6. CASE Signal(t)
    <3>1. OrderTyped'
      BY <2>6 DEF TypeOK, OrderTyped, Signal, Stopper!Complete, Stopper!Fail
    <3>2. ProcsTyped'
      BY <2>6 DEF TypeOK, ProcsTyped, Signal, ExitOf
    <3>3. MainTyped'
      BY <2>6 DEF TypeOK, MainTyped, Signal
    <3> QED BY <3>1, <3>2, <3>3, TypeParts
  <2>7. CASE Escalate(t)
    <3>1. OrderTyped'
      BY <2>7 DEF TypeOK, OrderTyped, Escalate, Stopper!Fail
    <3>2. ProcsTyped'
      BY <2>7 DEF TypeOK, ProcsTyped, Escalate, ExitOf
    <3>3. MainTyped'
      BY <2>7 DEF TypeOK, MainTyped, Escalate
    <3> QED BY <3>1, <3>2, <3>3, TypeParts
  <2>8. CASE Stopped(t)
    <3>1. OrderTyped'
      BY <2>8 DEF TypeOK, OrderTyped, Stopped, Stopper!Complete, Stopper!Fail
    <3> QED BY <2>8, <3>1, OnlyOrderMoves DEF Stopped
  <2> QED BY <1>1, <2>1, <2>2, <2>3, <2>4, <2>5, <2>6, <2>7, <2>8 DEF TargetStep
<1>2. ASSUME NEW t \in Targets, Healthy(t) \/ WaiterStep(t) PROVE TypeOK'
  BY <1>2 DEF TypeOK, Healthy, WaiterStep, Waited, Report, Starts, Starter!Complete
<1>3. CASE MainStep
  <2> USE DEF BeginStopAll, Loop, Exits
  <2>1. CASE RunReturns
    BY <2>1 DEF TypeOK, RunReturns, Starter!Return, Stopper!Return
  <2>2. CASE Started
    <3>1. CASE BeginStopAll
      BY <2>2, <3>1 DEF TypeOK, Started
    <3>2. CASE Loop
      BY <2>2, <3>2 DEF TypeOK, Started
    <3>3. CASE Exits("panic") /\ UNCHANGED <<order, testing>>
      BY <2>2, <3>3 DEF TypeOK, Started
    <3> QED BY <2>2, <3>1, <3>2, <3>3 DEF Started
  <2>3. CASE SelectDone
    BY <2>3 DEF TypeOK, SelectDone
  <2>6. CASE SelectTest
    <3>1. CASE BeginStopAll
      BY <2>6, <3>1 DEF TypeOK, SelectTest
    <3>2. CASE Loop
      BY <2>6, <3>2 DEF TypeOK, SelectTest
    <3>3. CASE Exits("fail") /\ UNCHANGED <<order, testing>>
      BY <2>6, <3>3 DEF TypeOK, SelectTest
    <3> QED BY <2>6, <3>1, <3>2, <3>3 DEF SelectTest
  <2>4. CASE SelectCrash
    <3>1. CASE Loop
      BY <2>4, <3>1, ZenonT(30) DEF TypeOK, SelectCrash
    <3>2. CASE (Exits("fail") \/ Exits("panic")) /\ UNCHANGED <<order, testing>>
      BY <2>4, <3>2 DEF TypeOK, SelectCrash
    <3> QED BY <2>4, <3>1, <3>2 DEF SelectCrash
  <2>5. CASE Finish
    BY <2>5 DEF TypeOK, Finish
  <2> QED BY <1>3, <2>1, <2>2, <2>3, <2>4, <2>5, <2>6 DEF MainStep
<1>4. ASSUME NEW t \in Targets, Exit(t) \/ KilledByContext(t) PROVE TypeOK'
  BY <1>4 DEF TypeOK, Exit, KilledByContext, ExitOf
<1>5. CASE TestExits
  BY <1>5 DEF TypeOK, TestExits
<1>6. CASE CtrlC
  BY <1>6 DEF TypeOK, Flags, CtrlC, Exits
<1>7. CASE Exited \/ UNCHANGED vars
  BY <1>7 DEF TypeOK, Exited, vars
<1> QED BY <1>1, <1>2, <1>3, <1>4, <1>5, <1>6, <1>7 DEF Next

-----------------------------------------------------------------------------
(* Every step keeps the invariant.  A step in which main stays where it is *)
(* disturbs little but the order of the worker pool.                       *)

Kept == Booting' /\ Returned' /\ ShuttingDown' /\ Serving' /\ Flags' /\ Safety'

LEMMA MainWaits ==
  ASSUME IInv, Onward, main # "exited", firstErr' = "canceled" => Cancelled,
         UNCHANGED <<mode, main, exit, signals, killed, testing>>
  PROVE  Serving' /\ Flags' /\ Safety'
<1> USE DEF testing, Skipped, OneShot, Cancelled
<1>1. Serving'
  BY OrderStays DEF IInv, Serving
<1>2. Flags'
  BY DEF IInv, Flags, Onward
<1>3. StartedInOrder' /\ StoppedInOrder'
  BY OrderStays
<1>4. OkMeansStopped' /\ TestVerdict' /\ EnforcedShutdown'
  BY DEF IInv, Flags, OkMeansStopped, TestVerdict, EnforcedShutdown
<1> QED BY <1>1, <1>2, <1>3, <1>4 DEF Safety

\* A step of a process or of the goroutine that waits for it.
LEMMA ProcessStep ==
  ASSUME IInv, NEW t \in Targets,
         Exit(t) \/ KilledByContext(t) \/ Waited(t) \/ Report(t)
  PROVE  Kept
<1> USE DEF order, testing, Skipped, OneShot, Cancelled
<1>1. Onward
  BY DEF IInv, TypeOK, Onward, Exit, KilledByContext, Waited, Report, ExitOf
<1>2. /\ main # "exited"
      /\ UNCHANGED <<mode, main, exit, signals, order, killed, overdue, testing>>
  BY DEF Exit, KilledByContext, Waited, Report
<1>3. Serving' /\ Flags' /\ Safety'
  BY <1>1, <1>2, MainWaits DEF IInv, Flags
<1>4. Booting'
  <2> SUFFICES ASSUME main = "starting" PROVE Booting'
    BY <1>2 DEF Booting
  <2>1. \A u \in Targets : status[u] = "completed" /\ ~Skipped(u) => Served(u)'
    BY <1>1, ServedStays DEF IInv, Booting
  <2> QED BY <1>1, <1>2, <2>1 DEF IInv, Booting, Onward
<1>5. Returned' /\ ShuttingDown'
  BY <1>1, <1>2 DEF IInv, Returned, ShuttingDown, Onward
<1> QED BY <1>3, <1>4, <1>5 DEF Kept

\* A worker of StartAll is done with t.
LEMMA BootStep ==
  ASSUME IInv, Onward, main = "starting", NEW t \in Targets,
         \/ Starts(t) /\ (Skipped(t) \/ Served(t)')
         \/ \E e \in {"canceled", "other"} :
              Fails(t, e) /\ (e = "canceled" => Cancelled),
         UNCHANGED <<mode, main, exit, signals, killed, overdue, testing>>
  PROVE  Kept
<1> USE DEF testing, Skipped, OneShot, Cancelled, Starter!Complete, Starter!Fail,
            Starts, Fails
<1>1. Serving' /\ Flags' /\ Safety'
  BY MainWaits DEF IInv, Flags
<1>2. \A u \in Targets : status[u] = "completed" /\ ~Skipped(u) => Served(u)'
  BY ServedStays DEF IInv, Booting
<1>3. Booting'
  BY <1>2, TypesOfTargets DEF IInv, TypeOK, Booting, Onward
<1>4. Returned' /\ ShuttingDown'
  BY DEF IInv, TypeOK, Returned, ShuttingDown, Onward
<1> QED BY <1>1, <1>3, <1>4 DEF Kept

\* A worker of StopAll is done with t.
LEMMA StopStep ==
  ASSUME IInv, main = "stopping", NEW t \in Targets,
         \/ /\ Stopper!Complete(t) /\ t \notin overdue \cap Enforce
            /\ Skipped(t) \/ proc[t] \in {"new", "waited"}
         \/ Stopper!Fail(t),
         UNCHANGED <<mode, main, exit, signals, firstErr, services, testing>>
  PROVE  Kept
<1> USE DEF services, testing, Skipped, OneShot, Cancelled, Stopper!Complete,
            Stopper!Fail
<1>1. Onward
  BY DEF Onward
<1>2. Serving' /\ Flags' /\ Safety'
  BY <1>1, MainWaits DEF IInv, Flags
<1>3. Booting'
  BY DEF Booting
<1>4. Returned' /\ ShuttingDown'
  BY TypesOfTargets DEF IInv, TypeOK, Returned, ShuttingDown
<1> QED BY <1>2, <1>3, <1>4 DEF Kept

LEMMA ScheduleKeeps == ASSUME IInv, NEW t \in Targets, Schedule(t) PROVE Kept
<1> USE DEF order, services, testing, Skipped, OneShot, Cancelled
<1>1. /\ Onward /\ main \in {"starting", "stopping"}
      /\ UNCHANGED <<mode, main, exit, signals, firstErr, services, testing>>
  BY DEF Onward, Schedule
<1>2. Serving' /\ Flags' /\ Safety'
  BY <1>1, MainWaits DEF IInv, Flags
<1>3. /\ status[t] = "pending" /\ status' = [status EXCEPT ![t] = "running"]
      /\ UNCHANGED <<stopping, outcome>>
      /\ main = "starting" => \A d \in Deps[t] : status[d] = "completed"
      /\ main = "stopping" => \A d \in Dependents[t] : status[d] = "completed"
  BY DEF Schedule, Starter!Start, Starter!Ready, Stopper!Start, Stopper!Ready
<1>4. Booting'
  <2>1. \A u \in Targets : ~Skipped(u) => (Served(u)' <=> Served(u))
    BY <1>1 DEF Served
  <2> QED BY <1>1, <1>3, <2>1, TypesOfTargets DEF IInv, TypeOK, Booting
<1>5. Returned' /\ ShuttingDown'
  BY <1>1, <1>3, TypesOfTargets DEF IInv, TypeOK, Returned, ShuttingDown
<1> QED BY <1>2, <1>4, <1>5 DEF Kept

LEMMA SkipKeeps == ASSUME IInv, NEW t \in Targets, Skip(t) PROVE Kept
<1>1. Onward
  BY DEF Onward, Skip, services
<1>2. CASE Starting(t) /\ Starter!Complete(t)
  BY <1>1, <1>2, BootStep DEF Skip, Starting, Starts, services
<1>3. CASE Stopping(t) /\ Stopper!Complete(t)
  <2>1. t \notin overdue
    BY DEF Skip, IInv, ShuttingDown
  <2> QED BY <1>3, <2>1, StopStep DEF Skip, Stopping
<1> QED BY <1>2, <1>3 DEF Skip

LEMMA LaunchKeeps == ASSUME IInv, NEW t \in Targets, Launch(t) PROVE Kept
<1> USE DEF order, testing, OneShot, Cancelled
<1> DEFINE e == IF Cancelled THEN "canceled" ELSE "other"
<1>1. /\ main = "starting" /\ status[t] = "running" /\ ~Skipped(t) /\ proc[t] = "new"
      /\ UNCHANGED <<mode, main, exit, signals, how, passed, killed, overdue, told,
                     reports, testing>>
  BY DEF Launch, Starting
<1>2. CASE Fails(t, e) /\ UNCHANGED proc
  <2>1. Onward
    BY <1>1, <1>2 DEF Onward
  <2> QED BY <1>1, <1>2, <2>1, BootStep
<1>3. CASE ~Cancelled /\ proc' = [proc EXCEPT ![t] = "running"] /\ UNCHANGED order
  <2>1. killed = {} /\ exit = "none" /\ test = "none"
    BY <1>1 DEF IInv, ShuttingDown, Flags, Booting
  <2>2. \A u \in Targets : ~Skipped(u) /\ Served(u) => Served(u)'
    <3> SUFFICES ASSUME NEW u \in Targets, ~Skipped(u), Served(u) PROVE Served(u)'
      BY DEF Skipped
    <3>1. Served(u)' <=> \/ Type[u] = "service" /\ u \in passed'
                         \/ Type[u] = "task" /\ proc'[u] = "waited" /\ how'[u] = "clean"
      BY TypesOfTargets DEF Served, Skipped
    <3> QED BY <1>1, <1>3, <3>1, ServedMeans DEF IInv, TypeOK
  <2>3. Booting'
    BY <1>1, <1>3, <2>2 DEF IInv, TypeOK, Booting, Skipped
  <2>4. Returned' /\ ShuttingDown' /\ Serving'
    BY <1>1, <1>3, <2>1 DEF IInv, Returned, ShuttingDown, Serving
  <2>5. Flags'
    BY <1>1, <1>3 DEF IInv, TypeOK, Flags, Skipped
  <2>6. StartedInOrder'
    <3> SUFFICES ASSUME NEW u \in Targets, proc'[u] # "new", NEW v \in Needs[u], ~Skipped(v)
                 PROVE  Served(v)'
      BY DEF StartedInOrder, Skipped, Needs
    <3>1. v \in Targets
      BY DEF Needs
    <3>2. Served(v)
      <4>1. CASE u = t
        BY <1>1, <3>1, <4>1, NeedsCompleted DEF IInv, Booting
      <4>2. CASE u # t
        BY <1>3, <4>2 DEF IInv, TypeOK, Safety, StartedInOrder
      <4> QED BY <4>1, <4>2
    <3> QED BY <2>2, <3>1, <3>2
  <2>7. StoppedInOrder' /\ OkMeansStopped' /\ TestVerdict' /\ EnforcedShutdown'
    BY <1>1, <2>1 DEF StoppedInOrder, OkMeansStopped, TestVerdict, EnforcedShutdown
  <2> QED BY <2>3, <2>4, <2>5, <2>6, <2>7 DEF Kept, Safety
<1> QED BY <1>2, <1>3 DEF Launch

LEMMA WaitUntilHealthyKeeps ==
  ASSUME IInv, NEW t \in Targets, Unhealthy(t) \/ Healthy(t) \/ TaskEnds(t)
  PROVE  Kept
<1>1. CASE Unhealthy(t)
  <2>1. Onward
    BY <1>1 DEF Onward, Unhealthy, services
  <2> QED BY <1>1, <2>1, BootStep DEF Unhealthy, Starting, services
<1>2. CASE Healthy(t)
  <2>1. Onward
    BY <1>2 DEF Onward, Healthy
  <2>2. Served(t)'
    BY <1>2 DEF Healthy, Served
  <2> QED BY <1>2, <2>1, <2>2, BootStep DEF Healthy, Starting
<1>3. CASE TaskEnds(t)
  <2>1. Onward
    BY <1>3 DEF Onward, TaskEnds, services
  <2>2. how[t] = "clean" => Served(t)'
    BY <1>3 DEF TaskEnds, Served, services
  <2> QED BY <1>3, <2>1, <2>2, BootStep DEF TaskEnds, Starting, services
<1> QED BY <1>1, <1>2, <1>3

-----------------------------------------------------------------------------
(* Where main goes from StartAll and from its select.                      *)

\* The processes stay as they are; a report may have been received.
MainMoves ==
  /\ main \in {"starting", "select"}
  /\ UNCHANGED <<mode, signals, proc, how, passed, killed, overdue>>

LEMMA StopAllBegins ==
  ASSUME IInv, MainMoves, BeginStopAll, OneShot /\ ~Cancelled => test = "passed"
  PROVE  Kept
<1> USE DEF MainMoves, BeginStopAll, testing, OneShot, Cancelled
<1>1. killed = {} /\ overdue = {} /\ exit = "none"
  BY DEF IInv, ShuttingDown, Flags
<1>2. Onward
  BY DEF Onward
<1>3. Booting' /\ Returned' /\ ShuttingDown'
  BY <1>1 DEF Booting, Returned, ShuttingDown, Skipped
<1>4. Serving' /\ Flags'
  BY <1>2, OrderStays DEF IInv, Serving, Flags, Skipped
<1>5. Safety'
  BY <1>1, <1>2, OrderStays
  DEF Safety, StoppedInOrder, OkMeansStopped, TestVerdict, EnforcedShutdown
<1> QED BY <1>3, <1>4, <1>5 DEF Kept

LEMMA LoopKeeps == ASSUME IInv, MainMoves, AllServe, Loop PROVE Kept
<1> USE DEF MainMoves, Loop, Exits, order, OneShot, Cancelled, HasTest
<1>1. killed = {} /\ overdue = {} /\ exit = "none"
  BY DEF IInv, ShuttingDown, Flags
<1>2. Onward
  BY DEF Onward
<1>3. AllServe'
  BY <1>2, OrderStays
<1>4. Booting' /\ Returned' /\ ShuttingDown'
  BY <1>1 DEF Booting, Returned, ShuttingDown, Skipped
<1>5. Serving' /\ Flags'
  BY <1>1, <1>3, SMT DEF IInv, TypeOK, Serving, Flags, Skipped, testing
<1>6. Safety'
  BY <1>1, <1>2, OrderStays
  DEF Safety, StoppedInOrder, OkMeansStopped, TestVerdict, EnforcedShutdown
<1> QED BY <1>4, <1>5, <1>6 DEF Kept

\* main ends at once: with an error, or after StopAll.
LEMMA ExitKeeps ==
  ASSUME IInv, main # "exited", main' = "exited", exit' # "none",
         UNCHANGED <<mode, proc, how, passed, killed, overdue, testing>>,
         firstErr' = "canceled" => signals' > 0,
         exit' = "ok" => main = "stopping" /\ outcome = "ok" /\ signals' = signals
  PROVE  Kept
<1> USE DEF testing, OneShot, Cancelled
<1>1. Onward
  BY DEF Onward
<1>2. Booting' /\ Returned' /\ ShuttingDown'
  BY DEF IInv, Booting, Returned, ShuttingDown, Skipped
<1>3. Serving' /\ Flags'
  BY <1>1, OrderStays DEF IInv, Serving, Flags, Skipped
<1>4. StartedInOrder' /\ StoppedInOrder'
  BY <1>1, OrderStays
<1>5. OkMeansStopped' /\ EnforcedShutdown' /\ TestVerdict'
  <2> SUFFICES ASSUME exit' = "ok"
               PROVE  OkMeansStopped' /\ EnforcedShutdown' /\ TestVerdict'
    BY DEF OkMeansStopped, EnforcedShutdown, TestVerdict
  <2>1. \A t \in Targets : status[t] = "completed"
    BY DEF IInv, Returned
  <2>2. OkMeansStopped'
    BY <2>1 DEF IInv, ShuttingDown, Flags, OkMeansStopped
  <2>3. EnforcedShutdown' /\ TestVerdict'
    BY <2>1 DEF IInv, TypeOK, ShuttingDown, EnforcedShutdown, TestVerdict
  <2> QED BY <2>2, <2>3
<1> QED BY <1>2, <1>3, <1>4, <1>5 DEF Kept, Safety

LEMMA MainKeeps == ASSUME IInv, MainStep PROVE Kept
<1> USE DEF services, testing, order, Exits, OneShot, Cancelled
<1>1. CASE RunReturns
  <2> USE DEF RunReturns, Starter!Return, Stopper!Return
  <2>1. Onward /\ main # "exited"
    BY <1>1 DEF Onward
  <2>2. Serving' /\ Flags' /\ Safety'
    BY <1>1, <2>1, MainWaits DEF IInv, Flags
  <2>3. Booting'
    BY <1>1 DEF IInv, Booting, Served, Skipped
  <2>4. Returned' /\ ShuttingDown'
    BY <1>1 DEF IInv, TypeOK, Returned, ShuttingDown, Skipped
  <2> QED BY <2>2, <2>3, <2>4 DEF Kept
<1>2. CASE Started
  <2>1. MainMoves
    BY <1>2 DEF Started, MainMoves
  <2>2. CASE outcome = "ok" /\ Loop
    <3>1. AllServe
      BY <1>2, <2>2 DEF Started, IInv, Returned, Booting, AllServe
    <3> QED BY <2>1, <2>2, <3>1, LoopKeeps
  <2>3. CASE firstErr = "canceled" /\ BeginStopAll
    BY <2>1, <2>3, StopAllBegins DEF IInv, Flags
  <2>4. CASE Exits("panic") /\ UNCHANGED <<order, testing>>
    BY <1>2, <2>4, ExitKeeps DEF Started, IInv, Flags
  <2> QED BY <1>2, <2>2, <2>3, <2>4 DEF Started
<1>3. CASE SelectDone
  BY <1>3, StopAllBegins DEF SelectDone, MainMoves
<1>4. CASE SelectTest
  <2>1. MainMoves /\ AllServe
    BY <1>4 DEF SelectTest, MainMoves, IInv, Serving
  <2>2. CASE Loop
    BY <2>1, <2>2, LoopKeeps
  <2>3. CASE test = "passed" /\ BeginStopAll
    BY <2>1, <2>3, StopAllBegins
  <2>4. CASE Exits("fail") /\ UNCHANGED <<order, testing>>
    BY <1>4, <2>4, ExitKeeps DEF SelectTest, IInv, Flags
  <2> QED BY <1>4, <2>2, <2>3, <2>4 DEF SelectTest
<1>5. CASE SelectCrash
  <2>1. MainMoves /\ AllServe
    BY <1>5 DEF SelectCrash, MainMoves, IInv, Serving
  <2>2. CASE Loop
    BY <2>1, <2>2, LoopKeeps
  <2>3. CASE (Exits("fail") \/ Exits("panic")) /\ UNCHANGED <<order, testing>>
    BY <1>5, <2>3, ExitKeeps DEF SelectCrash, IInv, Flags
  <2> QED BY <1>5, <2>2, <2>3 DEF SelectCrash
<1>6. CASE Finish
  BY <1>6, ExitKeeps DEF Finish, IInv, Flags
<1> QED BY <1>1, <1>2, <1>3, <1>4, <1>5, <1>6 DEF MainStep

-----------------------------------------------------------------------------
(* StopAll, and what happens to svcinit from outside.                      *)

LEMMA SignalKeeps == ASSUME IInv, NEW t \in Targets, Signal(t) PROVE Kept
<1> USE DEF testing, OneShot, Cancelled
<1>1. /\ main = "stopping" /\ status[t] = "running" /\ ~Skipped(t) /\ t \notin killed
      /\ UNCHANGED <<mode, main, exit, signals, firstErr, passed, overdue, told,
                     reports, testing>>
  BY DEF Signal, Stopping
<1>2. t \notin overdue
  BY <1>1 DEF IInv, ShuttingDown
<1>3. CASE /\ proc[t] \in {"new", "waited"} /\ Stopper!Complete(t)
           /\ UNCHANGED <<proc, how, killed>>
  BY <1>1, <1>2, <1>3, StopStep DEF services
<1>4. CASE /\ proc[t] \in {"running", "exited"} /\ killed' = killed \cup {t}
           /\ \/ ExitOf(t, "error") /\ proc[t] = "running"
              \/ UNCHANGED <<proc, how>>
           /\ UNCHANGED <<status, stopping, outcome>> \/ Stopper!Fail(t)
  <2>1. Onward
    BY <1>1, <1>4 DEF IInv, TypeOK, Onward, ExitOf
  <2>2. exit = "none"
    BY <1>1 DEF IInv, Flags
  <2>3. Booting' /\ Returned' /\ ShuttingDown'
    <3>1. /\ outcome' = outcome
          /\ stopping => stopping'
          /\ \A u \in Targets :
               /\ status'[u] = "completed" <=> status[u] = "completed"
               /\ status'[u] = "pending" <=> status[u] = "pending"
      BY <1>1, <1>4 DEF IInv, TypeOK, Stopper!Fail
    <3>2. Booting' /\ Returned'
      BY <1>1, <3>1 DEF IInv, Booting, Returned
    <3>3. \A u \in Targets : status'[u] = "completed" /\ ~Skipped(u) =>
            proc'[u] \in {"new", "waited"}
      BY <1>1, <2>1, <3>1 DEF IInv, ShuttingDown, Onward
    <3>4. \A u \in Targets : status'[u] # "pending" =>
            \A v \in Targets : u \in Deps[v] => status'[v] = "completed"
      BY <1>1, <3>1 DEF IInv, ShuttingDown
    <3>5. /\ overdue' \subseteq killed'
          /\ \A u \in killed' : ~Skipped(u)
          /\ \A u \in overdue' \cap Enforce : status'[u] # "completed"
      BY <1>1, <1>4, <3>1 DEF IInv, TypeOK, ShuttingDown
    <3>6. OneShot' /\ ~Cancelled' => test' = "passed"
      BY <1>1 DEF IInv, ShuttingDown
    <3>7. ShuttingDown'
      BY <1>1, <3>3, <3>4, <3>5, <3>6, Zenon DEF ShuttingDown, Skipped
    <3> QED BY <3>2, <3>7
  <2>4. Serving' /\ Flags'
    BY <1>1, <1>4, <2>1, OrderStays DEF IInv, Serving, Flags, Skipped, Onward
  <2>5. StoppedInOrder'
    <3> SUFFICES ASSUME NEW v \in killed', NEW u \in Targets, v \in Needs[u], ~Skipped(u)
                 PROVE  proc'[u] # "running"
      BY DEF StoppedInOrder, Skipped, Needs
    <3>1. proc[u] # "running"
      <4>1. CASE v = t
        <5>1. status[u] = "completed"
          BY <1>1, <4>1, NeededByCompleted
        <5> QED BY <1>1, <5>1 DEF IInv, ShuttingDown
      <4>2. CASE v # t
        BY <1>4, <4>2 DEF IInv, Safety, StoppedInOrder
      <4> QED BY <4>1, <4>2
    <3> QED BY <2>1, <3>1 DEF Onward
  <2>6. StartedInOrder'
    BY <2>1, OrderStays
  <2>7. OkMeansStopped' /\ TestVerdict' /\ EnforcedShutdown'
    BY <1>1, <2>2 DEF OkMeansStopped, TestVerdict, EnforcedShutdown
  <2> QED BY <2>3, <2>4, <2>5, <2>6, <2>7 DEF Kept, Safety
<1> QED BY <1>3, <1>4 DEF Signal

LEMMA EscalateKeeps == ASSUME IInv, NEW t \in Targets, Escalate(t) PROVE Kept
<1> USE DEF testing, OneShot, Cancelled
<1>1. /\ main = "stopping" /\ status[t] = "running" /\ t \in killed
      /\ UNCHANGED <<mode, main, exit, signals, firstErr, passed, killed, told, reports,
                     testing>>
  BY DEF Escalate, Stopping
<1>2. CASE /\ overdue' = overdue \cup {t} /\ UNCHANGED <<status, stopping, outcome>>
           /\ \/ ExitOf(t, "error") /\ proc[t] = "running"
              \/ UNCHANGED <<proc, how>>
  <2>1. Onward
    BY <1>1, <1>2 DEF IInv, TypeOK, Onward, ExitOf
  <2>2. Serving' /\ Flags' /\ Safety'
    BY <1>1, <1>2, <2>1, MainWaits DEF IInv, Flags
  <2>3. Booting' /\ Returned'
    BY <1>1, <1>2 DEF IInv, Booting, Returned
  <2>4. ShuttingDown'
    BY <1>1, <1>2, <2>1 DEF IInv, ShuttingDown, Skipped, Onward
  <2> QED BY <2>2, <2>3, <2>4 DEF Kept
<1>3. CASE Stopper!Fail(t) /\ UNCHANGED <<proc, how, overdue>>
  BY <1>1, <1>3, StopStep DEF services
<1> QED BY <1>2, <1>3 DEF Escalate

LEMMA StoppedKeeps == ASSUME IInv, NEW t \in Targets, Stopped(t) PROVE Kept
BY StopStep DEF Stopped, Stopping

\* The test exits, and the signals of the user.
LEMMA OutsideKeeps ==
  ASSUME IInv, TestExits \/ CtrlC \/ Exited \/ UNCHANGED vars PROVE Kept
<1> USE DEF vars, order, services, testing, OneShot, Cancelled
<1>1. Onward
  BY DEF Onward, TestExits, CtrlC, Exited
<1>2. CASE TestExits
  <2> USE DEF TestExits
  <2>1. main # "exited" /\ main # "starting" /\ exit = "none"
    BY <1>2 DEF IInv, Booting, Flags
  <2>2. Booting' /\ Returned'
    BY <1>2, <2>1 DEF IInv, Booting, Returned
  <2>3. ShuttingDown'
    BY <1>2, <2>1 DEF IInv, ShuttingDown, Skipped
  <2>4. Serving' /\ Flags'
    BY <1>1, <1>2, OrderStays DEF IInv, Serving, Flags, Skipped
  <2>5. Safety'
    BY <1>1, <1>2, <2>1, OrderStays
    DEF Safety, OkMeansStopped, TestVerdict, EnforcedShutdown
  <2> QED BY <2>2, <2>3, <2>4, <2>5 DEF Kept
<1>3. CASE CtrlC /\ signals = 0
  <2> USE DEF CtrlC
  <2>1. main # "exited" /\ exit = "none"
    BY <1>3 DEF IInv, Flags
  <2>2. Booting' /\ Returned'
    BY <1>3 DEF IInv, Booting, Returned, Served, Skipped
  <2>3. ShuttingDown' /\ Flags'
    BY <1>3, <2>1 DEF IInv, TypeOK, ShuttingDown, Flags, Skipped
  <2>4. Serving'
    BY <1>1, <1>3, OrderStays DEF IInv, Serving
  <2>5. Safety'
    BY <1>1, <1>3, <2>1, OrderStays
    DEF Safety, OkMeansStopped, TestVerdict, EnforcedShutdown
  <2> QED BY <2>2, <2>3, <2>4, <2>5 DEF Kept
<1>4. CASE CtrlC /\ signals # 0
  BY <1>4, ExitKeeps DEF CtrlC, Exits, IInv, TypeOK, Flags
<1>5. CASE Exited \/ UNCHANGED vars
  <2> USE DEF Exited
  <2>1. Booting' /\ Returned'
    <3>1. \A t \in Targets : Served(t)' <=> Served(t)
      BY <1>5 DEF Served
    <3> QED BY <1>5, <3>1 DEF IInv, Booting, Returned, Skipped
  <2>2. ShuttingDown' /\ Flags'
    BY <1>5 DEF IInv, ShuttingDown, Flags, Skipped
  <2>3. Serving'
    BY <1>1, <1>5, OrderStays DEF IInv, Serving
  <2>4. Safety'
    BY <1>1, <1>5, OrderStays
    DEF IInv, Safety, OkMeansStopped, TestVerdict, EnforcedShutdown
  <2> QED BY <2>1, <2>2, <2>3, <2>4 DEF Kept
<1> QED BY <1>2, <1>3, <1>4, <1>5

LEMMA StepIInv == IInv /\ [Next]_vars => IInv'
<1> SUFFICES ASSUME IInv, [Next]_vars PROVE IInv'
  OBVIOUS
<1>1. TypeOK'
  BY TypeStep DEF IInv
<1>2. Kept
  <2>1. ASSUME NEW t \in Targets, TargetStep(t) \/ Healthy(t) \/ WaiterStep(t)
        PROVE  Kept
    BY <2>1, ScheduleKeeps, SkipKeeps, LaunchKeeps, WaitUntilHealthyKeeps, SignalKeeps,
       EscalateKeeps, StoppedKeeps, ProcessStep
    DEF TargetStep, WaiterStep
  <2>2. ASSUME NEW t \in Targets, Exit(t) \/ KilledByContext(t) PROVE Kept
    BY <2>2, ProcessStep
  <2> QED BY <2>1, <2>2, MainKeeps, OutsideKeeps DEF Next
<1> QED BY <1>1, <1>2 DEF IInv, Kept

-----------------------------------------------------------------------------
\* In every execution of svcinit, for any targets, dependencies and mode, the invariant
\* holds: what the worker pool calls completed serves (StartAll) or has no process
\* (StopAll).
THEOREM Invariance == Spec => []IInv
<1>1. Init => IInv
  BY InitIInv
<1>2. IInv /\ [Next]_vars => IInv'
  BY StepIInv
<1> QED BY <1>1, <1>2, PTL DEF Spec

\* The state of main, of its channels and of every target's process is typed.
THEOREM TypeCorrect == Spec => []TypeOK
<1>1. IInv => TypeOK
  BY DEF IInv
<1> QED BY <1>1, Invariance, PTL

\* StartAll starts nothing before everything it needs, however indirectly, serves.
THEOREM StartsInOrder == Spec => []StartedInOrder
<1>1. IInv => StartedInOrder
  BY DEF IInv, Safety
<1> QED BY <1>1, Invariance, PTL

\* The test runs only once every target that is not deferred serves.
THEOREM TestComesLast == Spec => []TestAfterStartup
<1>1. IInv => TestAfterStartup
  BY DEF IInv, Serving, AllServe, TestAfterStartup
<1> QED BY <1>1, Invariance, PTL

\* StopAll signals nothing that something else still running needs.
THEOREM StopsInOrder == Spec => []StoppedInOrder
<1>1. IInv => StoppedInOrder
  BY DEF IInv, Safety
<1> QED BY <1>1, Invariance, PTL

\* An svcinit that exits with status 0 has left no process of its targets.
THEOREM OkLeavesNothing == Spec => []OkMeansStopped
<1>1. IInv => OkMeansStopped
  BY DEF IInv, Safety
<1> QED BY <1>1, Invariance, PTL

\* A one-shot svcinit that nobody interrupts and that exits with status 0 has seen its
\* test pass.
THEOREM VerdictIsTheTests == Spec => []TestVerdict
<1>1. IInv => TestVerdict
  BY DEF IInv, Safety
<1> QED BY <1>1, Invariance, PTL

\* An svcinit that exits with status 0 killed no service whose graceful shutdown is
\* enforced.
THEOREM GracefulIsEnforced == Spec => []EnforcedShutdown
<1>1. IInv => EnforcedShutdown
  BY DEF IInv, Safety
<1> QED BY <1>1, Invariance, PTL

=============================================================================
