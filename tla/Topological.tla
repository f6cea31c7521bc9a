---------------------------- MODULE Topological ----------------------------
(***************************************************************************)
(* The worker pool of runner/topological/runner.go.  A fixed number of     *)
(* goroutines share a mutex, a condition variable and the fields it        *)
(* guards; each loops: lock, take a ready task or wait on the condition    *)
(* variable, unlock, run the task, lock, record the result.                *)
(*                                                                         *)
(* The pending list ts.tasks is a set: its order is the iteration order of *)
(* a Go map (topo.go, allTasks), so "the first ready task" may be any      *)
(* ready task.  A task's Run is the environment: it returns nil or an      *)
(* error, and a task in Hanging need not return (a service that never      *)
(* becomes healthy and has no health_check_timeout).                       *)
(***************************************************************************)
CONSTANTS Tasks,     \* what uniqueDeps returned: a set closed under Deps
          Deps,      \* Deps[t]: the keys of t.Dependents()
          Workers,   \* the 2*NumCPU+1 goroutines Run starts
          Hanging,   \* the tasks whose Run need not return
          NoTask     \* Go's nil

\* Dependents() stays within the set uniqueDeps closed.
ASSUME DepsAssumption == Deps \in [Tasks -> SUBSET Tasks]
\* Bazel rejects dependency cycles, so every non-empty set of services has
\* one that depends on no other of the set.
ASSUME AcyclicAssumption ==
  \A S \in SUBSET Tasks : S # {} => \E t \in S : Deps[t] \cap S = {}
\* Run starts at least one worker ("i <= NumCPU*2").
ASSUME WorkersAssumption == Workers # {}
ASSUME NoTaskAssumption == NoTask \notin Tasks \cup Workers
ASSUME HangingAssumption == Hanging \subseteq Tasks

VARIABLES tasks,      \* not yet taken
          completed,  \* marked done
          die,        \* a failure was recorded
          err,        \* the task whose error was recorded, or NoTask
          lock,       \* the holder of cv.L, or NoTask
          pc,         \* where each worker is
          current,    \* each worker's local "task"
          failed,     \* each worker's local "performErr != nil"
          returned    \* wg.Wait() is over: Run has returned err

shared == <<tasks, completed, die, err>>
vars == <<tasks, completed, die, err, lock, pc, current, failed, returned>>

\* "lock": about to Lock for the first time.  "loop": at the head of the loop,
\* lock held.  "waiting": parked in cv.Wait.  "woken": cv.Wait must re-acquire
\* the lock.  "running": in task.Run, lock free.  "ran": Run has returned, about
\* to Lock.  "done": wg.Done called.
Locations == {"lock", "loop", "waiting", "woken", "running", "ran", "done"}

TypeOK ==
  /\ tasks \in SUBSET Tasks
  /\ completed \in SUBSET Tasks
  /\ die \in BOOLEAN
  /\ err \in Tasks \cup {NoTask}
  /\ lock \in Workers \cup {NoTask}
  /\ pc \in [Workers -> Locations]
  /\ current \in [Workers -> Tasks \cup {NoTask}]
  /\ failed \in [Workers -> BOOLEAN]
  /\ returned \in BOOLEAN

Init ==
  /\ tasks = Tasks
  /\ completed = {}
  /\ die = FALSE
  /\ err = NoTask
  /\ lock = NoTask
  /\ pc = [w \in Workers |-> "lock"]
  /\ current = [w \in Workers |-> NoTask]
  /\ failed = [w \in Workers |-> FALSE]
  /\ returned = FALSE

\* The workers that have a task whose result is not recorded yet.
InFlight == {w \in Workers : pc[w] \in {"running", "ran"}}

\* Mutants of Ready: one completed dependency is enough; one task at a time.
Ready_AnyDependency(t) == Deps[t] = {} \/ Deps[t] \cap completed # {}
Ready_Serial(t) == Deps[t] \subseteq completed /\ InFlight = {}

Ready(t) == Deps[t] \subseteq completed

\* pc after worker w moves to l, without and with a Broadcast.
Goto(w, l) == [pc EXCEPT ![w] = l]
BroadcastAndGoto_NoBroadcast(w, l) == Goto(w, l)   \* mutant
BroadcastAndGoto(w, l) ==
  [v \in Workers |->
     IF v = w THEN l ELSE IF pc[v] = "waiting" THEN "woken" ELSE pc[v]]

\* cv.L.Lock() at the top of worker, or inside cv.Wait after a Broadcast; nextTask
\* then returns nil and the loop continues.
Lock(w) ==
  /\ pc[w] \in {"lock", "woken"}
  /\ lock = NoTask
  /\ lock' = w
  /\ pc' = Goto(w, "loop")
  /\ UNCHANGED <<shared, current, failed, returned>>

\* The loop's condition.
Continue_IgnoresDie == tasks # {}   \* mutant
Continue == tasks # {} /\ ~die

\* ts.tasks once t is taken out of it.
Without_Kept(t) == tasks   \* mutant: the removal is forgotten
Without(t) == tasks \ {t}

\* nextTask finds a ready task, removes it, and the worker unlocks and runs it.
Take(w) ==
  /\ pc[w] = "loop"
  /\ Continue
  /\ \E t \in tasks :
       /\ Ready(t)
       /\ tasks' = Without(t)
       /\ current' = [current EXCEPT ![w] = t]
  /\ lock' = NoTask
  /\ pc' = Goto(w, "running")
  /\ UNCHANGED <<completed, die, err, failed, returned>>

\* nextTask finds nothing ready: cv.Wait parks the worker and releases the lock.
Wait(w) ==
  /\ pc[w] = "loop"
  /\ Continue
  /\ \A t \in tasks : ~Ready(t)
  /\ lock' = NoTask
  /\ pc' = Goto(w, "waiting")
  /\ UNCHANGED <<shared, current, failed, returned>>

\* The loop ends: unlock, wg.Done.
Leave(w) ==
  /\ pc[w] = "loop"
  /\ ~Continue
  /\ lock' = NoTask
  /\ pc' = Goto(w, "done")
  /\ UNCHANGED <<shared, current, failed, returned>>

\* task.Run(ctx) returns, with or without an error.
RunReturns(w) ==
  /\ pc[w] = "running"
  /\ \E b \in BOOLEAN : failed' = [failed EXCEPT ![w] = b]
  /\ pc' = Goto(w, "ran")
  /\ UNCHANGED <<shared, lock, current, returned>>

\* Mutant of MarkDone: the local is cleared before its key is marked.
MarkDone_TaskCleared(w) ==
  /\ pc[w] = "ran" /\ ~failed[w] /\ lock = NoTask
  /\ lock' = w
  /\ current' = [current EXCEPT ![w] = NoTask]
  /\ completed' = completed \cup {current'[w]}
  /\ pc' = BroadcastAndGoto(w, "loop")
  /\ UNCHANGED <<tasks, die, err, failed, returned>>

\* Lock, markDone with its Broadcast, and back to the loop, lock held.
MarkDone(w) ==
  /\ pc[w] = "ran"
  /\ ~failed[w]
  /\ lock = NoTask
  /\ lock' = w
  /\ completed' = completed \cup {current[w]}
  /\ current' = [current EXCEPT ![w] = NoTask]
  /\ pc' = BroadcastAndGoto(w, "loop")
  /\ UNCHANGED <<tasks, die, err, failed, returned>>

\* Mutants of SetErr: the worker just leaves its loop; the last error wins.
SetErr_BreakOnly(w) ==
  /\ pc[w] = "ran" /\ failed[w] /\ lock = NoTask
  /\ pc' = Goto(w, "done")
  /\ UNCHANGED <<shared, lock, current, failed, returned>>
\* Lock, setErr, break out of the loop, Unlock, wg.Done.  Only the first error is
\* kept, and only it is broadcast.
SetErr(w) ==
  /\ pc[w] = "ran"
  /\ failed[w]
  /\ lock = NoTask
  /\ IF err # NoTask
       THEN pc' = Goto(w, "done") /\ UNCHANGED <<die, err>>
       ELSE /\ err' = current[w]
            /\ die' = TRUE
            /\ pc' = BroadcastAndGoto(w, "done")
  /\ UNCHANGED <<tasks, completed, lock, current, failed, returned>>

\* wg.Wait() returns once every worker has called wg.Done.
Return ==
  /\ ~returned
  /\ \A w \in Workers : pc[w] = "done"
  /\ returned' = TRUE
  /\ UNCHANGED <<shared, lock, pc, current, failed>>

\* Nothing is left to do: stuttering, so that TLC reports every other deadlock.
Terminated == returned /\ UNCHANGED vars

Step(w) ==
  \/ Lock(w) \/ Take(w) \/ Wait(w) \/ Leave(w)
  \/ MarkDone(w) \/ SetErr(w)

Next ==
  \/ \E w \in Workers : Step(w) \/ RunReturns(w)
  \/ Return
  \/ Terminated

\* The Go scheduler runs every goroutine that can run and hands a free mutex to
\* some waiter; a Run that is not of a Hanging task returns.
Fairness ==
  /\ \A w \in Workers : WF_vars(Step(w))
  /\ \A w \in Workers : WF_vars(current[w] \notin Hanging /\ RunReturns(w))
  /\ WF_vars(Return)

Spec == Init /\ [][Next]_vars
FairSpec == Spec /\ Fairness

-----------------------------------------------------------------------------
Failed == {current[w] : w \in {v \in Workers : pc[v] = "done" /\ failed[v]}}

\* A task is running only when everything it depends on has been marked done,
\* and what has been marked done is closed under dependencies (ready, nextTask).
DependenciesFirst ==
  /\ \A w \in InFlight : Deps[current[w]] \subseteq completed
  /\ \A t \in completed : Deps[t] \subseteq completed

\* No task is lost and none is run twice: each is pending, held by exactly one
\* worker, completed, or failed (nextTask's removal from the list, markDone).
EachTaskOnce ==
  /\ \A w \in InFlight : current[w] \in Tasks \ (tasks \cup completed \cup Failed)
  /\ \A v, w \in InFlight : v # w => current[v] # current[w]
  /\ tasks \cap completed = {}
  /\ Failed \cap (tasks \cup completed) = {}
  /\ Tasks = tasks \cup completed \cup Failed \cup {current[w] : w \in InFlight}

\* cv.L is held by at most one worker, the one in a critical section.
MutualExclusion == \A w \in Workers : pc[w] = "loop" <=> lock = w

\* No lost wakeup: while a worker is parked in cv.Wait, no failure has been
\* recorded and some task is in flight whose markDone or setErr will broadcast.
NoLostWakeup ==
  (\E w \in Workers : pc[w] = "waiting") => ~die /\ InFlight # {}

\* A task whose dependency failed is never taken, even by a worker that has not
\* seen the failure yet.
FailureBlocksDependents ==
  \A t \in Tasks : Deps[t] \cap Failed # {} => t \in tasks

\* Run returns nil only if every task was run to completion (the callers treat
\* nil as "everything is up" and "everything is stopped").
NilMeansAllCompleted == returned /\ err = NoTask => completed = Tasks

\* Once a failure is recorded no worker starts another task (the loop's !ts.die).
StartsOnlyBeforeDie ==
  \A w \in Workers : die /\ pc'[w] = "running" => pc[w] = "running"
NoStartAfterDie == [][StartsOnlyBeforeDie]_vars

\* The first error is the one Run returns (setErr's early return).
FirstErrorKept == [][err # NoTask => err' = err]_vars

\* Run returns, whatever fails, unless some task's Run never does.
Hangs == \E w \in Workers : pc[w] = "running" /\ current[w] \in Hanging
Termination == <>returned \/ <>[]Hangs

\* As long as fewer tasks hang than there are workers, every task that does not
\* depend on a hanging one is completed, unless some task fails.
Unblocked == {t \in Tasks :
  \E S \in SUBSET Tasks :
     t \in S /\ S \cap Hanging = {} /\ \A u \in S : Deps[u] \subseteq S}
OthersProceed == \A t \in Unblocked : <>(t \in completed \/ die)

-----------------------------------------------------------------------------
\* The pool implements DependencyOrder: a task stays "running" there until its
\* result is recorded.
StatusBar == [t \in Tasks |->
  IF t \in tasks THEN "pending"
  ELSE IF t \in completed THEN "completed"
  ELSE IF t \in Failed THEN "failed"
  ELSE "running"]
OutcomeBar == IF ~returned THEN "open" ELSE IF err = NoTask THEN "ok" ELSE "error"

Order == INSTANCE DependencyOrder
           WITH status <- StatusBar, stopping <- die, outcome <- OutcomeBar
OrderSpec == Order!Spec

=============================================================================
