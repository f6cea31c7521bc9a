-------------------------- MODULE TopologicalProofs --------------------------
(***************************************************************************)
(* For every acyclic set of tasks and every non-empty set of workers: the  *)
(* safety invariants of the worker pool, its two action properties, and    *)
(* that it implements DependencyOrder.  Everything follows from one        *)
(* inductive invariant, IInv.                                              *)
(***************************************************************************)
EXTENDS Topological, TLAPS

\* What pc says of a worker's locals: it holds a task from Take until the task is
\* marked done, and for ever if the task failed.
LocalsOK ==
  \A w \in Workers :
    /\ current[w] # NoTask <=>
         pc[w] \in {"running", "ran"} \/ (pc[w] = "done" /\ failed[w])
    /\ failed[w] => pc[w] \in {"ran", "done"}

\* EachTaskOnce, task by task and worker by worker.
HeldOnce ==
  /\ \A w \in Workers : current[w] # NoTask => current[w] \notin tasks \cup completed
  /\ \A v, w \in Workers : v # w /\ current[v] # NoTask => current[v] # current[w]
  /\ \A t \in Tasks :
       t \in tasks \/ t \in completed \/ \E w \in Workers : current[w] = t
  /\ tasks \cap completed = {}

\* Whatever has been taken had all its dependencies completed.
TakenReady == \A t \in Tasks : t \notin tasks => Ready(t)

\* die and err are set together, and a failed task has set them.
DieMeansErr ==
  /\ die <=> err # NoTask
  /\ \A w \in Workers : pc[w] = "done" /\ failed[w] => die

\* A worker leaves only when there is nothing left to take or a failure.
DoneMeansOver ==
  /\ \A w \in Workers : pc[w] = "done" => die \/ tasks = {}
  /\ returned => \A w \in Workers : pc[w] = "done"

IInv ==
  /\ TypeOK
  /\ MutualExclusion
  /\ LocalsOK
  /\ HeldOnce
  /\ TakenReady
  /\ DieMeansErr
  /\ DoneMeansOver
  /\ NoLostWakeup

-----------------------------------------------------------------------------
LEMMA InitIInv == Init => IInv
<1> SUFFICES ASSUME Init PROVE IInv
  OBVIOUS
<1> USE DEF Init
<1>1. TypeOK
  BY NoTaskAssumption DEF TypeOK, Locations
<1>2. MutualExclusion
  BY NoTaskAssumption DEF MutualExclusion
<1>3. LocalsOK /\ HeldOnce /\ TakenReady
  BY DEF LocalsOK, HeldOnce, TakenReady
<1>4. DieMeansErr /\ DoneMeansOver /\ NoLostWakeup
  BY DEF DieMeansErr, DoneMeansOver, NoLostWakeup
<1> QED
  BY <1>1, <1>2, <1>3, <1>4 DEF IInv

\* When a worker finds nothing ready and no failure, some task is in flight: this
\* is where acyclicity is needed.
LEMMA SomethingInFlight ==
  ASSUME TypeOK, LocalsOK, HeldOnce, DieMeansErr, Continue,
         \A t \in tasks : ~Ready(t)
  PROVE  InFlight # {}
<1>1. PICK t \in tasks : Deps[t] \cap tasks = {}
  BY AcyclicAssumption DEF TypeOK, Continue
<1>2. PICK d \in Deps[t] : d \notin completed
  BY DEF Ready
<1>3. d \in Tasks /\ d \notin tasks
  BY <1>1, <1>2, DepsAssumption DEF TypeOK
<1>4. PICK w \in Workers : current[w] = d
  BY <1>2, <1>3 DEF HeldOnce
<1>5. pc[w] \in {"running", "ran"}
  BY <1>3, <1>4, NoTaskAssumption DEF LocalsOK, DieMeansErr, Continue
<1> QED
  BY <1>5 DEF InFlight

LEMMA NextIInv == IInv /\ [Next]_vars => IInv'
<1> SUFFICES ASSUME IInv, [Next]_vars PROVE IInv'
  OBVIOUS
<1> USE DEF IInv
<1>1. ASSUME NEW w \in Workers, Lock(w) PROVE IInv'
  <2> USE <1>1 DEF Lock, Goto, shared
  <2>1. TypeOK'
    BY DEF TypeOK, Locations
  <2>2. MutualExclusion'
    BY NoTaskAssumption DEF TypeOK, MutualExclusion
  <2>3. (LocalsOK /\ HeldOnce /\ TakenReady)'
    BY DEF TypeOK, LocalsOK, HeldOnce, TakenReady, Ready
  <2>4. (DieMeansErr /\ DoneMeansOver)'
    BY DEF TypeOK, DieMeansErr, DoneMeansOver
  <2>5. NoLostWakeup'
    BY DEF TypeOK, NoLostWakeup, InFlight
  <2> QED
    BY <2>1, <2>2, <2>3, <2>4, <2>5
<1>2. ASSUME NEW w \in Workers, Take(w) PROVE IInv'
  <2>1. PICK t \in tasks : /\ Ready(t)
                           /\ tasks' = tasks \ {t}
                           /\ current' = [current EXCEPT ![w] = t]
    BY <1>2 DEF Take, Without
  <2>2. /\ pc[w] = "loop" /\ lock = w /\ lock' = NoTask /\ current[w] = NoTask
        /\ pc' = [pc EXCEPT ![w] = "running"]
        /\ UNCHANGED <<completed, die, err, failed, returned>>
        /\ t \in Tasks /\ t # NoTask /\ ~die
    BY <1>2, <2>1, NoTaskAssumption
    DEF Take, Goto, TypeOK, MutualExclusion, LocalsOK, Continue
  <2> HIDE <1>2
  <2>3. TypeOK'
    BY <2>1, <2>2 DEF TypeOK, Locations
  <2>4. MutualExclusion'
    BY <2>2, NoTaskAssumption DEF TypeOK, MutualExclusion
  <2>5. LocalsOK'
    BY <2>1, <2>2 DEF TypeOK, LocalsOK
  <2>6. HeldOnce'
    <3>1. \A v \in Workers : current'[v] = IF v = w THEN t ELSE current[v]
      BY <2>1, <2>2 DEF TypeOK
    <3>2. t \notin completed /\ t \notin tasks'
      BY <2>1 DEF HeldOnce
    <3>3. \A v \in Workers : current[v] # t
      BY <2>2 DEF HeldOnce
    <3>4. \A v \in Workers : current'[v] # NoTask => current'[v] \notin (tasks \cup completed)'
      BY <2>1, <2>2, <3>1, <3>2 DEF HeldOnce
    <3>5. \A u, v \in Workers : u # v /\ current'[u] # NoTask => current'[u] # current'[v]
      BY <3>1, <3>3 DEF HeldOnce
    <3>6. ASSUME NEW u \in Tasks
          PROVE  u \in tasks' \/ u \in completed' \/ \E v \in Workers : current'[v] = u
      <4>1. CASE u = t
        BY <3>1, <4>1
      <4>2. CASE u # t /\ (u \in tasks \/ u \in completed)
        BY <2>1, <2>2, <4>2
      <4>3. ASSUME NEW v \in Workers, current[v] = u
            PROVE  current'[v] = u
        BY <2>2, <3>1, <4>3, NoTaskAssumption
      <4> QED
        BY <4>1, <4>2, <4>3 DEF HeldOnce
    <3>7. (tasks \cap completed)' = {}
      BY <2>1, <2>2 DEF HeldOnce
    <3> QED
      BY <3>4, <3>5, <3>6, <3>7 DEF HeldOnce
  <2>7. TakenReady'
    BY <2>1, <2>2 DEF TakenReady, Ready
  <2>8. (DieMeansErr /\ DoneMeansOver)'
    BY <2>1, <2>2 DEF TypeOK, DieMeansErr, DoneMeansOver
  <2>9. NoLostWakeup'
    BY <2>2 DEF TypeOK, NoLostWakeup, InFlight
  <2> QED
    BY <2>3, <2>4, <2>5, <2>6, <2>7, <2>8, <2>9
<1>3. ASSUME NEW w \in Workers, Wait(w) PROVE IInv'
  <2>1. InFlight # {} /\ ~die
    BY <1>3, SomethingInFlight DEF Wait, Continue
  <2> USE <1>3 DEF Wait, Goto, shared
  <2>2. TypeOK'
    BY DEF TypeOK, Locations
  <2>3. MutualExclusion'
    BY NoTaskAssumption DEF TypeOK, MutualExclusion
  <2>4. (LocalsOK /\ HeldOnce /\ TakenReady)'
    BY DEF TypeOK, LocalsOK, HeldOnce, TakenReady, Ready
  <2>5. (DieMeansErr /\ DoneMeansOver)'
    BY DEF TypeOK, DieMeansErr, DoneMeansOver
  <2>6. NoLostWakeup'
    BY <2>1 DEF TypeOK, NoLostWakeup, InFlight
  <2> QED
    BY <2>2, <2>3, <2>4, <2>5, <2>6
<1>4. ASSUME NEW w \in Workers, Leave(w) PROVE IInv'
  <2> USE <1>4 DEF Leave, Goto, shared
  <2>1. TypeOK'
    BY DEF TypeOK, Locations
  <2>2. MutualExclusion'
    BY NoTaskAssumption DEF TypeOK, MutualExclusion
  <2>3. (LocalsOK /\ HeldOnce /\ TakenReady)'
    BY DEF TypeOK, LocalsOK, HeldOnce, TakenReady, Ready
  <2>4. (DieMeansErr /\ DoneMeansOver)'
    BY DEF TypeOK, LocalsOK, DieMeansErr, DoneMeansOver, Continue
  <2>5. NoLostWakeup'
    BY DEF TypeOK, NoLostWakeup, InFlight
  <2> QED
    BY <2>1, <2>2, <2>3, <2>4, <2>5
<1>5. ASSUME NEW w \in Workers, RunReturns(w) PROVE IInv'
  <2> USE <1>5 DEF RunReturns, Goto, shared
  <2>1. TypeOK'
    BY DEF TypeOK, Locations
  <2>2. MutualExclusion'
    BY DEF TypeOK, MutualExclusion
  <2>3. (LocalsOK /\ HeldOnce /\ TakenReady)'
    BY DEF TypeOK, LocalsOK, HeldOnce, TakenReady, Ready
  <2>4. (DieMeansErr /\ DoneMeansOver)'
    BY DEF TypeOK, DieMeansErr, DoneMeansOver
  <2>5. NoLostWakeup'
    BY DEF TypeOK, NoLostWakeup, InFlight
  <2> QED
    BY <2>1, <2>2, <2>3, <2>4, <2>5
<1>6. ASSUME NEW w \in Workers, MarkDone(w) PROVE IInv'
  <2> DEFINE t == current[w]
  <2>1. /\ t \in Tasks /\ t # NoTask
        /\ pc[w] = "ran" /\ lock = NoTask /\ lock' = w
        /\ completed' = completed \cup {t}
        /\ current' = [current EXCEPT ![w] = NoTask]
        /\ pc' = BroadcastAndGoto(w, "loop")
        /\ UNCHANGED <<tasks, die, err, failed, returned>> /\ ~failed[w]
    BY <1>6 DEF MarkDone, TypeOK, LocalsOK
  <2> HIDE DEF t
  <2>2. TypeOK'
    BY <2>1 DEF TypeOK, Locations, BroadcastAndGoto
  <2>3. MutualExclusion'
    BY <2>1, NoTaskAssumption DEF TypeOK, MutualExclusion, BroadcastAndGoto
  <2>4. LocalsOK'
    BY <2>1 DEF TypeOK, LocalsOK, BroadcastAndGoto
  <2>5. HeldOnce'
    BY <2>1, NoTaskAssumption DEF TypeOK, HeldOnce, t
  <2>6. TakenReady'
    BY <2>1 DEF TakenReady, Ready
  <2>7. (DieMeansErr /\ DoneMeansOver)'
    BY <2>1 DEF TypeOK, DieMeansErr, DoneMeansOver, BroadcastAndGoto
  <2>8. NoLostWakeup'
    BY <2>1 DEF TypeOK, NoLostWakeup, BroadcastAndGoto
  <2> QED
    BY <2>2, <2>3, <2>4, <2>5, <2>6, <2>7, <2>8
<1>7. ASSUME NEW w \in Workers, SetErr(w) PROVE IInv'
  <2>1. /\ pc[w] = "ran" /\ failed[w] /\ lock = NoTask
        /\ current[w] # NoTask /\ current[w] \in Tasks
        /\ UNCHANGED <<tasks, completed, lock, current, failed, returned>>
    BY <1>7 DEF SetErr, TypeOK, LocalsOK
  <2>2. CASE err # NoTask
    <3>1. pc' = [pc EXCEPT ![w] = "done"] /\ UNCHANGED <<die, err>>
      BY <1>7, <2>2 DEF SetErr, Goto
    <3>2. die
      BY <2>2 DEF DieMeansErr
    <3>3. TypeOK'
      BY <2>1, <3>1 DEF TypeOK, Locations
    <3>4. MutualExclusion'
      BY <2>1, <3>1 DEF TypeOK, MutualExclusion
    <3>5. (LocalsOK /\ HeldOnce /\ TakenReady)'
      BY <2>1, <3>1 DEF TypeOK, LocalsOK, HeldOnce, TakenReady, Ready
    <3>6. (DieMeansErr /\ DoneMeansOver)'
      BY <2>1, <3>1, <3>2 DEF TypeOK, DieMeansErr, DoneMeansOver
    <3>7. NoLostWakeup'
      BY <2>1, <3>1, <3>2 DEF TypeOK, NoLostWakeup
    <3> QED
      BY <3>3, <3>4, <3>5, <3>6, <3>7
  <2>3. CASE err = NoTask
    <3>1. pc' = BroadcastAndGoto(w, "done") /\ die' = TRUE /\ err' = current[w]
      BY <1>7, <2>3 DEF SetErr
    <3>2. TypeOK'
      BY <2>1, <3>1 DEF TypeOK, Locations, BroadcastAndGoto
    <3>3. MutualExclusion'
      BY <2>1, <3>1, NoTaskAssumption DEF TypeOK, MutualExclusion, BroadcastAndGoto
    <3>4. LocalsOK'
      BY <2>1, <3>1 DEF TypeOK, LocalsOK, BroadcastAndGoto
    <3>5. (HeldOnce /\ TakenReady)'
      BY <2>1 DEF HeldOnce, TakenReady, Ready
    <3>6. (DieMeansErr /\ DoneMeansOver)'
      BY <2>1, <3>1 DEF TypeOK, DieMeansErr, DoneMeansOver, BroadcastAndGoto
    <3>7. NoLostWakeup'
      BY <2>1, <3>1 DEF TypeOK, NoLostWakeup, BroadcastAndGoto
    <3> QED
      BY <3>2, <3>3, <3>4, <3>5, <3>6, <3>7
  <2> QED
    BY <2>2, <2>3
<1>8. CASE Return
  BY <1>8 DEF Return, shared, TypeOK, MutualExclusion, LocalsOK, HeldOnce,
    TakenReady, Ready, DieMeansErr, DoneMeansOver, NoLostWakeup, InFlight
<1>9. CASE UNCHANGED vars
  BY <1>9 DEF vars, TypeOK, MutualExclusion, LocalsOK, HeldOnce,
    TakenReady, Ready, DieMeansErr, DoneMeansOver, NoLostWakeup, InFlight
<1> QED
  BY <1>1, <1>2, <1>3, <1>4, <1>5, <1>6, <1>7, <1>8, <1>9
  DEF Next, Step, Terminated

\* IInv holds in every reachable state of the pool.
THEOREM Invariance == Spec => []IInv
<1> QED
  BY InitIInv, NextIInv, PTL DEF Spec

-----------------------------------------------------------------------------
\* IInv gives the invariants the runs check.
LEMMA IInvTaskFacts ==
  ASSUME IInv
  PROVE  /\ \A w \in InFlight : current[w] \in Tasks \ (tasks \cup completed \cup Failed)
         /\ Failed \subseteq Tasks \ (tasks \cup completed)
<1>1. ASSUME NEW w \in InFlight
      PROVE  current[w] \in Tasks /\ current[w] \notin tasks \cup completed
  BY DEF IInv, TypeOK, LocalsOK, HeldOnce, InFlight
<1>2. ASSUME NEW w \in InFlight PROVE current[w] \notin Failed
  <2>1. SUFFICES ASSUME NEW v \in Workers, pc[v] = "done", current[v] = current[w]
                 PROVE FALSE
    BY DEF Failed
  <2>2. v # w /\ current[w] # NoTask /\ w \in Workers
    BY <2>1 DEF IInv, LocalsOK, InFlight
  <2> QED
    BY <2>1, <2>2 DEF IInv, HeldOnce
<1>3. ASSUME NEW w \in Workers, pc[w] = "done", failed[w]
      PROVE  current[w] \in Tasks \ (tasks \cup completed)
  BY <1>3 DEF IInv, TypeOK, LocalsOK, HeldOnce
<1> QED
  BY <1>1, <1>2, <1>3 DEF Failed

\* The type invariant of the pool.
THEOREM TypeCorrect == Spec => []TypeOK
<1>1. IInv => TypeOK
  BY DEF IInv
<1> QED
  BY <1>1, Invariance, PTL

\* A task is in flight or completed only when its dependencies are completed
\* (ready, nextTask).
THEOREM DependencyOrderHolds == Spec => []DependenciesFirst
<1>1. ASSUME IInv PROVE DependenciesFirst
  <2>1. ASSUME NEW w \in InFlight PROVE Deps[current[w]] \subseteq completed
    BY <1>1, IInvTaskFacts DEF IInv, TakenReady, Ready
  <2>2. ASSUME NEW t \in completed PROVE Deps[t] \subseteq completed
    BY <1>1 DEF IInv, TypeOK, HeldOnce, TakenReady, Ready
  <2> QED
    BY <2>1, <2>2 DEF DependenciesFirst
<1> QED
  BY <1>1, Invariance, PTL

\* No task is lost or run twice (nextTask, markDone).
THEOREM TasksRunOnce == Spec => []EachTaskOnce
<1>1. ASSUME IInv PROVE EachTaskOnce
  <2>1. ASSUME NEW v \in InFlight, NEW w \in InFlight, v # w PROVE current[v] # current[w]
    BY <1>1, <2>1 DEF IInv, LocalsOK, HeldOnce, InFlight
  <2>2. Failed \cap (tasks \cup completed) = {}
    BY <1>1, IInvTaskFacts
  <2>3. ASSUME NEW t \in Tasks, t \notin tasks, t \notin completed, t \notin Failed
        PROVE  \E w \in InFlight : current[w] = t
    <3>1. PICK w \in Workers : current[w] = t
      BY <1>1, <2>3 DEF IInv, HeldOnce
    <3>2. w \in InFlight
      BY <1>1, <2>3, <3>1, NoTaskAssumption DEF IInv, LocalsOK, Failed, InFlight
    <3> QED
      BY <3>1, <3>2
  <2>4. Tasks = tasks \cup completed \cup Failed \cup {current[w] : w \in InFlight}
    <3>1. tasks \subseteq Tasks /\ completed \subseteq Tasks /\ Failed \subseteq Tasks
      BY <1>1, IInvTaskFacts DEF IInv, TypeOK
    <3>2. {current[w] : w \in InFlight} \subseteq Tasks
      BY <1>1, IInvTaskFacts
    <3>3. Tasks \subseteq tasks \cup completed \cup Failed \cup {current[w] : w \in InFlight}
      BY <2>3
    <3> QED
      BY <3>1, <3>2, <3>3
  <2>5. tasks \cap completed = {}
    BY <1>1 DEF IInv, HeldOnce
  <2> QED
    BY <1>1, <2>1, <2>2, <2>4, <2>5, IInvTaskFacts DEF EachTaskOnce
<1> QED
  BY <1>1, Invariance, PTL

\* cv.L is held exactly by the worker that is in a critical section.
THEOREM LockHeldOnce == Spec => []MutualExclusion
<1>1. IInv => MutualExclusion
  BY DEF IInv
<1> QED
  BY <1>1, Invariance, PTL

\* A worker parked in cv.Wait is always owed a Broadcast (markDone, setErr).
THEOREM WaitersAreOwedAWakeup == Spec => []NoLostWakeup
<1>1. IInv => NoLostWakeup
  BY DEF IInv
<1> QED
  BY <1>1, Invariance, PTL

\* Nothing that depends on a failed task is ever taken.
THEOREM FailuresBlock == Spec => []FailureBlocksDependents
<1>1. ASSUME IInv PROVE FailureBlocksDependents
  <2>1. ASSUME NEW t \in Tasks, NEW d \in Deps[t], d \in Failed, t \notin tasks
        PROVE  FALSE
    BY <1>1, <2>1, IInvTaskFacts DEF IInv, TakenReady, Ready
  <2> QED
    BY <2>1 DEF FailureBlocksDependents
<1> QED
  BY <1>1, Invariance, PTL

\* Run returns nil only when every task has completed.
THEOREM NilIsCompletion == Spec => []NilMeansAllCompleted
<1>1. ASSUME IInv, returned, err = NoTask PROVE completed = Tasks
  <2>1. ~die /\ \A w \in Workers : pc[w] = "done" /\ ~failed[w]
    BY <1>1 DEF IInv, DieMeansErr, DoneMeansOver
  <2>2. tasks = {}
    BY <1>1, <2>1, WorkersAssumption DEF IInv, DoneMeansOver
  <2>3. \A w \in Workers : current[w] = NoTask
    BY <1>1, <2>1 DEF IInv, LocalsOK
  <2> QED
    BY <1>1, <2>2, <2>3, NoTaskAssumption DEF IInv, TypeOK, HeldOnce
<1> QED
  BY <1>1, Invariance, PTL DEF NilMeansAllCompleted

-----------------------------------------------------------------------------
\* Once a failure is recorded no worker starts a task (the loop's !ts.die).
THEOREM NothingStartsAfterDie == Spec => NoStartAfterDie
<1>1. ASSUME TypeOK, [Next]_vars PROVE StartsOnlyBeforeDie
  <2>1. ASSUME NEW w \in Workers,
               Lock(w) \/ Wait(w) \/ Leave(w) \/ RunReturns(w) \/ MarkDone(w) \/ SetErr(w)
        PROVE  \A v \in Workers : pc'[v] = "running" => pc[v] = "running"
    <3>1. pc' \in {pc} \cup {Goto(w, l) : l \in Locations \ {"running"}}
                     \cup {BroadcastAndGoto(w, l) : l \in Locations \ {"running"}}
      BY <2>1 DEF Lock, Wait, Leave, RunReturns, MarkDone, SetErr, Locations
    <3> QED
      BY <1>1, <3>1 DEF TypeOK, Goto, BroadcastAndGoto
  <2>2. ASSUME NEW w \in Workers, Take(w) PROVE ~die
    BY <2>2 DEF Take, Continue
  <2>3. CASE Return \/ UNCHANGED vars
    BY <2>3 DEF Return, vars, StartsOnlyBeforeDie
  <2> QED
    BY <1>1, <2>1, <2>2, <2>3 DEF Next, Step, Terminated, StartsOnlyBeforeDie
<1> QED
  BY <1>1, TypeCorrect, PTL DEF Spec, NoStartAfterDie

\* The error Run returns is the first one recorded (setErr).
THEOREM FirstErrorIsKept == Spec => FirstErrorKept
<1>1. ASSUME [Next]_vars, err # NoTask PROVE err' = err
  <2>1. ASSUME NEW w \in Workers, Step(w) \/ RunReturns(w) PROVE err' = err
    BY <1>1, <2>1 DEF Step, Lock, Take, Wait, Leave, MarkDone, SetErr, RunReturns, shared
  <2>2. CASE Return \/ UNCHANGED vars
    BY <2>2 DEF Return, vars, shared
  <2> QED
    BY <1>1, <2>1, <2>2 DEF Next, Terminated
<1> QED
  BY <1>1, PTL DEF Spec, FirstErrorKept

-----------------------------------------------------------------------------
(* The refinement. *)

\* A step that changes neither the lists nor which workers have failed is a
\* stutter of DependencyOrder.
LEMMA Stutter ==
  ASSUME IInv, UNCHANGED <<tasks, completed, die, err, returned>>,
         \A v \in Workers : (pc'[v] = "done" /\ failed'[v]) <=> (pc[v] = "done" /\ failed[v]),
         \A v \in Workers : pc[v] = "done" => current'[v] = current[v]
  PROVE  UNCHANGED Order!vars
<1>1. Failed' = Failed
  BY DEF Failed
<1>2. StatusBar' = StatusBar
  BY <1>1 DEF StatusBar
<1>3. OutcomeBar' = OutcomeBar
  BY DEF OutcomeBar
<1> QED
  BY <1>2, <1>3 DEF Order!vars

LEMMA InitRefines == Init => Order!Init
<1> SUFFICES ASSUME Init PROVE Order!Init
  OBVIOUS
<1>1. StatusBar = [t \in Tasks |-> "pending"]
  BY DEF Init, StatusBar
<1> QED
  BY <1>1 DEF Init, Order!Init, OutcomeBar

\* What StatusBar says of a task, from what its holder is doing.
LEMMA StatusFacts ==
  ASSUME IInv
  PROVE  /\ StatusBar \in [Tasks -> {"pending", "running", "completed", "failed"}]
         /\ \A t \in tasks : StatusBar[t] = "pending"
         /\ \A t \in completed : StatusBar[t] = "completed"
         /\ \A w \in InFlight : StatusBar[current[w]] = "running"
         /\ \A t \in Tasks : Order!Ready(t) <=> Ready(t)
<1>1. \A t \in Tasks : StatusBar[t] = "completed" <=> t \in completed
  BY DEF StatusBar, IInv, HeldOnce
<1>2. \A t \in Tasks : Order!Ready(t) <=> Ready(t)
  BY <1>1, DepsAssumption DEF Order!Ready, Ready
<1> QED
  BY <1>1, <1>2, IInvTaskFacts DEF StatusBar, IInv, TypeOK

LEMMA TakeRefines ==
  ASSUME IInv, NEW w \in Workers, Take(w)
  PROVE  \E t \in Tasks : Order!Start(t)
<1>1. PICK t \in tasks : /\ Ready(t)
                         /\ tasks' = tasks \ {t}
                         /\ current' = [current EXCEPT ![w] = t]
  BY DEF Take, Without
<1>2. /\ ~die /\ t \in Tasks /\ pc[w] = "loop" /\ pc' = [pc EXCEPT ![w] = "running"]
      /\ UNCHANGED <<completed, die, err, failed, returned>>
  BY DEF Take, Continue, Goto, IInv, TypeOK
<1>3. Failed' = Failed
  BY <1>1, <1>2 DEF Failed, IInv, TypeOK
<1>4. t \notin completed /\ t \notin Failed
  BY IInvTaskFacts DEF IInv, HeldOnce
<1>5. StatusBar' = [StatusBar EXCEPT ![t] = "running"]
  BY <1>1, <1>2, <1>3, <1>4 DEF StatusBar
<1>6. OutcomeBar' = OutcomeBar
  BY <1>2 DEF OutcomeBar
<1>7. Order!Start(t)
  BY <1>1, <1>2, <1>5, <1>6, StatusFacts DEF Order!Start
<1> QED
  BY <1>2, <1>7

LEMMA MarkDoneRefines ==
  ASSUME IInv, NEW w \in Workers, MarkDone(w)
  PROVE  \E t \in Tasks : Order!Complete(t)
<1> DEFINE t == current[w]
<1>1. /\ w \in InFlight /\ t \in Tasks /\ t \notin tasks
      /\ pc[w] = "ran" /\ ~failed[w]
      /\ completed' = completed \cup {t}
      /\ current' = [current EXCEPT ![w] = NoTask]
      /\ pc' = BroadcastAndGoto(w, "loop")
      /\ UNCHANGED <<tasks, die, err, failed, returned>>
  BY IInvTaskFacts DEF MarkDone, InFlight
<1>2. Failed' = Failed
  BY <1>1 DEF Failed, BroadcastAndGoto, IInv, TypeOK
<1>3. StatusBar[t] = "running"
  BY <1>1, StatusFacts
<1> HIDE DEF t
<1>4. StatusBar' = [StatusBar EXCEPT ![t] = "completed"]
  BY <1>1, <1>2 DEF StatusBar
<1>5. OutcomeBar' = OutcomeBar
  BY <1>1 DEF OutcomeBar
<1>6. Order!Complete(t)
  BY <1>1, <1>3, <1>4, <1>5 DEF Order!Complete
<1> QED
  BY <1>1, <1>6

LEMMA SetErrRefines ==
  ASSUME IInv, NEW w \in Workers, SetErr(w)
  PROVE  \E t \in Tasks : Order!Fail(t)
<1> DEFINE t == current[w]
<1>1. /\ w \in InFlight /\ t \in Tasks \ (tasks \cup completed \cup Failed)
      /\ pc[w] = "ran" /\ failed[w] /\ ~returned
      /\ UNCHANGED <<tasks, completed, current, failed, returned>>
  BY IInvTaskFacts DEF SetErr, InFlight, IInv, DoneMeansOver
<1>2. /\ die' = TRUE
      /\ pc'[w] = "done"
      /\ \A v \in Workers : v # w => (pc'[v] = "done" <=> pc[v] = "done")
  <2>1. err # NoTask => die = TRUE
    BY DEF IInv, DieMeansErr, TypeOK
  <2> QED
    BY <2>1 DEF SetErr, Goto, BroadcastAndGoto, IInv, TypeOK
<1>3. Failed' = Failed \cup {t}
  BY <1>1, <1>2 DEF Failed
<1>4. StatusBar[t] = "running"
  BY <1>1, StatusFacts
<1> HIDE DEF t
<1>5. StatusBar' = [StatusBar EXCEPT ![t] = "failed"]
  BY <1>1, <1>3 DEF StatusBar
<1>6. OutcomeBar' = OutcomeBar
  BY <1>1 DEF OutcomeBar
<1>7. Order!Fail(t)
  BY <1>1, <1>2, <1>4, <1>5, <1>6 DEF Order!Fail
<1> QED
  BY <1>1, <1>7

LEMMA ReturnRefines == IInv /\ Return => Order!Return
<1> SUFFICES ASSUME IInv, Return PROVE Order!Return
  OBVIOUS
<1>1. /\ ~returned /\ returned' /\ \A w \in Workers : pc[w] = "done"
      /\ UNCHANGED <<tasks, completed, die, err, pc, current, failed>>
  BY DEF Return, shared
<1>2. Failed' = Failed /\ StatusBar' = StatusBar
  BY <1>1 DEF Failed, StatusBar
<1>3. ASSUME NEW t \in Tasks PROVE StatusBar[t] # "running"
  <2>1. SUFFICES ASSUME t \notin tasks, t \notin completed PROVE t \in Failed
    BY DEF StatusBar
  <2>2. PICK w \in Workers : current[w] = t
    BY <2>1 DEF IInv, HeldOnce
  <2> QED
    BY <1>1, <2>2, NoTaskAssumption DEF IInv, LocalsOK, Failed
<1>4. CASE die
  BY <1>1, <1>2, <1>3, <1>4 DEF Order!Return, OutcomeBar, IInv, DieMeansErr
<1>5. CASE ~die
  <2>1. tasks = {}
    BY <1>1, <1>5, WorkersAssumption DEF IInv, DoneMeansOver
  <2>2. Failed = {}
    BY <1>5 DEF Failed, IInv, DieMeansErr
  <2>3. \A t \in Tasks : StatusBar[t] = "completed"
    BY <1>3, <2>1, <2>2 DEF StatusBar
  <2> QED
    BY <1>1, <1>2, <1>3, <1>5, <2>3 DEF Order!Return, OutcomeBar, IInv, DieMeansErr
<1> QED
  BY <1>4, <1>5

LEMMA StepRefines == IInv /\ [Next]_vars => [Order!Next]_(Order!vars)
<1> SUFFICES ASSUME IInv, [Next]_vars PROVE [Order!Next]_(Order!vars)
  OBVIOUS
<1>1. ASSUME NEW w \in Workers, Lock(w) \/ Wait(w) \/ Leave(w) \/ RunReturns(w)
      PROVE  UNCHANGED Order!vars
  BY <1>1, Stutter
  DEF Lock, Wait, Leave, RunReturns, Goto, shared, IInv, TypeOK, LocalsOK
<1>2. ASSUME NEW w \in Workers, Take(w) \/ MarkDone(w) \/ SetErr(w)
      PROVE  Order!Next
  BY <1>2, TakeRefines, MarkDoneRefines, SetErrRefines DEF Order!Next
<1>3. CASE Return
  BY <1>3, ReturnRefines DEF Order!Next
<1>4. CASE UNCHANGED vars
  BY <1>4, Stutter DEF vars
<1> QED
  BY <1>1, <1>2, <1>3, <1>4 DEF Next, Step, Terminated

\* The worker pool implements DependencyOrder: the locks, the condition variable
\* and the number of workers do not show.
THEOREM PoolImplementsOrder == Spec => OrderSpec
<1> QED
  BY InitRefines, StepRefines, Invariance, PTL DEF Spec, OrderSpec, Order!Spec

=============================================================================
