------------------------------ MODULE Traversal ------------------------------
(***************************************************************************)
(* The traversal of runner/topological/runner.go that collects what the    *)
(* given tasks need: its loop is in uniqueDeps and, where it also notes    *)
(* every edge turned round, in NewReversedRunner.  A graph is a function   *)
(* "dependents" that gives t.Dependents() of each task t as a list.        *)
(***************************************************************************)
EXTENDS Naturals, Sequences, FiniteSets, Functions

\* The locals of the loop: the queue of tasks, those met in the order in which they
\* were first met (their keys are "seen"), and for each task the met ones that have it
\* among their dependents ("reversedDeps").
Begun(dependents, tasks) ==
  [queue |-> tasks, met |-> <<>>, reversed |-> [t \in DOMAIN dependents |-> <<>>]]

Noted_FirstOnly(dependents, task, reversed) ==   \* mutant: only one edge into a task
  [t \in DOMAIN reversed |->
     IF t \in Range(dependents[task]) /\ reversed[t] = <<>> THEN <<task>> ELSE reversed[t]]
Noted(dependents, task, reversed) ==
  [t \in DOMAIN reversed |->
     IF t \in Range(dependents[task]) THEN Append(reversed[t], task) ELSE reversed[t]]

\* One turn of the loop.
Turn(dependents, l) ==
  LET task == Head(l.queue) IN
  IF task \in Range(l.met) THEN [l EXCEPT !.queue = Tail(@)]
  ELSE [queue |-> Tail(l.queue) \o dependents[task],
        met |-> Append(l.met, task),
        reversed |-> Noted(dependents, task, l.reversed)]

\* The loop's test.
TurnOrEnd(dependents, l) == IF l.queue = <<>> THEN l ELSE Turn(dependents, l)

\* How many turns are enough: a turn takes one entry from the queue, and every task
\* puts its dependents there once.
TurnBound(dependents, tasks) ==
  Len(tasks) + Cardinality(DOMAIN dependents) * Cardinality(DOMAIN dependents)

\* The locals at the end of the loop.
Loop(dependents, tasks) ==
  LET locals[n \in 0..TurnBound(dependents, tasks)] ==
        IF n = 0 THEN Begun(dependents, tasks) ELSE TurnOrEnd(dependents, locals[n - 1])
  IN locals[TurnBound(dependents, tasks)]

UniqueDeps(dependents, tasks) == Loop(dependents, tasks).met

\* The reversed tasks: their Dependents(), once the loop is over.
Reversal(l) == Restrict(l.reversed, Range(l.met))

\* NewReversedRunner, and the pool that NewRunner makes of its reversed tasks.
NewReversedRunner(dependents, tasks) ==
  LET end == Loop(dependents, tasks)
  IN [tasks |-> UniqueDeps(Reversal(end), end.met), dependents |-> Reversal(end)]

-----------------------------------------------------------------------------
\* Dependencies stay within the graph: allTasks looks each one up.
IsGraph(dependents) == dependents \in [DOMAIN dependents -> Seq(DOMAIN dependents)]

\* A specs file is finite, and Bazel rejects a label listed twice.
IsFiniteGraph(dependents) ==
  /\ IsGraph(dependents) /\ IsFiniteSet(DOMAIN dependents)
  /\ \A t \in DOMAIN dependents : IsInjective(dependents[t])

\* The least set that holds the roots and every dependency of its members.
Closure(dependents, roots) ==
  {t \in DOMAIN dependents :
     \A S \in SUBSET DOMAIN dependents :
       roots \subseteq S /\ (\A u \in S : Range(dependents[u]) \subseteq S) => t \in S}

\* What the loop maintains: every task met is needed and was met once; what is needed
\* and not met is needed by what is in the queue; and an edge is noted, once, exactly
\* when the task it leaves has been met.
LoopInv(dependents, roots, l) ==
  LET Node == DOMAIN dependents
      met == Range(l.met)
      known == met \cup Range(l.queue)
  IN /\ l \in [queue : Seq(Node), met : Seq(Node), reversed : [Node -> Seq(Node)]]
     /\ IsInjective(l.met)
     /\ roots \subseteq known
     /\ \A t \in met : Range(dependents[t]) \subseteq known
     /\ known \subseteq Closure(dependents, roots)
     /\ \A t \in Node :
          /\ Range(l.reversed[t]) = {u \in met : t \in Range(dependents[u])}
          /\ IsInjective(l.reversed[t])

\* What it has achieved when the queue is empty: all the given tasks need, each once,
\* and the same tasks with every edge turned round.
Exact(dependents, roots, l) ==
  /\ IsInjective(l.met) /\ Range(l.met) = Closure(dependents, roots)
  /\ \A t, u \in Range(l.met) :
       u \in Range(Reversal(l)[t]) <=> t \in Range(dependents[u])
  /\ \A t \in Range(l.met) :
       IsInjective(Reversal(l)[t]) /\ Range(Reversal(l)[t]) \subseteq Range(l.met)

\* StartAll's pool has every task the given ones need, each once, and StopAll's runs
\* exactly these with every edge turned round.
ReversesExactly(dependents, tasks) ==
  LET end == Loop(dependents, tasks)
      stopper == NewReversedRunner(dependents, tasks)
  IN /\ end.queue = <<>> /\ Exact(dependents, Range(tasks), end)
     /\ IsInjective(stopper.tasks)
     /\ Range(stopper.tasks) = Range(UniqueDeps(dependents, tasks))
=============================================================================
