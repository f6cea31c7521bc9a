----------------------------- MODULE PoolResults -----------------------------
(***************************************************************************)
(* The worker pool together with the functions that look at its graph:     *)
(* the traversals before it runs, the critical path after.                 *)
(***************************************************************************)
EXTENDS Topological, Traversal, CriticalPath

CONSTANTS Given,    \* what NewRunner and NewReversedRunner may be given
          Timings   \* when the tasks of a run were started, and how long they took

ASSUME GivenAssumption ==
  \A g \in Given : IsFiniteGraph(g.dependents) /\ g.tasks \in Seq(DOMAIN g.dependents)
ASSUME TimingsAssumption ==
  Timings \subseteq [started : SUBSET Tasks, duration : [Tasks -> Nat]]
ASSUME FiniteAssumption == IsFiniteSet(Tasks)

\* uniqueDeps and NewReversedRunner, when a pool has been made: whatever tasks are
\* handed over, StartAll's pool has all they need, and StopAll's the same tasks in the
\* opposite order.
Fresh == lock = NoTask /\ \A w \in Workers : pc[w] = "lock"
ReversedGraphExact == Fresh => \A g \in Given : ReversesExactly(g.dependents, g.tasks)

\* What CriticalPath finds in the pool.
Finished(timing) ==
  [deps |-> Deps, completed |-> completed,
   started |-> timing.started, duration |-> timing.duration]

\* CriticalPath: "Returns the slowest chain of tasks" (runner.go:239), of the completed
\* ones that were started: a group or a deferred service in between cuts the chain.
CriticalPathHeaviest == returned => \A timing \in Timings : IsHeaviest(Finished(timing))
=============================================================================
