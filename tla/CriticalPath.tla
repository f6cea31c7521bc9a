----------------------------- MODULE CriticalPath -----------------------------
(***************************************************************************)
(* The critical path of runner/topological/runner.go: the chain of tasks   *)
(* on which a finished run of the pool spent its time.  A run is a record: *)
(* "deps" gives the tasks t.Dependents() returns for each task t,          *)
(* "completed" are the tasks marked done, "started" those whose StartTime  *)
(* is not before the pool's (a group or a deferred service never gets      *)
(* one), and "duration" gives Duration().                                  *)
(***************************************************************************)
EXTENDS Naturals, Sequences, FiniteSets, FiniteSetsExt

Costs_Longest(run) ==   \* mutant: the longest task instead of the sum
  LET cost[t \in DOMAIN run.deps] ==
        Max({run.duration[t]} \cup {cost[u] : u \in run.deps[t] \cap run.started})
  IN cost

\* taskCost of every task, highestCost's maximum included; the memo in ts.costs is not
\* observable.
Costs(run) ==
  LET cost[t \in DOMAIN run.deps] ==
        run.duration[t] + Max({0} \cup {cost[u] : u \in run.deps[t] \cap run.started})
  IN cost

\* highestCost: the tasks it may return, none for nil.  The order of the list, that
\* of a Go map in CriticalPath, decides between equals.
HighestCost(run, tasks) ==
  LET costly == {t \in tasks \cap run.started : Costs(run)[t] > 0}
  IN {t \in costly : \A u \in costly : Costs(run)[u] <= Costs(run)[t]}

\* What the loop of CriticalPath may append once it has come to a task.
PathsFrom(run) ==
  LET paths[t \in DOMAIN run.deps] ==
        LET next == HighestCost(run, run.deps[t]) IN
        IF next = {} THEN {<<t>>}
        ELSE {<<t>> \o p : p \in UNION {paths[u] : u \in next}}
  IN paths

\* CriticalPath: the lists it may return.
CriticalPath(run) ==
  LET first == HighestCost(run, run.completed) IN
  IF first = {} THEN {<<>>} ELSE UNION {PathsFrom(run)[t] : t \in first}

-----------------------------------------------------------------------------
(* The reference definitions. *)

\* A chain of tasks, each of which needs the next one.
IsChain(deps, p) == \A i \in 1..(Len(p) - 1) : p[i + 1] \in deps[p[i]]

\* The chains within a set of tasks: without cycles none is longer than the set.
Chains(deps, within) ==
  {p \in UNION {[1..n -> within] : n \in 0..Cardinality(within)} : IsChain(deps, p)}

\* How long the tasks of a list took together.
Weight(run, path) ==
  LET sum[i \in 0..Len(path)] ==
        IF i = 0 THEN 0 ELSE sum[i - 1] + run.duration[path[i]]
  IN sum[Len(path)]

\* There is a critical path; whatever ties do, it is a chain of started tasks that were
\* completed, and no chain of them took longer.
IsHeaviest(run) ==
  LET chains == Chains(run.deps, run.completed \cap run.started)
  IN /\ CriticalPath(run) # {}
     /\ \A p \in CriticalPath(run) :
          /\ p \in chains
          /\ \A q \in chains : Weight(run, q) <= Weight(run, p)
=============================================================================
