---------------------------- MODULE MCTopological ----------------------------
(* Instances of the worker pool: a diamond of services under a test group, and *)
(* two independent ones; and small graphs for the functions over them.         *)
EXTENDS PoolResults
LOCAL INSTANCE SequencesExt

CONSTANTS db, cache, app, group, extra, slow

DiamondTasks == {db, cache, app, group, extra, slow}
DiamondDeps == [t \in DiamondTasks |->
  CASE t = app -> {db, cache}
    [] t = group -> {app}
    [] OTHER -> {}]

\* The independent services may never become healthy.
HangingServices == {extra, slow}

\* Every acyclic graph of four tasks, up to renaming, with its lists in one order.
Nodes == 1..4
Lists == {[t \in Nodes |-> SetToSeq(edges[t])] :
   edges \in {e \in [Nodes -> SUBSET Nodes] : \A t \in Nodes : e[t] \subseteq 1..(t - 1)}}

\* Every list of distinct tasks, in one order, may be given.
GivenGraphs == {[dependents |-> g, tasks |-> SetToSeq(roots)] :
   g \in Lists, roots \in SUBSET Nodes}

\* Up to two of the services were not started by this pool; a group never is.
RunTimings ==
  {[started |-> DiamondTasks \ (skipped \cup {group}), duration |-> d] :
     skipped \in SUBSET {app, slow},
     d \in {e \in [DiamondTasks -> 0..2] : e[group] = 0}}
=============================================================================
