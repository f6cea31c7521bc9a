-------------------------- MODULE PoolResultsProofs --------------------------
(***************************************************************************)
(* Proofs about PoolResults, for any tasks, graphs and durations: what the *)
(* recursions of the critical path compute, that it is the slowest chain   *)
(* of a run, and that the traversals are right about every graph a pool is *)
(* given.                                                                  *)
(***************************************************************************)
EXTENDS PoolResults, TopologicalProofs, TraversalProofs

\* A finished run: no cycles, and what a completed task needs is completed.
IsRun(run) ==
  /\ IsFiniteSet(DOMAIN run.deps) /\ IsAcyclic(DOMAIN run.deps, run.deps)
  /\ run.started \subseteq DOMAIN run.deps
  /\ run.duration \in [DOMAIN run.deps -> Nat]
  /\ run.completed \subseteq DOMAIN run.deps
  /\ \A t \in run.completed : run.deps[t] \subseteq run.completed

\* taskCost of one task, from the costs of others.
CostOf(run, cost, t) ==
  run.duration[t] + Max({0} \cup {cost[u] : u \in run.deps[t] \cap run.started})

\* A finite set has a maximum.
LEMMA MaxIsMax ==
  ASSUME NEW S \in SUBSET Nat, IsFiniteSet(S), S # {}
  PROVE  Max(S) \in S /\ \A m \in S : m <= Max(S)
<1> DEFINE Bounded == {n \in Nat : \A R \in SUBSET Nat :
                            IsFiniteSet(R) /\ Cardinality(R) = n + 1
                              => \E m \in R : \A k \in R : k <= m}
<1>1. 0 \in Bounded
  <2> SUFFICES ASSUME NEW R \in SUBSET Nat, IsFiniteSet(R), Cardinality(R) = 1
               PROVE  \E m \in R : \A k \in R : k <= m
    OBVIOUS
  <2>1. PICK x : R = {x}
    BY FS_Singleton
  <2> QED BY <2>1
<1>2. ASSUME NEW n \in Bounded PROVE n + 1 \in Bounded
  <2> SUFFICES ASSUME NEW R \in SUBSET Nat, IsFiniteSet(R), Cardinality(R) = n + 2
               PROVE  \E m \in R : \A k \in R : k <= m
    OBVIOUS
  <2>1. R # {}
    BY FS_EmptySet
  <2>2. PICK x \in R : TRUE
    BY <2>1
  <2>3. IsFiniteSet(R \ {x}) /\ Cardinality(R \ {x}) = n + 1
    BY <2>2, FS_RemoveElement
  <2>4. PICK m \in R \ {x} : \A k \in R \ {x} : k <= m
    BY <2>3
  <2>5. CASE x <= m
    BY <2>4, <2>5
  <2>6. CASE m < x
    BY <2>4, <2>6
  <2> QED BY <2>5, <2>6
<1>3. Bounded = Nat
  <2>1. Bounded \in SUBSET Nat
    OBVIOUS
  <2> HIDE DEF Bounded
  <2> QED BY <1>1, <1>2, <2>1, NatSetInduction
<1>4. Cardinality(S) \in Nat /\ Cardinality(S) # 0
  BY FS_CardinalityType, FS_EmptySet
<1>5. Cardinality(S) - 1 \in Bounded
  BY <1>3, <1>4
<1>6. \E m \in S : \A k \in S : m >= k
  BY <1>4, <1>5
<1> QED BY <1>6 DEF Max

\* What a function makes of a finite set is finite.
LEMMA ImageIsFinite ==
  ASSUME NEW A, IsFiniteSet(A), NEW g
  PROVE  IsFiniteSet({g[u] : u \in A})
<1> DEFINE h == [u \in A |-> g[u]]
<1>1. h \in Surjection(A, {g[u] : u \in A})
  BY DEF Surjection
<1> QED BY <1>1, FS_Surjection, Zenon

\* The maximum that taskCost and highestCost take.
LEMMA HighestIsMax ==
  ASSUME NEW A, IsFiniteSet(A), NEW g, \A u \in A : g[u] \in Nat
  PROVE  LET m == Max({0} \cup {g[u] : u \in A})
         IN  /\ m \in Nat
             /\ \A u \in A : g[u] <= m
             /\ m = 0 \/ \E u \in A : m = g[u]
<1> DEFINE S == {0} \cup {g[u] : u \in A}
<1>1. S \in SUBSET Nat /\ S # {} /\ IsFiniteSet(S)
  <2>1. IsFiniteSet({g[u] : u \in A} \cup {0})
    <3> DEFINE I == {g[u] : u \in A}
    <3>1. IsFiniteSet(I)
      BY ImageIsFinite
    <3> HIDE DEF I
    <3> QED BY <3>1, FS_AddElement DEF I
  <2>2. {g[u] : u \in A} \cup {0} = S
    OBVIOUS
  <2>3. S \in SUBSET Nat /\ S # {}
    OBVIOUS
  <2> QED BY <2>1, <2>2, <2>3
<1>2. Max(S) \in S /\ \A m \in S : m <= Max(S)
  <2> HIDE DEF S
  <2> QED BY <1>1, MaxIsMax
<1>3. /\ Max(S) \in Nat
      /\ \A u \in A : g[u] <= Max(S)
      /\ Max(S) = 0 \/ \E u \in A : Max(S) = g[u]
  <2>1. /\ \A u \in A : g[u] \in S
        /\ \A x \in S : x \in Nat /\ (x = 0 \/ \E u \in A : x = g[u])
    OBVIOUS
  <2> HIDE DEF S
  <2> QED BY <1>2, <2>1
<1> QED BY <1>3

\* Without cycles the recursion of taskCost and highestCost defines every cost.
LEMMA CostsSolve ==
  ASSUME NEW run, IsRun(run)
  PROVE  Costs(run) = [t \in DOMAIN run.deps |-> CostOf(run, Costs(run), t)]
<1> DEFINE T == DOMAIN run.deps
           D == run.deps
           St == run.started
           CostFrom(t, g) == run.duration[t] + Max({0} \cup {g[u] : u \in D[t] \cap St})
           F == [t \in T |-> [g \in [D[t] -> Nat] |-> CostFrom(t, g)]]
<1>0. \A t \in T : IsFiniteSet(D[t] \cap St)
  BY FS_Subset DEF IsRun, IsAcyclic
<1>1. ASSUME NEW t \in T, NEW g \in [D[t] -> Nat] PROVE CostFrom(t, g) \in Nat
  <2>1. IsFiniteSet(D[t] \cap St) /\ \A u \in D[t] \cap St : g[u] \in Nat
    BY <1>0
  <2>2. Max({0} \cup {g[u] : u \in D[t] \cap St}) \in Nat
    BY <2>1, HighestIsMax
  <2> QED BY <2>2 DEF IsRun
<1>2. IsRecursion(T, D, Nat, F)
  <2> HIDE DEF CostFrom
  <2> QED BY <1>1 DEF IsRecursion
<1>3. PICK f \in [T -> Nat] : Solves(T, D, F, f)
  <2>1. IsAcyclic(T, D)
    BY DEF IsRun
  <2> HIDE DEF F, T, D
  <2> QED BY <1>2, <2>1, AcyclicRecursion, Zenon
<1>4. ASSUME NEW t \in T PROVE f[t] = CostOf(run, f, t)
  <2> DEFINE g == [u \in D[t] |-> f[u]]
  <2>1. g \in [D[t] -> Nat]
    BY <1>3 DEF IsRun, IsAcyclic
  <2>2. f[t] = CostFrom(t, g)
    <3> HIDE DEF CostFrom
    <3>1. F[t][g] = CostFrom(t, g)
      BY <2>1
    <3> QED BY <1>3, <3>1 DEF Solves
  <2>3. {g[u] : u \in D[t] \cap St} = {f[u] : u \in D[t] \cap St}
    OBVIOUS
  <2> HIDE DEF g
  <2> QED BY <2>2, <2>3 DEF CostOf
<1>5. f = [t \in T |-> CostOf(run, f, t)]
  BY <1>3, <1>4
<1> HIDE DEF F
<1> QED BY <1>5 DEF Costs, CostOf

\* Costs are natural numbers.
LEMMA CostsTyped ==
  ASSUME NEW run, IsRun(run)
  PROVE  Costs(run) \in [DOMAIN run.deps -> Nat]
<1> DEFINE T == DOMAIN run.deps
           C == Costs(run)
           S == {t \in T : C[t] \in Nat}
<1>1. \A t \in T : C[t] = CostOf(run, C, t) 
  BY CostsSolve
<1>2. ASSUME NEW t \in T, run.deps[t] \subseteq S PROVE C[t] \in Nat
  <2> DEFINE A == run.deps[t] \cap run.started
  <2>1. IsFiniteSet(A) /\ \A u \in A : C[u] \in Nat
    BY <1>2, FS_Subset DEF IsRun, IsAcyclic
  <2>2. Max({0} \cup {C[u] : u \in A}) \in Nat
    <3> HIDE DEF A, C
    <3> QED BY <2>1, HighestIsMax
  <2> QED BY <1>1, <2>2 DEF CostOf, IsRun
<1>3. S = T
  <2>1. IsAcyclic(T, run.deps) /\ S \in SUBSET T
    BY DEF IsRun
  <2>2. \A t \in T : run.deps[t] \subseteq S => t \in S
    BY <1>2
  <2> HIDE DEF S, T
  <2> QED BY <2>1, <2>2, AcyclicInduction
<1>4. DOMAIN C = T /\ C = [t \in T |-> C[t]]
  BY CostsSolve
<1>5. \A t \in T : C[t] \in Nat
  BY <1>3
<1> HIDE DEF C
<1>6. C \in [T -> Nat]
  BY <1>4, <1>5
<1> QED BY <1>6 DEF C

\* What highestCost returns costs at least as much as any other, and is nil only if
\* nothing costs anything.
LEMMA HighestIsHighest ==
  ASSUME NEW run, IsRun(run), NEW A \in SUBSET DOMAIN run.deps
  PROVE  /\ HighestCost(run, A) \subseteq A \cap run.started
         /\ \A t \in HighestCost(run, A), u \in A \cap run.started :
              Costs(run)[u] <= Costs(run)[t]
         /\ HighestCost(run, A) = {} => \A u \in A \cap run.started : Costs(run)[u] = 0
<1> DEFINE C == Costs(run)
           B == A \cap run.started
           m == Max({0} \cup {C[u] : u \in B})
<1>1. C \in [DOMAIN run.deps -> Nat]
  BY CostsTyped
<1>2. IsFiniteSet(B) /\ \A u \in B : C[u] \in Nat
  BY <1>1, FS_Subset DEF IsRun
<1>3. m \in Nat /\ (\A u \in B : C[u] <= m) /\ (m = 0 \/ \E u \in B : m = C[u])
  <2> HIDE DEF B, C
  <2> QED BY <1>2, HighestIsMax
<1>4. HighestCost(run, A) = {t \in B : C[t] > 0 /\ \A u \in B : C[u] > 0 => C[u] <= C[t]}
  BY DEF HighestCost
<1> HIDE DEF C, B, m
<1>5. ASSUME NEW t \in HighestCost(run, A), NEW u \in B PROVE C[u] <= C[t]
  BY <1>2, <1>4, <1>5
<1>6. ASSUME HighestCost(run, A) = {}, NEW u \in B PROVE C[u] = 0
  <2> SUFFICES ASSUME C[u] # 0 PROVE FALSE
    OBVIOUS
  <2>1. PICK t \in B : m = C[t]
    BY <1>2, <1>3
  <2>2. t \in HighestCost(run, A)
    BY <1>2, <1>3, <1>4, <2>1
  <2> QED BY <1>6, <2>2
<1> QED BY <1>4, <1>5, <1>6 DEF B, C

\* A task's cost is at least its own duration and the cost of any task it may wait for,
\* and with the one highestCost returns it is exactly that.
LEMMA CostFacts ==
  ASSUME NEW run, IsRun(run), NEW t \in DOMAIN run.deps
  PROVE  LET C == Costs(run)
             next == HighestCost(run, run.deps[t])
         IN  /\ run.duration[t] <= C[t]
             /\ \A u \in run.deps[t] \cap run.started : run.duration[t] + C[u] <= C[t]
             /\ next = {} => C[t] = run.duration[t]
             /\ \A u \in next : C[t] = run.duration[t] + C[u]
<1> DEFINE C == Costs(run)
           next == HighestCost(run, run.deps[t])
           B == run.deps[t] \cap run.started
           m == Max({0} \cup {C[u] : u \in B})
           dur == run.duration[t]
<1>1. /\ run.deps[t] \in SUBSET DOMAIN run.deps /\ IsFiniteSet(B) /\ dur \in Nat
  BY FS_Subset DEF IsRun, IsAcyclic
<1>2. \A u \in B : C[u] \in Nat
  BY <1>1, CostsTyped
<1>3. m \in Nat /\ (\A u \in B : C[u] <= m) /\ (m = 0 \/ \E u \in B : m = C[u])
  <2> HIDE DEF B, C
  <2> QED BY <1>1, <1>2, HighestIsMax
<1>4. C[t] = dur + m
  BY CostsSolve DEF CostOf
<1>5. /\ next \subseteq B /\ \A v \in next, u \in B : C[u] <= C[v]
      /\ next = {} => \A u \in B : C[u] = 0
  BY <1>1, HighestIsHighest
<1> HIDE DEF C, next, B, m, dur
<1>6. dur <= C[t] /\ \A u \in B : dur + C[u] <= C[t]
  BY <1>1, <1>2, <1>3, <1>4
<1>7. next = {} => C[t] = dur
  BY <1>1, <1>3, <1>4, <1>5
<1>8. ASSUME NEW u \in next PROVE C[t] = dur + C[u]
  <2>1. u \in B /\ C[u] \in Nat /\ C[u] <= m
    BY <1>2, <1>3, <1>5
  <2>2. m <= C[u]
    BY <1>2, <1>3, <1>5, <2>1
  <2> QED BY <1>1, <1>3, <1>4, <2>1, <2>2
<1> QED BY <1>6, <1>7, <1>8 DEF C, next, B, dur

-----------------------------------------------------------------------------
(* The paths. *)

\* q is p with e in front of it.
IsPrepended(q, e, p) ==
  /\ Len(q) = Len(p) + 1 /\ q[1] = e
  /\ \A i \in 1..Len(p) : q[i + 1] = p[i]

\* What <<e>> \o p is.
LEMMA PrependProperties ==
  ASSUME NEW S, NEW e \in S, NEW p \in Seq(S)
  PROVE  <<e>> \o p \in Seq(S) /\ IsPrepended(<<e>> \o p, e, p)
<1>1. <<e>> \in Seq(S) /\ Len(<<e>>) = 1 /\ <<e>>[1] = e /\ Len(p) \in Nat
  OBVIOUS
<1> DEFINE h == <<e>>
<1> HIDE DEF h
<1>2. /\ h \o p \in Seq(S) /\ Len(h \o p) = Len(h) + Len(p)
      /\ \A i \in 1..(Len(h) + Len(p)) :
           (h \o p)[i] = IF i <= Len(h) THEN h[i] ELSE p[i - Len(h)]
  BY <1>1, ConcatProperties DEF h
<1>3. Len(h \o p) = Len(p) + 1 /\ (h \o p)[1] = e
  BY <1>1, <1>2 DEF h
<1>4. ASSUME NEW i \in 1..Len(p) PROVE (h \o p)[i + 1] = p[i]
  <2>1. i + 1 \in 1..(1 + Len(p)) /\ ~(i + 1 <= 1) /\ (i + 1) - 1 = i
    BY <1>1
  <2>2. Len(h) = 1
    BY <1>1 DEF h
  <2> QED BY <1>2, <2>1, <2>2
<1> QED BY <1>2, <1>3, <1>4 DEF h, IsPrepended

\* What the loop may append from one task on, given that for others.
PathsAt(run, paths, t) ==
  LET next == HighestCost(run, run.deps[t]) IN
  IF next = {} THEN {<<t>>}
  ELSE {<<t>> \o p : p \in UNION {paths[u] : u \in next}}

\* Without cycles the loop of CriticalPath ends from every task.
LEMMA PathsSolve ==
  ASSUME NEW run, IsRun(run)
  PROVE  PathsFrom(run) = [t \in DOMAIN run.deps |-> PathsAt(run, PathsFrom(run), t)]
<1> DEFINE T == DOMAIN run.deps
           D == run.deps
           V == SUBSET Seq(T)
           F == [t \in T |-> [g \in [D[t] -> V] |-> PathsAt(run, g, t)]]
<1>0. \A t \in T : HighestCost(run, D[t]) \subseteq D[t] /\ D[t] \subseteq T
  BY HighestIsHighest DEF IsRun, IsAcyclic
<1>1. ASSUME NEW t \in T, NEW g \in [D[t] -> V] PROVE PathsAt(run, g, t) \in V
  <2>1. UNION {g[u] : u \in HighestCost(run, D[t])} \subseteq Seq(T)
    BY <1>0
  <2>2. <<t>> \in Seq(T) /\ \A p \in Seq(T) : <<t>> \o p \in Seq(T)
    <3> HIDE DEF T
    <3>1. <<t>> \in Seq(T)
      OBVIOUS
    <3> QED BY <3>1, PrependProperties, Zenon
  <2> HIDE DEF T
  <2> QED BY <2>1, <2>2 DEF PathsAt
<1>2. IsRecursion(T, D, V, F)
  <2> HIDE DEF V
  <2> QED BY <1>1 DEF IsRecursion
<1>3. PICK f \in [T -> V] : Solves(T, D, F, f)
  <2>1. IsAcyclic(T, D)
    BY DEF IsRun
  <2> HIDE DEF F, T, D, V
  <2> QED BY <1>2, <2>1, AcyclicRecursion, Zenon
<1>4. ASSUME NEW t \in T PROVE f[t] = PathsAt(run, f, t)
  <2> DEFINE g == [u \in D[t] |-> f[u]]
  <2>1. g \in [D[t] -> V]
    BY <1>0, <1>3
  <2>2. f[t] = PathsAt(run, g, t)
    <3>1. F[t][g] = PathsAt(run, g, t)
      BY <2>1
    <3> QED BY <1>3, <3>1 DEF Solves
  <2>3. \A u \in HighestCost(run, D[t]) : g[u] = f[u]
    BY <1>0
  <2>4. UNION {g[u] : u \in HighestCost(run, D[t])}
          = UNION {f[u] : u \in HighestCost(run, D[t])}
    <3> HIDE DEF g
    <3> QED BY <2>3
  <2> HIDE DEF g
  <2> QED BY <2>2, <2>4 DEF PathsAt
<1>5. f = [t \in T |-> PathsAt(run, f, t)]
  <2>1. f = [t \in T |-> f[t]]
    BY <1>3
  <2> HIDE DEF T
  <2> QED BY <1>4, <2>1
<1> HIDE DEF F
<1> QED BY <1>5 DEF PathsFrom, PathsAt

\* A list that goes on with what highestCost returns until that is nil.
IsGreedy(run, p) ==
  /\ p \in Seq(DOMAIN run.deps) /\ p # <<>>
  /\ \A i \in 1..(Len(p) - 1) : p[i + 1] \in HighestCost(run, run.deps[p[i]])
  /\ HighestCost(run, run.deps[p[Len(p)]]) = {}

\* That is what CriticalPath may return from any task on, and there is such a list.
LEMMA PathsAreGreedy ==
  ASSUME NEW run, IsRun(run), NEW t \in DOMAIN run.deps
  PROVE  /\ PathsFrom(run)[t] # {}
         /\ \A p \in PathsFrom(run)[t] : IsGreedy(run, p) /\ p[1] = t
<1> DEFINE T == DOMAIN run.deps
           Good(u) == /\ PathsFrom(run)[u] # {}
                      /\ \A p \in PathsFrom(run)[u] : IsGreedy(run, p) /\ p[1] = u
           S == {u \in T : Good(u)}
<1>1. ASSUME NEW u \in T, run.deps[u] \subseteq S PROVE Good(u)
  <2> DEFINE next == HighestCost(run, run.deps[u])
  <2>1. next \subseteq run.deps[u] /\ \A v \in next : Good(v)
    BY <1>1, HighestIsHighest DEF IsRun, IsAcyclic
  <2>2. PathsFrom(run)[u] = PathsAt(run, PathsFrom(run), u)
    BY PathsSolve
  <2>3. CASE next = {}
    <3>1. PathsFrom(run)[u] = {<<u>>}
      BY <2>2, <2>3 DEF PathsAt
    <3>2. <<u>> \in Seq(T) /\ Len(<<u>>) = 1 /\ <<u>>[1] = u /\ <<u>> # <<>>
      <4> HIDE DEF T
      <4> QED OBVIOUS
    <3> DEFINE q == <<u>>
    <3> HIDE DEF q
    <3>3. IsGreedy(run, q)
      BY <2>3, <3>2 DEF IsGreedy, q
    <3> QED BY <3>1, <3>2, <3>3 DEF q
  <2>4. CASE next # {}
    <3>1. PathsFrom(run)[u] = {<<u>> \o p : p \in UNION {PathsFrom(run)[v] : v \in next}}
      BY <2>2, <2>4 DEF PathsAt
    <3>2. PathsFrom(run)[u] # {}
      <4>1. PICK v \in next : PathsFrom(run)[v] # {}
        BY <2>1, <2>4
      <4>2. PICK p \in PathsFrom(run)[v] : TRUE
        BY <4>1
      <4>3. <<u>> \o p \in PathsFrom(run)[u]
        <5> HIDE DEF next
        <5> QED BY <3>1, <4>1, <4>2
      <4> QED BY <4>3
    <3>3. ASSUME NEW v \in next, NEW p \in PathsFrom(run)[v]
          PROVE  IsGreedy(run, <<u>> \o p) /\ (<<u>> \o p)[1] = u
      <4>1. IsGreedy(run, p) /\ p[1] = v
        BY <2>1
      <4>2. p \in Seq(T) /\ Len(p) \in Nat /\ Len(p) > 0
        BY <4>1, EmptySeq, LenProperties DEF IsGreedy
      <4> DEFINE q == <<u>> \o p
      <4>3. /\ q \in Seq(T) /\ Len(q) = Len(p) + 1 /\ q[1] = u
            /\ \A i \in 1..Len(p) : q[i + 1] = p[i]
        <5> HIDE DEF T
        <5>1. q \in Seq(T) /\ IsPrepended(q, u, p)
          BY <4>2, PrependProperties, Zenon
        <5> HIDE DEF q
        <5> QED BY <5>1 DEF IsPrepended
      <4>4. q # <<>>
        BY <4>2, <4>3
      <4> HIDE DEF q
      <4>5. q[Len(q)] = p[Len(p)]
        BY <4>2, <4>3
      <4>6. ASSUME NEW i \in 1..(Len(q) - 1)
            PROVE  q[i + 1] \in HighestCost(run, run.deps[q[i]])
        <5>1. CASE i = 1
          BY <4>1, <4>2, <4>3, <5>1
        <5>2. CASE i # 1
          <6>1. i - 1 \in 1..(Len(p) - 1) /\ i - 1 \in 1..Len(p) /\ i \in 1..Len(p)
            BY <4>2, <4>3, <5>2
          <6>2. q[i + 1] = p[i] /\ q[i] = p[i - 1] /\ p[(i - 1) + 1] = p[i]
            BY <4>3, <6>1
          <6> QED BY <4>1, <6>1, <6>2 DEF IsGreedy
        <5> QED BY <5>1, <5>2
      <4>7. IsGreedy(run, q)
        BY <4>1, <4>3, <4>4, <4>5, <4>6 DEF IsGreedy
      <4> QED BY <4>3, <4>7 DEF q
    <3>4. \A q \in PathsFrom(run)[u] :
            \E v \in next : \E p \in PathsFrom(run)[v] : q = <<u>> \o p
      <4> HIDE DEF next
      <4> QED BY <3>1
    <3> HIDE DEF next
    <3> QED BY <3>2, <3>3, <3>4
  <2> QED BY <2>3, <2>4
<1>2. S = T
  <2>1. \A u \in T : run.deps[u] \subseteq S => u \in S
    BY <1>1
  <2>2. IsAcyclic(T, run.deps) /\ S \in SUBSET T
    BY DEF IsRun
  <2> HIDE DEF S, T
  <2> QED BY <2>1, <2>2, AcyclicInduction
<1> QED BY <1>2

-----------------------------------------------------------------------------
(* The weight of a path. *)

\* The sum of the first durations of a path, from the one before.
SumAt(run, path, sum, i) == IF i = 0 THEN 0 ELSE sum[i - 1] + run.duration[path[i]]

\* The weight of a path is the sum of its durations.
LEMMA WeightSums ==
  ASSUME NEW run, IsRun(run), NEW path \in Seq(DOMAIN run.deps)
  PROVE  \E sum \in [0..Len(path) -> Nat] :
           /\ Weight(run, path) = sum[Len(path)]
           /\ sum[0] = 0
           /\ \A i \in 1..Len(path) : sum[i] = sum[i - 1] + run.duration[path[i]]
<1> DEFINE T == 0..Len(path)
           D == [i \in T |-> IF i = 0 THEN {} ELSE {i - 1}]
           F == [i \in T |-> [g \in [D[i] -> Nat] |-> SumAt(run, path, g, i)]]
<1>1. Len(path) \in Nat
  BY LenProperties
<1>2. \A i \in T : i # 0 =>
        i \in 1..Len(path) /\ i - 1 \in T /\ run.duration[path[i]] \in Nat
  BY <1>1, ElementOfSeq DEF IsRun
<1>3. IsAcyclic(T, D)
  BY <1>1, PredecessorIsAcyclic
<1>4. IsRecursion(T, D, Nat, F)
  <2>1. ASSUME NEW i \in T, NEW g \in [D[i] -> Nat] PROVE SumAt(run, path, g, i) \in Nat
    <3>1. CASE i = 0
      BY <3>1 DEF SumAt
    <3>2. CASE i # 0
      <4>1. g[i - 1] \in Nat
        BY <3>2
      <4> QED BY <1>2, <3>2, <4>1 DEF SumAt
    <3> QED BY <3>1, <3>2
  <2> QED BY <2>1 DEF IsRecursion
<1>5. PICK f \in [T -> Nat] : Solves(T, D, F, f)
  <2> HIDE DEF T, D, F
  <2> QED BY <1>3, <1>4, AcyclicRecursion, Zenon
<1>6. ASSUME NEW i \in T PROVE f[i] = SumAt(run, path, f, i)
  <2> DEFINE g == [u \in D[i] |-> f[u]]
  <2>1. g \in [D[i] -> Nat]
    BY <1>2, <1>5
  <2>2. f[i] = SumAt(run, path, g, i)
    <3>1. F[i][g] = SumAt(run, path, g, i)
      BY <2>1
    <3> QED BY <1>5, <3>1 DEF Solves
  <2>3. i # 0 => g[i - 1] = f[i - 1]
    OBVIOUS
  <2> HIDE DEF g
  <2> QED BY <2>2, <2>3 DEF SumAt
<1>7. f = [i \in T |-> SumAt(run, path, f, i)]
  <2>1. f = [i \in T |-> f[i]]
    BY <1>5
  <2> HIDE DEF T
  <2> QED BY <1>6, <2>1
<1> DEFINE sum == CHOOSE sum : sum = [i \in T |-> SumAt(run, path, sum, i)]
<1>8. sum = [i \in T |-> SumAt(run, path, sum, i)] /\ Weight(run, path) = sum[Len(path)]
  <2> HIDE DEF F, D
  <2> QED BY <1>7 DEF Weight, SumAt
<1> HIDE DEF sum
<1>9. \A i \in T : sum[i] \in Nat
  <2> DEFINE S == {i \in T : sum[i] \in Nat}
  <2>1. ASSUME NEW i \in T, D[i] \subseteq S PROVE sum[i] \in Nat
    <3>0. sum[i] = SumAt(run, path, sum, i)
      <4> HIDE DEF T
      <4> QED BY <1>8
    <3>1. CASE i = 0
      BY <3>0, <3>1 DEF SumAt
    <3>2. CASE i # 0
      <4>1. sum[i - 1] \in Nat
        BY <2>1, <3>2
      <4> QED BY <1>2, <3>0, <3>2, <4>1 DEF SumAt
    <3> QED BY <3>1, <3>2
  <2>2. S \in SUBSET T
    OBVIOUS
  <2>3. \A i \in T : D[i] \subseteq S => i \in S
    BY <2>1
  <2>4. S = T
    <3> HIDE DEF S, T, D
    <3> QED BY <1>3, <2>2, <2>3, AcyclicInduction
  <2> QED BY <2>4
<1>10. sum \in [T -> Nat]
  <2> HIDE DEF T
  <2> QED BY <1>8, <1>9
<1>11. sum[0] = 0 /\ \A i \in 1..Len(path) : sum[i] = sum[i - 1] + run.duration[path[i]]
  BY <1>1, <1>8 DEF SumAt
<1> QED BY <1>8, <1>10, <1>11

\* No chain of started tasks weighs more than the cost of its first task.
LEMMA ChainsBounded ==
  ASSUME NEW run, IsRun(run), NEW q \in Seq(DOMAIN run.deps), q # <<>>,
         IsChain(run.deps, q), \A i \in 1..Len(q) : q[i] \in run.started
  PROVE  Weight(run, q) <= Costs(run)[q[1]]
<1> DEFINE n == Len(q)
           C == Costs(run)
<1>1. n \in Nat /\ n > 0
  BY EmptySeq, LenProperties
<1>2. PICK sum \in [0..n -> Nat] :
        /\ Weight(run, q) = sum[n] /\ sum[0] = 0
        /\ \A i \in 1..n : sum[i] = sum[i - 1] + run.duration[q[i]]
  BY WeightSums
<1>3. \A i \in 1..n : /\ q[i] \in DOMAIN run.deps /\ C[q[i]] \in Nat
                      /\ run.duration[q[i]] \in Nat /\ run.duration[q[i]] <= C[q[i]]
  BY <1>1, ElementOfSeq, CostsTyped, CostFacts DEF IsRun
<1>4. \A i \in 1..(n - 1) : run.duration[q[i]] + C[q[i + 1]] <= C[q[i]]
  <2> TAKE i \in 1..(n - 1)
  <2>1. i \in 1..n /\ i + 1 \in 1..n
    BY <1>1
  <2>2. q[i + 1] \in run.deps[q[i]] \cap run.started
    BY <2>1 DEF IsChain
  <2> QED BY <1>3, <2>1, <2>2, CostFacts
<1> DEFINE S == {k \in Nat : k < n => sum[n] <= sum[n - k - 1] + C[q[n - k]]}
<1> HIDE DEF n, C
<1>5. 0 \in S
  <2>1. n \in 1..n
    BY <1>1
  <2>2. sum[n] = sum[n - 1] + run.duration[q[n]] /\ run.duration[q[n]] <= C[q[n]]
    BY <1>2, <1>3, <2>1
  <2>3. n - 1 \in 0..n /\ n - 0 = n /\ n - 0 - 1 = n - 1
    BY <1>1
  <2> QED BY <1>2, <1>3, <2>1, <2>2, <2>3
<1>6. ASSUME NEW k \in S PROVE k + 1 \in S
  <2> SUFFICES ASSUME k + 1 < n
               PROVE  sum[n] <= sum[n - (k + 1) - 1] + C[q[n - (k + 1)]]
    OBVIOUS
  <2> DEFINE i == n - (k + 1)
  <2>1. i \in 1..(n - 1) /\ i \in 1..n /\ i + 1 \in 1..n /\ i - 1 \in 0..n /\ i \in 0..n
    BY <1>1
  <2>2. n - k = i + 1 /\ n - k - 1 = i
    BY <1>1
  <2>3. sum[n] <= sum[i] + C[q[i + 1]]
    <3>1. k < n
      BY <1>1
    <3> QED BY <2>2, <3>1
  <2> HIDE DEF i
  <2>4. sum[n] <= sum[i - 1] + C[q[i]]
    <3>1. sum[i] = sum[i - 1] + run.duration[q[i]]
      BY <1>2, <2>1
    <3>2. run.duration[q[i]] + C[q[i + 1]] <= C[q[i]]
      BY <1>4, <2>1
    <3>3. sum[i] \in Nat /\ sum[i - 1] \in Nat /\ sum[n] \in Nat
      BY <1>1, <2>1
    <3>4. C[q[i + 1]] \in Nat /\ C[q[i]] \in Nat /\ run.duration[q[i]] \in Nat
      BY <1>3, <2>1
    <3> DEFINE all == sum[n]  here == sum[i]  before == sum[i - 1]
               cost == C[q[i]]  own == run.duration[q[i]]  rest == C[q[i + 1]]
    <3>5. all <= here + rest /\ here = before + own /\ own + rest <= cost
      BY <2>3, <3>1, <3>2
    <3>6. /\ all \in Nat /\ here \in Nat /\ before \in Nat
          /\ cost \in Nat /\ own \in Nat /\ rest \in Nat
      BY <3>3, <3>4
    <3>7. all <= before + cost
      <4> HIDE DEF all, here, before, cost, own, rest, S, C, n
      <4> QED BY <3>5, <3>6
    <3> QED BY <3>7
  <2> QED BY <2>4 DEF i
<1>7. n - 1 \in S
  <2>1. S \in SUBSET Nat
    OBVIOUS
  <2> HIDE DEF S
  <2>2. S = Nat
    BY <1>5, <1>6, <2>1, NatSetInduction
  <2> QED BY <1>1, <2>2
<1>8. sum[n] <= sum[0] + C[q[1]]
  <2>1. n - (n - 1) = 1 /\ n - (n - 1) - 1 = 0 /\ n - 1 < n
    BY <1>1
  <2> QED BY <1>7, <2>1
<1>9. C[q[1]] \in Nat /\ sum[n] \in Nat
  BY <1>1, <1>3
<1> QED BY <1>2, <1>8, <1>9 DEF n, C

\* A list that highestCost chose weighs exactly that.
LEMMA GreedyAttains ==
  ASSUME NEW run, IsRun(run), NEW p, IsGreedy(run, p)
  PROVE  Weight(run, p) = Costs(run)[p[1]]
<1> DEFINE n == Len(p)
           C == Costs(run)
<1>1. n \in Nat /\ n > 0 /\ p \in Seq(DOMAIN run.deps)
  BY EmptySeq, LenProperties DEF IsGreedy
<1>2. PICK sum \in [0..n -> Nat] :
        /\ Weight(run, p) = sum[n] /\ sum[0] = 0
        /\ \A i \in 1..n : sum[i] = sum[i - 1] + run.duration[p[i]]
  BY <1>1, WeightSums
<1>3. \A i \in 1..n : /\ p[i] \in DOMAIN run.deps /\ C[p[i]] \in Nat
                      /\ run.duration[p[i]] \in Nat
  BY <1>1, ElementOfSeq, CostsTyped DEF IsRun
<1>4. \A i \in 1..(n - 1) : C[p[i]] = run.duration[p[i]] + C[p[i + 1]]
  <2> TAKE i \in 1..(n - 1)
  <2>1. i \in 1..n
    BY <1>1
  <2>2. p[i + 1] \in HighestCost(run, run.deps[p[i]])
    BY DEF IsGreedy
  <2> QED BY <1>3, <2>1, <2>2, CostFacts
<1>5. C[p[n]] = run.duration[p[n]]
  <2>1. n \in 1..n
    BY <1>1
  <2> QED BY <1>3, <2>1, CostFacts DEF IsGreedy
<1> DEFINE S == {k \in Nat : k < n => sum[n] = sum[n - k - 1] + C[p[n - k]]}
<1> HIDE DEF n, C
<1>6. 0 \in S
  <2>1. n \in 1..n
    BY <1>1
  <2>2. sum[n] = sum[n - 1] + C[p[n]]
    BY <1>2, <1>5, <2>1
  <2>3. n - 1 \in 0..n /\ n - 0 = n /\ n - 0 - 1 = n - 1
    BY <1>1
  <2> QED BY <2>2, <2>3
<1>7. ASSUME NEW k \in S PROVE k + 1 \in S
  <2> SUFFICES ASSUME k + 1 < n
               PROVE  sum[n] = sum[n - (k + 1) - 1] + C[p[n - (k + 1)]]
    OBVIOUS
  <2> DEFINE i == n - (k + 1)
  <2>1. i \in 1..(n - 1) /\ i \in 1..n /\ i + 1 \in 1..n /\ i - 1 \in 0..n /\ i \in 0..n
    BY <1>1
  <2>2. n - k = i + 1 /\ n - k - 1 = i
    BY <1>1
  <2>3. sum[n] = sum[i] + C[p[i + 1]]
    <3>1. k < n
      BY <1>1
    <3> QED BY <2>2, <3>1
  <2> HIDE DEF i
  <2>4. sum[n] = sum[i - 1] + C[p[i]]
    <3>1. sum[i] = sum[i - 1] + run.duration[p[i]]
      BY <1>2, <2>1
    <3>2. run.duration[p[i]] + C[p[i + 1]] = C[p[i]]
      BY <1>4, <2>1
    <3>3. sum[i] \in Nat /\ sum[i - 1] \in Nat /\ sum[n] \in Nat
      BY <1>1, <2>1
    <3>4. C[p[i + 1]] \in Nat /\ C[p[i]] \in Nat /\ run.duration[p[i]] \in Nat
      BY <1>3, <2>1
    <3> DEFINE all == sum[n]  here == sum[i]  before == sum[i - 1]
               cost == C[p[i]]  own == run.duration[p[i]]  rest == C[p[i + 1]]
    <3>5. all = here + rest /\ here = before + own /\ own + rest = cost
      BY <2>3, <3>1, <3>2
    <3>6. /\ all \in Nat /\ here \in Nat /\ before \in Nat
          /\ cost \in Nat /\ own \in Nat /\ rest \in Nat
      BY <3>3, <3>4
    <3>7. all = before + cost
      <4> HIDE DEF all, here, before, cost, own, rest, S, C, n
      <4> QED BY <3>5, <3>6
    <3> QED BY <3>7
  <2> QED BY <2>4 DEF i
<1>8. n - 1 \in S
  <2>1. S \in SUBSET Nat
    OBVIOUS
  <2> HIDE DEF S
  <2>2. S = Nat
    BY <1>6, <1>7, <2>1, NatSetInduction
  <2> QED BY <1>1, <2>2
<1>9. sum[n] = sum[0] + C[p[1]]
  <2>1. n - (n - 1) = 1 /\ n - (n - 1) - 1 = 0 /\ n - 1 < n
    BY <1>1
  <2> QED BY <1>8, <2>1
<1>10. C[p[1]] \in Nat
  BY <1>1, <1>3
<1> QED BY <1>2, <1>9, <1>10 DEF n, C

\* Without cycles a chain is no longer than the set it is in, so Chains has them all.
LEMMA ChainsDoNotRepeat ==
  ASSUME NEW T, NEW D, IsAcyclic(T, D), NEW W \in SUBSET T, IsFiniteSet(W),
         NEW p \in Seq(W), IsChain(D, p)
  PROVE  p \in Chains(D, W)
<1> DEFINE n == Len(p)
<1>1. n \in Nat /\ p \in [1..n -> W]
  BY LenProperties, SeqDef
<1>2. ASSUME NEW i \in 1..n, NEW j \in 1..n, i < j PROVE p[i] # p[j]
  <2> SUFFICES ASSUME p[i] = p[j] PROVE FALSE
    OBVIOUS
  <2> DEFINE S == {p[k] : k \in i..(j - 1)}
  <2>1. S \in SUBSET T /\ S # {}
    BY <1>1, <1>2
  <2>2. PICK t \in S : D[t] \cap S = {}
    <3> HIDE DEF S
    <3> QED BY <2>1 DEF IsAcyclic
  <2>3. PICK k \in i..(j - 1) : t = p[k]
    OBVIOUS
  <2>4. p[k + 1] \in D[t]
    BY <1>1, <2>3 DEF IsChain
  <2>5. p[k + 1] \in S
    <3>1. CASE k + 1 \in i..(j - 1)
      BY <3>1
    <3>2. CASE k + 1 = j
      <4>1. i \in i..(j - 1)
        BY <1>1, <1>2
      <4> QED BY <3>2, <4>1
    <3> QED BY <1>1, <3>1, <3>2
  <2> HIDE DEF S
  <2> QED BY <2>2, <2>4, <2>5
<1>3. p \in Injection(1..n, W)
  <2>1. ASSUME NEW i \in 1..n, NEW j \in 1..n, p[i] = p[j] PROVE i = j
    BY <1>1, <1>2, <2>1
  <2> HIDE DEF n
  <2> QED BY <1>1, <2>1 DEF Injection, IsInjective
<1>4. n <= Cardinality(W)
  <2>1. Cardinality(1..n) = n
    <3> HIDE DEF n
    <3>1. Cardinality(1..n) = IF 1 > n THEN 0 ELSE n - 1 + 1
      BY <1>1, FS_Interval
    <3> QED BY <1>1, <3>1
  <2>2. Cardinality(1..n) <= Cardinality(W)
    <3> HIDE DEF n
    <3> QED BY <1>3, FS_Injection
  <2> QED BY <2>1, <2>2
<1>5. Cardinality(W) \in Nat
  BY FS_CardinalityType
<1> QED BY <1>1, <1>4, <1>5 DEF Chains

\* Every member of Chains is a chain.
LEMMA ChainsAreChains ==
  ASSUME NEW D, NEW W, IsFiniteSet(W), NEW p \in Chains(D, W)
  PROVE  p \in Seq(W) /\ IsChain(D, p)
<1>1. PICK n \in 0..Cardinality(W) : p \in [1..n -> W]
  BY DEF Chains
<1>2. n \in Nat
  BY FS_CardinalityType
<1> QED BY <1>1, <1>2, IsASeq DEF Chains

\* CriticalPath returns a chain of tasks that were completed and started.
LEMMA PathIsChain ==
  ASSUME NEW run, IsRun(run), NEW p, IsGreedy(run, p),
         p[1] \in run.completed \cap run.started
  PROVE  p \in Seq(run.completed \cap run.started) /\ IsChain(run.deps, p)
<1> DEFINE n == Len(p)
           W == run.completed \cap run.started
           S == {k \in Nat : k < n => p[k + 1] \in W}
<1>1. n \in Nat /\ n > 0 /\ p \in Seq(DOMAIN run.deps)
  BY EmptySeq, LenProperties DEF IsGreedy
<1>2. \A i \in 1..(n - 1) : p[i] \in DOMAIN run.deps 
                             /\ p[i + 1] \in run.deps[p[i]] \cap run.started
  <2> TAKE i \in 1..(n - 1)
  <2>1. p[i] \in DOMAIN run.deps
    BY <1>1, ElementOfSeq
  <2>2. run.deps[p[i]] \in SUBSET DOMAIN run.deps
    BY <2>1 DEF IsRun, IsAcyclic
  <2> QED BY <2>1, <2>2, HighestIsHighest DEF IsGreedy
<1>3. 0 \in S
  OBVIOUS
<1>4. ASSUME NEW k \in S PROVE k + 1 \in S
  <2> SUFFICES ASSUME k + 1 < n PROVE p[k + 2] \in W
    OBVIOUS
  <2>1. k + 1 \in 1..(n - 1) /\ (k + 1) + 1 = k + 2 /\ p[k + 1] \in W
    BY <1>1
  <2> QED BY <1>2, <2>1 DEF IsRun
<1>5. S = Nat
  <2>1. S \in SUBSET Nat
    OBVIOUS
  <2> HIDE DEF S
  <2> QED BY <1>3, <1>4, <2>1, NatSetInduction
<1>6. \A i \in 1..n : p[i] \in W
  <2> TAKE i \in 1..n
  <2>1. i - 1 \in S /\ i - 1 < n /\ (i - 1) + 1 = i
    <3> HIDE DEF S
    <3> QED BY <1>1, <1>5
  <2> QED BY <2>1
<1>7. p \in Seq(W)
  <2>1. p \in [1..n -> W]
    BY <1>1, <1>6, LenProperties
  <2> HIDE DEF n, W
  <2> QED BY <1>1, <2>1, IsASeq
<1> QED BY <1>2, <1>7 DEF IsChain

-----------------------------------------------------------------------------
\* "Returns the slowest chain of tasks" (runner.go:239): whatever the graph, the durations
\* and the ties, CriticalPath returns a chain, and no chain took longer.
THEOREM HeaviestChain ==
  ASSUME NEW run, IsRun(run)
  PROVE  IsHeaviest(run)
<1> DEFINE W == run.completed \cap run.started
           C == Costs(run)
           first == HighestCost(run, run.completed)
<1>0. /\ W \in SUBSET DOMAIN run.deps /\ IsFiniteSet(W)
      /\ IsAcyclic(DOMAIN run.deps, run.deps) /\ run.completed \in SUBSET DOMAIN run.deps
  BY FS_Subset DEF IsRun
<1>1. /\ first \subseteq W
      /\ \A t \in first, u \in W : C[u] <= C[t]
      /\ first = {} => \A u \in W : C[u] = 0
  BY <1>0, HighestIsHighest
<1>2. \A t \in first : /\ PathsFrom(run)[t] # {}
                       /\ \A p \in PathsFrom(run)[t] : IsGreedy(run, p) /\ p[1] = t
  BY <1>0, <1>1, PathsAreGreedy
<1>3. \A t \in W : C[t] \in Nat
  BY <1>0, CostsTyped
<1>4. Weight(run, <<>>) = 0
  <2>1. <<>> \in Seq(DOMAIN run.deps) /\ Len(<<>>) = 0
    BY EmptySeq
  <2>2. PICK sum \in [0..Len(<<>>) -> Nat] :
          Weight(run, <<>>) = sum[Len(<<>>)] /\ sum[0] = 0
    BY <2>1, WeightSums, Zenon
  <2> QED BY <2>1, <2>2, Zenon
<1>5. ASSUME NEW q \in Chains(run.deps, W)
      PROVE  /\ q = <<>> => Weight(run, q) = 0
             /\ q # <<>> => q[1] \in W /\ Weight(run, q) <= C[q[1]]
  <2>1. q \in Seq(W) /\ IsChain(run.deps, q)
    BY <1>0, ChainsAreChains
  <2>2. q \in Seq(DOMAIN run.deps) /\ \A i \in 1..Len(q) : q[i] \in W
    BY <1>0, <2>1, ElementOfSeq, SeqMonotonic
  <2>3. q # <<>> => 1 \in 1..Len(q)
    BY <2>1, EmptySeq, LenProperties
  <2>4. q # <<>> => Weight(run, q) <= C[q[1]]
    BY <2>1, <2>2, ChainsBounded
  <2> QED BY <1>4, <2>2, <2>3, <2>4
<1>6. CASE first = {}
  <2>1. CriticalPath(run) = {<<>>}
    BY <1>6 DEF CriticalPath
  <2>2. <<>> \in Chains(run.deps, W)
    <3>1. <<>> \in Seq(W) /\ IsChain(run.deps, <<>>)
      BY EmptySeq DEF IsChain
    <3> QED BY <1>0, <3>1, ChainsDoNotRepeat
  <2>3. ASSUME NEW q \in Chains(run.deps, W) PROVE Weight(run, q) <= Weight(run, <<>>)
    <3>1. CASE q = <<>>
      BY <1>4, <3>1
    <3>2. CASE q # <<>>
      <4>1. q[1] \in W /\ Weight(run, q) <= C[q[1]] /\ C[q[1]] = 0
        BY <1>1, <1>5, <1>6, <3>2
      <4> QED BY <1>4, <4>1
    <3> QED BY <3>1, <3>2
  <2> QED BY <2>1, <2>2, <2>3 DEF IsHeaviest
<1>7. CASE first # {}
  <2>1. CriticalPath(run) = UNION {PathsFrom(run)[t] : t \in first}
    BY <1>7 DEF CriticalPath
  <2>2. CriticalPath(run) # {}
    <3>1. PICK t \in first : TRUE
      BY <1>7
    <3>2. PathsFrom(run)[t] # {}
      BY <1>2
    <3> HIDE DEF first
    <3> QED BY <2>1, <3>2
  <2>3. ASSUME NEW p \in CriticalPath(run)
        PROVE  /\ p \in Chains(run.deps, W)
               /\ \A q \in Chains(run.deps, W) : Weight(run, q) <= Weight(run, p)
    <3>1. PICK t \in first : p \in PathsFrom(run)[t]
      <4> HIDE DEF first
      <4> QED BY <2>1
    <3>2. IsGreedy(run, p) /\ p[1] = t /\ t \in W
      BY <1>1, <1>2, <3>1
    <3>3. p \in Seq(W) /\ IsChain(run.deps, p)
      BY <3>2, PathIsChain
    <3>4. p \in Chains(run.deps, W)
      BY <1>0, <3>3, ChainsDoNotRepeat
    <3>5. Weight(run, p) = C[t] /\ C[t] \in Nat
      BY <1>3, <3>2, GreedyAttains
    <3>6. ASSUME NEW q \in Chains(run.deps, W) PROVE Weight(run, q) <= Weight(run, p)
      <4>1. CASE q = <<>>
        BY <1>4, <3>5, <4>1
      <4>2. CASE q # <<>>
        <5>1. q[1] \in W /\ Weight(run, q) <= C[q[1]]
          BY <1>5, <4>2
        <5>2. C[q[1]] <= C[t] /\ C[q[1]] \in Nat
          BY <1>1, <1>3, <3>1, <5>1
        <5>3. Weight(run, q) \in Nat
          <6>1. q \in Seq(W)
            BY <1>0, ChainsAreChains
          <6>2. q \in Seq(DOMAIN run.deps) /\ Len(q) \in Nat
            BY <1>0, <6>1, SeqMonotonic, LenProperties
          <6> QED BY <6>2, WeightSums
        <5> QED BY <3>5, <5>1, <5>2, <5>3
      <4> QED BY <4>1, <4>2
    <3> QED BY <3>4, <3>6
  <2> QED BY <2>2, <2>3 DEF IsHeaviest
<1> QED BY <1>6, <1>7

-----------------------------------------------------------------------------
(* The pool's own graph, and the graphs a pool is given. *)

\* The critical path is the slowest chain of every run of the pool that has returned.
THEOREM CriticalPathIsHeaviest == Spec => []CriticalPathHeaviest
<1>1. ASSUME TypeOK, DependenciesFirst, NEW timing \in Timings
      PROVE  IsHeaviest(Finished(timing))
  <2>1. IsRun(Finished(timing))
    <3> DEFINE run == Finished(timing)
    <3>1. /\ run.deps = Deps /\ run.completed = completed
          /\ run.started = timing.started /\ run.duration = timing.duration
      BY DEF Finished
    <3>2. DOMAIN Deps = Tasks /\ IsAcyclic(Tasks, Deps)
      BY DepsAssumption, AcyclicAssumption DEF IsAcyclic
    <3>3. timing.started \in SUBSET Tasks /\ timing.duration \in [Tasks -> Nat]
      BY TimingsAssumption
    <3>4. completed \in SUBSET Tasks /\ \A t \in completed : Deps[t] \subseteq completed
      BY <1>1 DEF TypeOK, DependenciesFirst
    <3> HIDE DEF run
    <3> QED BY <3>1, <3>2, <3>3, <3>4, FiniteAssumption DEF IsRun, run
  <2> QED BY <2>1, HeaviestChain
<1>2. TypeOK /\ DependenciesFirst => CriticalPathHeaviest
  BY <1>1 DEF CriticalPathHeaviest
<1> QED BY <1>2, TypeCorrect, DependencyOrderHolds, PTL

\* Whatever a pool is given, StartAll's has all it needs and StopAll's the same tasks,
\* every edge turned round.
THEOREM ReversedGraphIsExact == Spec => []ReversedGraphExact
<1>1. ReversedGraphExact
  BY GivenAssumption, ReversalIsExact DEF ReversedGraphExact
<1> QED BY <1>1, PTL
=============================================================================
