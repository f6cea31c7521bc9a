--------------------------- MODULE TraversalProofs ---------------------------
(***************************************************************************)
(* Proofs about Traversal, for any graph, with cycles or without: the loop *)
(* invariant LoopInv holds at the start and is kept by every turn, every   *)
(* turn comes closer to the end, and at the end LoopInv says that the loop *)
(* has done what uniqueDeps and NewReversedRunner are for.                 *)
(***************************************************************************)
EXTENDS Traversal, InductionProofs, SequenceTheorems, TLAPS

-----------------------------------------------------------------------------
(* The members of a list, and lists without duplicates. *)

\* The empty list has no members, and none twice.
LEMMA RangeOfEmpty == Range(<<>>) = {} /\ IsInjective(<<>>)
BY DEF Range, IsInjective

\* The members of a list are its first and those of the rest.
LEMMA RangeOfHeadTail ==
  ASSUME NEW S, NEW s \in Seq(S), s # <<>>
  PROVE  Range(s) = {Head(s)} \cup Range(Tail(s))
<1>1. \A i \in DOMAIN s : i = 1 \/ (i - 1 \in DOMAIN Tail(s) /\ Tail(s)[i - 1] = s[i])
  BY HeadTailProperties, LenProperties
<1>2. \A i \in DOMAIN Tail(s) : i + 1 \in DOMAIN s /\ Tail(s)[i] = s[i + 1]
  BY HeadTailProperties, LenProperties
<1>3. 1 \in DOMAIN s /\ Head(s) = s[1]
  BY LenProperties, EmptySeq
<1> QED BY <1>1, <1>2, <1>3 DEF Range

\* What Append adds, to a list and to one without duplicates.
LEMMA RangeOfAppend ==
  ASSUME NEW S, NEW s \in Seq(S), NEW e \in S
  PROVE  /\ Range(Append(s, e)) = Range(s) \cup {e}
         /\ IsInjective(s) /\ e \notin Range(s) => IsInjective(Append(s, e))
<1>1. /\ Append(s, e) \in Seq(S) /\ DOMAIN Append(s, e) = 1..(Len(s) + 1)
      /\ DOMAIN s = 1..Len(s) /\ Len(s) \in Nat
  BY AppendProperties, LenProperties
<1>2. \A i \in 1..(Len(s) + 1) : Append(s, e)[i] = IF i = Len(s) + 1 THEN e ELSE s[i]
  BY <1>1, AppendProperties
<1>3. Range(Append(s, e)) = Range(s) \cup {e}
  BY <1>1, <1>2 DEF Range
<1>4. ASSUME IsInjective(s), e \notin Range(s) PROVE IsInjective(Append(s, e))
  BY <1>1, <1>2, <1>4 DEF IsInjective, Range
<1> QED BY <1>3, <1>4

-----------------------------------------------------------------------------
(* The least closed set. *)

\* The closure has the roots, and what its members need.
LEMMA ClosureIsClosed ==
  ASSUME NEW dependents, IsGraph(dependents), NEW roots \in SUBSET DOMAIN dependents
  PROVE  /\ roots \subseteq Closure(dependents, roots)
         /\ \A t \in Closure(dependents, roots) :
              Range(dependents[t]) \subseteq Closure(dependents, roots)
<1>1. \A t \in DOMAIN dependents : Range(dependents[t]) \subseteq DOMAIN dependents
  BY RangeOfSeq DEF IsGraph
<1> QED BY <1>1 DEF Closure

\* Every closed set with the roots has the closure.
LEMMA ClosureIsLeast ==
  ASSUME NEW dependents, NEW roots, NEW S \in SUBSET DOMAIN dependents,
         roots \subseteq S, \A u \in S : Range(dependents[u]) \subseteq S
  PROVE  Closure(dependents, roots) \subseteq S
BY DEF Closure

-----------------------------------------------------------------------------
\* The loop starts from the given tasks.
THEOREM LoopBegins ==
  ASSUME NEW dependents, IsGraph(dependents), NEW tasks \in Seq(DOMAIN dependents)
  PROVE  LoopInv(dependents, Range(tasks), Begun(dependents, tasks))
<1> DEFINE l == Begun(dependents, tasks)
           Node == DOMAIN dependents
<1>1. /\ l.queue = tasks /\ l.met = <<>> /\ l.reversed = [t \in Node |-> <<>>]
      /\ l \in [queue : Seq(Node), met : Seq(Node), reversed : [Node -> Seq(Node)]]
  BY EmptySeq DEF Begun
<1>2. Range(tasks) \in SUBSET Node
  BY RangeOfSeq
<1>3. Range(tasks) \subseteq Closure(dependents, Range(tasks))
  BY <1>2, ClosureIsClosed
<1>4. LoopInv(dependents, Range(tasks), l)
  <2> HIDE DEF l
  <2> QED BY <1>1, <1>3, RangeOfEmpty DEF LoopInv
<1> QED BY <1>4

\* Every turn keeps the invariant.
THEOREM TurnKeeps ==
  ASSUME NEW dependents, IsGraph(dependents), NEW roots \in SUBSET DOMAIN dependents,
         NEW l, LoopInv(dependents, roots, l), l.queue # <<>>
  PROVE  LoopInv(dependents, roots, Turn(dependents, l))
<1> DEFINE Node == DOMAIN dependents
           task == Head(l.queue)
           next == Turn(dependents, l)
           Typed(x) ==
             x \in [queue : Seq(Node), met : Seq(Node), reversed : [Node -> Seq(Node)]]
<1>1. Typed(l) /\ task \in Node /\ Tail(l.queue) \in Seq(Node)
  BY HeadTailProperties DEF LoopInv
<1>2. Range(l.queue) = {task} \cup Range(Tail(l.queue))
  BY <1>1, RangeOfHeadTail
<1>3. CASE task \in Range(l.met)
  <2>1. /\ next.queue = Tail(l.queue) /\ next.met = l.met /\ next.reversed = l.reversed
        /\ Typed(next)
    BY <1>1, <1>3 DEF Turn
  <2>2. Range(next.met) \cup Range(next.queue) = Range(l.met) \cup Range(l.queue)
    BY <1>2, <1>3, <2>1
  <2>3. LoopInv(dependents, roots, next)
    <3> HIDE DEF next
    <3> QED BY <2>1, <2>2 DEF LoopInv
  <2> QED BY <2>3
<1>4. CASE task \notin Range(l.met)
  <2>1. dependents[task] \in Seq(Node)
    BY <1>1 DEF IsGraph
  <2>2. /\ next.queue = Tail(l.queue) \o dependents[task]
        /\ next.met = Append(l.met, task)
        /\ next.reversed = Noted(dependents, task, l.reversed)
        /\ next = [queue |-> next.queue, met |-> next.met, reversed |-> next.reversed]
    BY <1>4 DEF Turn
  <2>3. /\ next.queue \in Seq(Node)
        /\ Range(next.queue) = Range(Tail(l.queue)) \cup Range(dependents[task])
    <3>1. Tail(l.queue) \o dependents[task] \in Seq(Node)
      BY <1>1, <2>1, ConcatProperties
    <3>2. Range(Tail(l.queue) \o dependents[task])
            = Range(Tail(l.queue)) \cup Range(dependents[task])
      <4>1. Tail(l.queue) \in Seq(Node)
        BY <1>1
      <4> HIDE DEF Node
      <4> QED BY <4>1, <2>1, RangeConcatenation, ZenonT(30)
    <3> QED BY <2>2, <3>1, <3>2
  <2>4. /\ next.met \in Seq(Node) /\ Range(next.met) = Range(l.met) \cup {task}
        /\ IsInjective(next.met)
    BY <1>1, <1>4, <2>2, AppendProperties, RangeOfAppend DEF LoopInv
  <2>5. \A t \in Node :
          next.reversed[t] = IF t \in Range(dependents[task])
                             THEN Append(l.reversed[t], task) ELSE l.reversed[t]
    BY <1>1, <2>2 DEF Noted
  <2>6. next.reversed \in [Node -> Seq(Node)]
    <3>1. \A t \in Node : next.reversed[t] \in Seq(Node)
      <4> TAKE t \in Node
      <4>1. l.reversed[t] \in Seq(Node)
        BY <1>1
      <4>2. Append(l.reversed[t], task) \in Seq(Node)
        BY <1>1, <4>1, AppendProperties
      <4> QED BY <2>5, <4>1, <4>2
    <3>2. next.reversed = [t \in Node |-> next.reversed[t]]
      BY <1>1, <2>2 DEF Noted
    <3> HIDE DEF next, Node
    <3> QED BY <3>1, <3>2
  <2>7. Typed(next)
    BY <2>2, <2>3, <2>4, <2>6
  <2>8. ASSUME NEW t \in Node
        PROVE  /\ Range(next.reversed[t])
                    = {u \in Range(next.met) : t \in Range(dependents[u])}
               /\ IsInjective(next.reversed[t])
    <3>1. /\ l.reversed[t] \in Seq(Node) /\ IsInjective(l.reversed[t])
          /\ Range(l.reversed[t]) = {u \in Range(l.met) : t \in Range(dependents[u])}
      BY <1>1 DEF LoopInv
    <3>2. task \notin Range(l.reversed[t])
      BY <1>4, <3>1
    <3>3. CASE t \in Range(dependents[task])
      BY <1>1, <2>4, <2>5, <3>1, <3>2, <3>3, RangeOfAppend
    <3>4. CASE t \notin Range(dependents[task])
      BY <2>4, <2>5, <3>1, <3>4
    <3> QED BY <3>3, <3>4
  <2>9. Range(dependents[task]) \subseteq Closure(dependents, roots)
    BY <1>2, ClosureIsClosed DEF LoopInv
  <2>10. Range(next.met) \cup Range(next.queue)
           = Range(l.met) \cup Range(l.queue) \cup Range(dependents[task])
    BY <1>2, <2>3, <2>4
  <2>11. \A t \in Range(next.met) :
           Range(dependents[t]) \subseteq Range(next.met) \cup Range(next.queue)
    BY <2>4, <2>10 DEF LoopInv
  <2>12. /\ roots \subseteq Range(next.met) \cup Range(next.queue)
         /\ Range(next.met) \cup Range(next.queue) \subseteq Closure(dependents, roots)
    BY <2>9, <2>10 DEF LoopInv
  <2>13. LoopInv(dependents, roots, next)
    <3> HIDE DEF next
    <3> QED BY <2>4, <2>7, <2>8, <2>11, <2>12 DEF LoopInv
  <2> QED BY <2>13
<1> QED BY <1>3, <1>4

\* What is left of the loop: the queue, and all that tasks not yet met can add to it.
Remaining(dependents, l) ==
  Len(l.queue)
    + (Cardinality(DOMAIN dependents) - Len(l.met)) * Cardinality(DOMAIN dependents)

\* A list without duplicates is no longer than the set of what it may have.
LEMMA ListWithoutDuplicatesIsShort ==
  ASSUME NEW S, IsFiniteSet(S), NEW s \in Seq(S), IsInjective(s)
  PROVE  Len(s) <= Cardinality(S)
<1>1. Len(s) \in Nat /\ s \in [1..Len(s) -> S]
  BY LenProperties
<1>2. s \in Injection(1..Len(s), S)
  BY <1>1 DEF Injection, IsInjective
<1>3. Cardinality(1..Len(s)) = Len(s)
  <2> DEFINE n == Len(s)
  <2>1. n \in Nat
    BY <1>1
  <2> HIDE DEF n
  <2>2. Cardinality(1..n) = IF 1 > n THEN 0 ELSE n - 1 + 1
    BY <2>1, FS_Interval
  <2>3. Cardinality(1..n) = n
    BY <2>1, <2>2
  <2> QED BY <2>3 DEF n
<1>4. Cardinality(1..Len(s)) <= Cardinality(S)
  BY <1>2, FS_Injection
<1> QED BY <1>3, <1>4

\* What remains of the loop is a natural number.
LEMMA RemainingTyped ==
  ASSUME NEW dependents, IsFiniteGraph(dependents), NEW roots \in SUBSET DOMAIN dependents,
         NEW l, LoopInv(dependents, roots, l)
  PROVE  Len(l.queue) \in Nat /\ Remaining(dependents, l) \in Int
         /\ Len(l.queue) <= Remaining(dependents, l)
<1> DEFINE N == Cardinality(DOMAIN dependents)
           k == N - Len(l.met)
<1>1. N \in Nat /\ Len(l.queue) \in Nat /\ Len(l.met) \in Nat
  BY FS_CardinalityType, LenProperties DEF LoopInv, IsFiniteGraph
<1>2. Len(l.met) <= N
  BY ListWithoutDuplicatesIsShort DEF LoopInv, IsFiniteGraph
<1>3. k \in Nat
  BY <1>1, <1>2
<1> HIDE DEF k
<1>4. k * N \in Nat
  BY <1>1, <1>3
<1> HIDE DEF N
<1> QED BY <1>1, <1>4 DEF Remaining, k, N

\* Every turn leaves less to do, though a task may be put in the queue many times.
THEOREM TurnProgresses ==
  ASSUME NEW dependents, IsFiniteGraph(dependents), NEW roots \in SUBSET DOMAIN dependents,
         NEW l, LoopInv(dependents, roots, l), l.queue # <<>>
  PROVE  Remaining(dependents, Turn(dependents, l)) < Remaining(dependents, l)
<1> DEFINE Node == DOMAIN dependents
           N == Cardinality(Node)
           task == Head(l.queue)
           next == Turn(dependents, l)
<1>1. /\ l.queue \in Seq(Node) /\ l.met \in Seq(Node) /\ task \in Node
      /\ l = [queue |-> l.queue, met |-> l.met, reversed |-> l.reversed]
      /\ Tail(l.queue) \in Seq(Node) /\ Len(Tail(l.queue)) = Len(l.queue) - 1
  BY HeadTailProperties DEF LoopInv
<1>2. N \in Nat /\ Len(l.queue) \in Nat /\ Len(l.met) \in Nat
  BY <1>1, FS_CardinalityType, LenProperties DEF IsFiniteGraph
<1>3. CASE task \in Range(l.met)
  <2>1. Len(next.queue) = Len(l.queue) - 1 /\ next.met = l.met
    BY <1>1, <1>3 DEF Turn
  <2> DEFINE rest == (N - Len(l.met)) * N
  <2>2. rest \in Int
    BY <1>2
  <2>3. Remaining(dependents, l) = Len(l.queue) + rest
    BY DEF Remaining
  <2>4. Remaining(dependents, next) = Len(l.queue) - 1 + rest
    <3> HIDE DEF next
    <3> QED BY <2>1 DEF Remaining
  <2> HIDE DEF rest, next
  <2> QED BY <1>2, <2>2, <2>3, <2>4 DEF next
<1>4. CASE task \notin Range(l.met)
  <2>1. /\ dependents[task] \in Seq(Node) /\ Len(dependents[task]) \in Nat
        /\ Len(dependents[task]) <= N
    <3>1. dependents[task] \in Seq(Node)
      BY <1>1 DEF IsFiniteGraph, IsGraph
    <3> QED BY <1>1, <3>1, ListWithoutDuplicatesIsShort, LenProperties DEF IsFiniteGraph
  <2>2. /\ next.queue = Tail(l.queue) \o dependents[task]
        /\ next.met = Append(l.met, task)
    BY <1>4 DEF Turn
  <2>3. Len(next.met) = Len(l.met) + 1
    BY <1>1, <2>2, AppendProperties
  <2>4. Len(next.queue) = Len(l.queue) - 1 + Len(dependents[task])
    <3>1. Tail(l.queue) \in Seq(Node) /\ dependents[task] \in Seq(Node)
      BY <1>1, <2>1
    <3>2. Len(Tail(l.queue) \o dependents[task])
            = Len(Tail(l.queue)) + Len(dependents[task])
      <4> HIDE DEF Node, task
      <4> QED BY <3>1, ConcatProperties
    <3> QED BY <1>1, <2>2, <3>2
  <2> DEFINE k == N - Len(l.met)
             d == Len(dependents[task])
  <2>5. k \in Int /\ N - Len(next.met) = k - 1
    BY <1>2, <2>3
  <2>6. (k - 1) * N = k * N - N /\ k * N \in Int
    <3> HIDE DEF k, N
    <3> QED BY <1>2, <2>5
  <2>7. Remaining(dependents, l) = Len(l.queue) + k * N
    BY DEF Remaining
  <2>8. Remaining(dependents, next) = Len(l.queue) - 1 + d + (k - 1) * N
    <3> HIDE DEF next, k
    <3> QED BY <2>4, <2>5 DEF Remaining
  <2> DEFINE kN == k * N
  <2> HIDE DEF next, k, d, kN
  <2>9. Remaining(dependents, next) < Remaining(dependents, l)
    <3>1. d \in Nat /\ d <= N
      BY <2>1 DEF d
    <3>2. /\ kN \in Int /\ Remaining(dependents, l) = Len(l.queue) + kN
          /\ Remaining(dependents, next) = Len(l.queue) - 1 + d + (kN - N)
      BY <2>6, <2>7, <2>8 DEF kN
    <3> HIDE DEF N
    <3> QED BY <1>2, <3>1, <3>2
  <2> QED BY <2>9 DEF next
<1> QED BY <1>3, <1>4

\* At the end the pool has all the given tasks need, each once, and StopAll's has the
\* same tasks with every edge turned round, none lost and none doubled.
THEOREM LoopEndsExact ==
  ASSUME NEW dependents, IsGraph(dependents), NEW roots \in SUBSET DOMAIN dependents,
         NEW l, LoopInv(dependents, roots, l), l.queue = <<>>
  PROVE  Exact(dependents, roots, l)
<1> DEFINE Node == DOMAIN dependents
<1>1. Range(l.met) \cup Range(l.queue) = Range(l.met)
  BY RangeOfEmpty
<1>2. Range(l.met) \subseteq Node
  BY RangeOfSeq DEF LoopInv
<1>3. Closure(dependents, roots) \subseteq Range(l.met)
  BY <1>1, <1>2, ClosureIsLeast DEF LoopInv
<1>4. \A t \in Range(l.met) : Reversal(l)[t] = l.reversed[t]
  BY DEF Reversal, Restrict
<1> QED BY <1>1, <1>2, <1>3, <1>4 DEF LoopInv, Exact

\* NewReversedRunner hands all its reversed tasks to NewRunner, whose own traversal adds
\* none to them: what they need is among them.
THEOREM ReversedTasksAreClosed ==
  ASSUME NEW dependents, IsGraph(dependents), NEW roots \in SUBSET DOMAIN dependents,
         NEW l, LoopInv(dependents, roots, l), l.queue = <<>>
  PROVE  /\ IsGraph(Reversal(l))
         /\ Closure(Reversal(l), Range(l.met)) = Closure(dependents, roots)
<1> DEFINE graph == Reversal(l)
<1>1. Exact(dependents, roots, l)
  BY LoopEndsExact
<1>2. DOMAIN graph = Range(l.met) /\ \A t \in Range(l.met) : graph[t] = l.reversed[t]
  BY DEF Reversal, Restrict
<1>3. \A t \in Range(l.met) : Range(graph[t]) \subseteq Range(l.met)
  BY <1>1 DEF Exact
<1>4. Range(l.met) \subseteq DOMAIN dependents
  BY RangeOfSeq DEF LoopInv
<1>5. \A t \in Range(l.met) : graph[t] \in Seq(Range(l.met))
  <2> TAKE t \in Range(l.met)
  <2>1. graph[t] \in Seq(DOMAIN dependents)
    BY <1>2, <1>4 DEF LoopInv
  <2>2. graph[t] \in Seq(Range(graph[t]))
    BY <2>1, SeqOfRange
  <2> QED BY <1>3, <2>2, SeqMonotonic
<1>6. IsGraph(graph)
  BY <1>2, <1>5 DEF IsGraph, Reversal, Restrict
<1>7. Closure(graph, Range(l.met)) = Range(l.met)
  BY <1>2, <1>3 DEF Closure
<1> QED BY <1>1, <1>6, <1>7 DEF Exact

-----------------------------------------------------------------------------
(* The whole loop. *)

LocalsAt(dependents, tasks, locals, n) ==
  IF n = 0 THEN Begun(dependents, tasks) ELSE TurnOrEnd(dependents, locals[n - 1])

\* The loop is its turns, one after the other.
LEMMA LoopIsItsTurns ==
  ASSUME NEW dependents, IsFiniteGraph(dependents), NEW tasks \in Seq(DOMAIN dependents)
  PROVE  LET bound == TurnBound(dependents, tasks)
         IN /\ bound \in Nat
            /\ \E locals : /\ Loop(dependents, tasks) = locals[bound]
                           /\ \A n \in 0..bound :
                                locals[n] = LocalsAt(dependents, tasks, locals, n)
<1> DEFINE B == TurnBound(dependents, tasks)
           roots == Range(tasks)
           Node == DOMAIN dependents
           V == {l \in [queue : Seq(Node), met : Seq(Node),
                         reversed : [Node -> Seq(Node)]] :
                   LoopInv(dependents, roots, l)}
           T == 0..B
           D == [n \in T |-> IF n = 0 THEN {} ELSE {n - 1}]
           F == [n \in T |-> [g \in [D[n] -> V] |-> LocalsAt(dependents, tasks, g, n)]]
<1>0. IsGraph(dependents) /\ roots \in SUBSET Node
  BY RangeOfSeq DEF IsFiniteGraph
<1>1. B \in Nat
  <2> DEFINE N == Cardinality(Node)
  <2>1. N \in Nat /\ Len(tasks) \in Nat
    BY FS_CardinalityType, LenProperties DEF IsFiniteGraph
  <2>2. N * N \in Nat
    BY <2>1
  <2> QED BY <2>1, <2>2 DEF TurnBound
<1>2. ASSUME NEW n \in T, NEW g \in [D[n] -> V]
      PROVE  LocalsAt(dependents, tasks, g, n) \in V
  <2>1. CASE n = 0
    <3>1. LoopInv(dependents, roots, Begun(dependents, tasks))
      BY <1>0, LoopBegins
    <3> QED BY <2>1, <3>1 DEF LocalsAt, LoopInv
  <2>2. CASE n # 0
    <3>1. g[n - 1] \in V
      BY <2>2
    <3>2. LoopInv(dependents, roots, TurnOrEnd(dependents, g[n - 1]))
      <4>1. LoopInv(dependents, roots, g[n - 1])
        BY <3>1
      <4> QED BY <1>0, <4>1, TurnKeeps DEF TurnOrEnd
    <3> QED BY <2>2, <3>2 DEF LocalsAt, LoopInv
  <2> QED BY <2>1, <2>2
<1> HIDE DEF B, V, roots, Node
<1>3. IsAcyclic(T, D)
  BY <1>1, PredecessorIsAcyclic
<1>4. IsRecursion(T, D, V, F)
  BY <1>2 DEF IsRecursion
<1>5. PICK f \in [T -> V] : Solves(T, D, F, f)
  <2> HIDE DEF T, D, F
  <2> QED BY <1>3, <1>4, AcyclicRecursion, Zenon
<1>6. ASSUME NEW n \in T PROVE f[n] = LocalsAt(dependents, tasks, f, n)
  <2> DEFINE g == [u \in D[n] |-> f[u]]
  <2>1. g \in [D[n] -> V]
    BY <1>1, <1>5
  <2>2. f[n] = LocalsAt(dependents, tasks, g, n)
    <3>1. F[n][g] = LocalsAt(dependents, tasks, g, n)
      BY <2>1
    <3> QED BY <1>5, <3>1 DEF Solves
  <2>3. n # 0 => g[n - 1] = f[n - 1]
    OBVIOUS
  <2> HIDE DEF g
  <2> QED BY <2>2, <2>3 DEF LocalsAt
<1>7. f = [n \in T |-> LocalsAt(dependents, tasks, f, n)]
  <2>1. f = [n \in T |-> f[n]]
    BY <1>5
  <2> HIDE DEF T
  <2> QED BY <1>6, <2>1
<1> DEFINE locals == CHOOSE locals :
                       locals = [n \in T |-> LocalsAt(dependents, tasks, locals, n)]
<1>8. /\ locals = [n \in T |-> LocalsAt(dependents, tasks, locals, n)]
      /\ Loop(dependents, tasks) = locals[B]
  <2> HIDE DEF F, D
  <2> QED BY <1>7 DEF Loop, LocalsAt, B
<1>9. \A n \in T : locals[n] = LocalsAt(dependents, tasks, locals, n)
  <2> HIDE DEF locals, T
  <2> QED BY <1>8
<1> HIDE DEF locals
<1> QED BY <1>1, <1>8, <1>9 DEF B

\* The loop ends, and has kept its invariant.
THEOREM LoopEnds ==
  ASSUME NEW dependents, IsFiniteGraph(dependents), NEW tasks \in Seq(DOMAIN dependents)
  PROVE  /\ Loop(dependents, tasks).queue = <<>>
         /\ LoopInv(dependents, Range(tasks), Loop(dependents, tasks))
<1> DEFINE B == TurnBound(dependents, tasks)
           roots == Range(tasks)
<1>0. IsGraph(dependents) /\ roots \in SUBSET DOMAIN dependents
  BY RangeOfSeq DEF IsFiniteGraph
<1>1. /\ B \in Nat
      /\ \E locals : /\ Loop(dependents, tasks) = locals[B]
                     /\ \A n \in 0..B : locals[n] = LocalsAt(dependents, tasks, locals, n)
  BY LoopIsItsTurns
<1>2. PICK locals : /\ Loop(dependents, tasks) = locals[B]
                    /\ \A n \in 0..B : locals[n] = LocalsAt(dependents, tasks, locals, n)
  BY <1>1
<1> HIDE DEF B, roots
<1> DEFINE Kept(n) == /\ LoopInv(dependents, roots, locals[n])
                      /\ \/ locals[n].queue = <<>>
                         \/ Remaining(dependents, locals[n]) + n <= B
           S == {n \in Nat : n <= B => Kept(n)}
<1>3. 0 \in S
  <2>1. locals[0] = Begun(dependents, tasks)
    BY <1>1, <1>2 DEF LocalsAt
  <2>2. LoopInv(dependents, roots, locals[0])
    BY <1>0, <2>1, LoopBegins DEF roots
  <2>3. Remaining(dependents, locals[0]) = B
    <3> DEFINE N == Cardinality(DOMAIN dependents)
    <3>1. locals[0].queue = tasks /\ locals[0].met = <<>> /\ Len(<<>>) = 0
      BY <2>1, EmptySeq DEF Begun
    <3>2. N \in Nat
      BY FS_CardinalityType DEF IsFiniteGraph
    <3>3. N - 0 = N
      BY <3>2
    <3> HIDE DEF N
    <3> QED BY <3>1, <3>3 DEF Remaining, TurnBound, B, N
  <2> QED BY <1>1, <2>2, <2>3
<1>4. ASSUME NEW n \in S PROVE n + 1 \in S
  <2> SUFFICES ASSUME n + 1 <= B PROVE Kept(n + 1)
    OBVIOUS
  <2>1. Kept(n) /\ n \in Nat
    BY <1>1
  <2> DEFINE l == locals[n]
             m == locals[n + 1]
  <2>2. m = TurnOrEnd(dependents, l)
    BY <1>1, <1>2, <2>1 DEF LocalsAt
  <2> HIDE DEF l, m, S
  <2>3. LoopInv(dependents, roots, l)
    BY <2>1 DEF l
  <2>4. CASE l.queue = <<>>
    BY <2>2, <2>3, <2>4 DEF TurnOrEnd, m
  <2>5. CASE l.queue # <<>>
    <3>1. m = Turn(dependents, l)
      BY <2>2, <2>5 DEF TurnOrEnd
    <3>2. LoopInv(dependents, roots, m)
      BY <1>0, <2>3, <2>5, <3>1, TurnKeeps
    <3>3. Remaining(dependents, m) < Remaining(dependents, l)
      BY <1>0, <2>3, <2>5, <3>1, TurnProgresses
    <3>4. Remaining(dependents, l) \in Int /\ Remaining(dependents, m) \in Int
      BY <1>0, <2>3, <3>2, RemainingTyped
    <3>5. Remaining(dependents, l) + n <= B
      BY <2>1, <2>5 DEF l
    <3>6. Remaining(dependents, m) + (n + 1) <= B
      BY <1>1, <2>1, <3>3, <3>4, <3>5
    <3> QED BY <3>2, <3>6 DEF m
  <2> QED BY <2>4, <2>5
<1>5. Kept(B)
  <2>1. S \in SUBSET Nat
    OBVIOUS
  <2>2. S = Nat
    <3> HIDE DEF S
    <3> QED BY <1>3, <1>4, <2>1, NatSetInduction
  <2>3. B \in S /\ B <= B
    <3> HIDE DEF S
    <3> QED BY <1>1, <2>2
  <2> QED BY <2>3
<1>6. locals[B].queue = <<>>
  <2> SUFFICES ASSUME locals[B].queue # <<>> PROVE FALSE
    OBVIOUS
  <2> DEFINE l == locals[B]
  <2>1. LoopInv(dependents, roots, l) /\ Remaining(dependents, l) + B <= B
    BY <1>5
  <2>2. Len(l.queue) \in Nat /\ Remaining(dependents, l) \in Int
        /\ Len(l.queue) <= Remaining(dependents, l)
    <3> HIDE DEF l
    <3> QED BY <1>0, <2>1, RemainingTyped
  <2>3. Len(l.queue) = 0
    <3> HIDE DEF l
    <3> QED BY <1>1, <2>1, <2>2
  <2> QED BY <2>1, <2>3, EmptySeq DEF LoopInv
<1> QED BY <1>2, <1>5, <1>6 DEF roots

\* uniqueDeps and NewReversedRunner do what they are for, whatever finite graph and list
\* of tasks they are given.
THEOREM ReversalIsExact ==
  ASSUME NEW dependents, IsFiniteGraph(dependents), NEW tasks \in Seq(DOMAIN dependents)
  PROVE  ReversesExactly(dependents, tasks)
<1> DEFINE end == Loop(dependents, tasks)
           graph == Reversal(end)
           again == Loop(graph, end.met)
<1>0. IsGraph(dependents) /\ Range(tasks) \in SUBSET DOMAIN dependents
  BY RangeOfSeq DEF IsFiniteGraph
<1>1. end.queue = <<>> /\ LoopInv(dependents, Range(tasks), end)
  BY LoopEnds
<1> HIDE DEF end
<1>2. Exact(dependents, Range(tasks), end)
  BY <1>0, <1>1, LoopEndsExact
<1>3. IsGraph(graph) /\ Closure(graph, Range(end.met)) = Closure(dependents, Range(tasks))
  BY <1>0, <1>1, ReversedTasksAreClosed
<1>4. DOMAIN graph = Range(end.met) /\ end.met \in Seq(DOMAIN dependents)
  BY <1>1 DEF Reversal, Restrict, LoopInv
<1>5. end.met \in Seq(DOMAIN graph)
  BY <1>4, SeqOfRange
<1>6. IsFiniteGraph(graph)
  <2>1. IsFiniteSet(DOMAIN graph)
    BY <1>4, RangeOfSeq, FS_Subset DEF IsFiniteGraph
  <2>2. \A t \in DOMAIN graph : IsInjective(graph[t])
    BY <1>2, <1>4 DEF Exact
  <2> QED BY <1>3, <2>1, <2>2 DEF IsFiniteGraph
<1> HIDE DEF graph
<1>7. again.queue = <<>> /\ LoopInv(graph, Range(end.met), again)
  BY <1>5, <1>6, LoopEnds
<1>8. Exact(graph, Range(end.met), again)
  <2> HIDE DEF again
  <2>1. Range(end.met) \in SUBSET DOMAIN graph
    BY <1>4 DEF graph
  <2> QED BY <1>3, <1>7, <2>1, LoopEndsExact
<1>9. IsInjective(again.met) /\ Range(again.met) = Range(end.met)
  BY <1>2, <1>3, <1>8 DEF Exact
<1> QED BY <1>1, <1>2, <1>9 DEF ReversesExactly, NewReversedRunner, UniqueDeps,
     end, graph, again
=============================================================================
