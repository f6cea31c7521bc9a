--------------------------- MODULE InductionProofs ---------------------------
(***************************************************************************)
(* Induction and recursion with sets in the place of operators: a set of   *)
(* naturals that is closed under successor, a set of tasks that holds      *)
(* every task whose dependencies it holds, and the function that solves a  *)
(* recursion along dependencies without cycles.                            *)
(***************************************************************************)
EXTENDS Naturals, FiniteSetTheorems, WellFoundedInduction, TLAPS

\* Every set of natural numbers that is not empty has a least one.
LEMMA NatSetHasLeast ==
  ASSUME NEW S \in SUBSET Nat, S # {}
  PROVE  \E n \in S : \A m \in S : n <= m
<1> DEFINE R == {p \in Nat \X Nat : p[1] < p[2]}
<1>0. R = OpToRel(<, Nat)
  BY Zenon DEF OpToRel
<1>1. PICK n \in S : \A m \in S : ~ (<<m, n>> \in R)
  <2> HIDE DEF R
  <2> QED BY <1>0, NatLessThanWellFounded, WFMin, Zenon
<1>2. \A m, k \in Nat : m < k => <<m, k>> \in R
  OBVIOUS
<1>3. \A m \in S : n <= m
  <2> SUFFICES ASSUME NEW m \in S, ~ (n <= m) PROVE FALSE
    OBVIOUS
  <2>1. m \in Nat /\ n \in Nat /\ m < n
    OBVIOUS
  <2>2. <<m, n>> \in R
    BY <2>1, <1>2
  <2> QED BY <1>1, <2>2
<1> QED BY <1>3

\* A set with 0 and the successor of each of its members has all natural numbers.
LEMMA NatSetInduction ==
  ASSUME NEW S \in SUBSET Nat, 0 \in S, \A n \in S : n + 1 \in S
  PROVE  S = Nat
<1> SUFFICES ASSUME Nat \ S # {} PROVE FALSE
  OBVIOUS
<1>1. PICK n \in Nat \ S : \A m \in Nat \ S : n <= m
  BY NatSetHasLeast
<1>2. n # 0 /\ n - 1 \in Nat /\ n - 1 \notin S
  BY <1>1
<1> QED BY <1>1, <1>2

-----------------------------------------------------------------------------
\* D[t] are the tasks that t needs.  There is no cycle among them, and no endless chain:
\* every set of tasks has one that needs none of the others.
IsAcyclic(T, D) ==
  D \in [T -> SUBSET T] /\ \A S \in SUBSET T : S # {} => \E t \in S : D[t] \cap S = {}

\* Without cycles, a set that has every task whose dependencies it has is the whole set.
LEMMA AcyclicInduction ==
  ASSUME NEW T, NEW D, IsAcyclic(T, D), NEW S \in SUBSET T,
         \A t \in T : D[t] \subseteq S => t \in S
  PROVE  S = T
<1> SUFFICES ASSUME T \ S # {} PROVE FALSE
  OBVIOUS
<1>1. PICK t \in T \ S : D[t] \cap (T \ S) = {}
  BY DEF IsAcyclic
<1> QED BY <1>1 DEF IsAcyclic

\* A recursion with values in V: F[t] computes the value of t from those of D[t].
IsRecursion(T, D, V, F) == \A t \in T : F[t] \in [[D[t] -> V] -> V]
Solves(T, D, F, f) == \A t \in T : f[t] = F[t][[u \in D[t] |-> f[u]]]

\* Along dependencies without cycles a recursion has a solution: what the recursive
\* functions of the model (costs, paths, sums, the turns of a loop) stand on.
LEMMA AcyclicRecursion ==
  ASSUME NEW T, NEW D, IsAcyclic(T, D), NEW V, NEW F, IsRecursion(T, D, V, F)
  PROVE  \E f \in [T -> V] : Solves(T, D, F, f)
<1> DEFINE SolvesOn(C, g) == /\ g \in [C -> V]
                           /\ \A t \in C : /\ D[t] \subseteq C
                                         /\ g[t] = F[t][[u \in D[t] |-> g[u]]]
           Solved == {t \in T : \E C \in SUBSET T : t \in C /\ \E g : SolvesOn(C, g)}
<1>0. \A t \in T : F[t] \in [[D[t] -> V] -> V]
  BY DEF IsRecursion
<1>1. ASSUME NEW C1 \in SUBSET T, NEW C2 \in SUBSET T, NEW g1, NEW g2,
             SolvesOn(C1, g1), SolvesOn(C2, g2)
      PROVE  \A t \in C1 \cap C2 : g1[t] = g2[t]
  <2> DEFINE S == {t \in T : t \in C1 \cap C2 => g1[t] = g2[t]}
  <2>1. ASSUME NEW t \in T, D[t] \subseteq S, t \in C1 \cap C2 PROVE g1[t] = g2[t]
    <3>1. [u \in D[t] |-> g1[u]] = [u \in D[t] |-> g2[u]]
      BY <1>1, <2>1
    <3>2. g1[t] = F[t][[u \in D[t] |-> g1[u]]]
      BY <1>1, <2>1
    <3>3. g2[t] = F[t][[u \in D[t] |-> g2[u]]]
      BY <1>1, <2>1
    <3> HIDE DEF SolvesOn, S
    <3> QED BY <3>1, <3>2, <3>3, Zenon
  <2>2. S = T
    <3>1. \A t \in T : D[t] \subseteq S => t \in S
      BY <2>1
    <3>2. S \in SUBSET T
      OBVIOUS
    <3> HIDE DEF S
    <3> QED BY <3>1, <3>2, AcyclicInduction
  <2> QED BY <2>2
<1> DEFINE f == [t \in T |-> CHOOSE v \in V : \E C \in SUBSET T : \E g : 
                   t \in C /\ SolvesOn(C, g) /\ v = g[t]]
<1>2. ASSUME NEW C \in SUBSET T, NEW g, SolvesOn(C, g), NEW t \in C
      PROVE  f[t] = g[t] /\ g[t] \in V
  <2>1. g[t] \in V
    BY <1>2
  <2>2. \A v \in V : (\E C1 \in SUBSET T : \E h : t \in C1 /\ SolvesOn(C1, h) /\ v = h[t])
                        <=> v = g[t]
    <3> HIDE DEF SolvesOn
    <3> QED BY <1>1, <1>2, <2>1
  <2>3. f[t] = CHOOSE v \in V : \E C1 \in SUBSET T : \E h :
                       t \in C1 /\ SolvesOn(C1, h) /\ v = h[t]
    <3> HIDE DEF SolvesOn
    <3> QED OBVIOUS
  <2> HIDE DEF f, Solves
  <2> QED BY <2>1, <2>2, <2>3
<1>3. ASSUME NEW t \in Solved
      PROVE  /\ D[t] \subseteq Solved /\ f[t] \in V 
             /\ f[t] = F[t][[u \in D[t] |-> f[u]]]
  <2>0. PICK C \in SUBSET T : t \in C /\ \E g : SolvesOn(C, g)
    <3> HIDE DEF SolvesOn
    <3> QED BY <1>3
  <2>1. PICK g : t \in C /\ SolvesOn(C, g)
    <3> HIDE DEF SolvesOn
    <3> QED BY <2>0
  <2>2. D[t] \subseteq C /\ g[t] = F[t][[u \in D[t] |-> g[u]]]
    BY <2>1
  <2>3. D[t] \subseteq Solved
    <3> HIDE DEF SolvesOn
    <3> QED BY <2>1, <2>2
  <2>4. \A u \in C : f[u] = g[u] /\ g[u] \in V
    <3> HIDE DEF SolvesOn, f
    <3> QED BY <1>2, <2>1
  <2>5. [u \in D[t] |-> f[u]] = [u \in D[t] |-> g[u]]
    <3> HIDE DEF SolvesOn, f
    <3> QED BY <2>2, <2>4
  <2> HIDE DEF SolvesOn, f, Solved
  <2> QED BY <2>1, <2>2, <2>3, <2>4, <2>5
<1>4. ASSUME NEW t \in T, D[t] \subseteq Solved
      PROVE  t \in Solved
  <2> DEFINE C == Solved \cup {t}
             rest == [u \in D[t] |-> f[u]]
             g == [u \in C |-> IF u \in Solved THEN f[u] ELSE F[t][rest]]
  <2>1. rest \in [D[t] -> V]
    <3> HIDE DEF f, Solved
    <3> QED BY <1>3, <1>4
  <2>2. F[t][rest] \in V
    <3> HIDE DEF rest
    <3> QED BY <1>0, <2>1
  <2>3. \A u \in Solved : /\ D[u] \subseteq Solved
                         /\ [x \in D[u] |-> g[x]] = [x \in D[u] |-> f[x]]
    <3> HIDE DEF f, Solved, rest
    <3> QED BY <1>3
  <2>4. [x \in D[t] |-> g[x]] = rest
    <3> HIDE DEF f, Solved
    <3> QED BY <1>4
  <2>5. SolvesOn(C, g)
    <3>1. g \in [C -> V]
      <4> HIDE DEF f, Solved, rest
      <4> QED BY <1>3, <2>2
    <3>2. \A u \in C : D[u] \subseteq C /\ g[u] = F[u][[x \in D[u] |-> g[x]]]
      <4>1. \A u \in Solved : g[u] = f[u]
        <5> HIDE DEF f, Solved
        <5> QED OBVIOUS
      <4>2. t \notin Solved => g[t] = F[t][rest]
        <5> HIDE DEF f, Solved
        <5> QED OBVIOUS
      <4> HIDE DEF f, Solved, rest, g
      <4> QED BY <1>3, <1>4, <2>3, <2>4, <4>1, <4>2
    <3> QED BY <3>1, <3>2
  <2>6. C \in SUBSET T /\ t \in C
    OBVIOUS
  <2> HIDE DEF SolvesOn, g, C
  <2> QED BY <2>5, <2>6
<1>5. Solved = T
  <2>1. \A t \in T : D[t] \subseteq Solved => t \in Solved
    <3> HIDE DEF Solved
    <3> QED BY <1>4
  <2>2. Solved \in SUBSET T
    OBVIOUS
  <2> HIDE DEF Solved
  <2> QED BY <2>1, <2>2, AcyclicInduction
<1>6. f \in [T -> V] /\ \A t \in T : f[t] = F[t][[u \in D[t] |-> f[u]]]
  <2> DEFINE value(t) == CHOOSE v \in V : \E C \in SUBSET T : \E g :
                           t \in C /\ SolvesOn(C, g) /\ v = g[t]
  <2>1. f = [t \in T |-> value(t)]
    BY Zenon
  <2>2. f \in [T -> V]
    <3> HIDE DEF value, Solved
    <3>1. \A t \in T : f[t] = value(t) 
      BY <2>1
    <3> HIDE DEF f
    <3> QED BY <1>3, <1>5, <2>1, <3>1
  <2> HIDE DEF f, Solved
  <2> QED BY <1>3, <1>5, <2>2
<1> HIDE DEF f
<1> QED BY <1>6 DEF Solves

\* The order in which a recursion over 0..n goes.
LEMMA PredecessorIsAcyclic ==
  ASSUME NEW n \in Nat
  PROVE  IsAcyclic(0..n, [i \in 0..n |-> IF i = 0 THEN {} ELSE {i - 1}])
<1> DEFINE T == 0..n
           D == [i \in T |-> IF i = 0 THEN {} ELSE {i - 1}]
<1>1. D \in [T -> SUBSET T]
  OBVIOUS
<1>2. ASSUME NEW S \in SUBSET T, S # {} PROVE \E i \in S : D[i] \cap S = {}
  <2>1. PICK i \in S : \A m \in S : i <= m
    BY <1>2, NatSetHasLeast
  <2> QED BY <2>1
<1> HIDE DEF T, D
<1>3. IsAcyclic(T, D)
  BY <1>1, <1>2 DEF IsAcyclic
<1> QED BY <1>3 DEF T, D
=============================================================================
