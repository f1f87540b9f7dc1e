-------------------------- MODULE InductionLemmas --------------------------
(***************************************************************************)
(* Induction over the natural numbers stated with a set instead of an      *)
(* operator, which is the form the provers can instantiate, and what it    *)
(* gives for functions defined by recursion over a sequence.               *)
(***************************************************************************)
EXTENDS Integers, Sequences, WellFoundedInduction, NaturalsInduction, TLAPS

Less == {p \in Nat \X Nat : p[1] < p[2]}

\* The order on the natural numbers is well founded.
LEMMA LessWellFounded == IsWellFoundedOn(Less, Nat)
<1>1. OpToRel(<, Nat) = Less
  BY Zenon DEF OpToRel, Less
<1> QED
  BY <1>1, NatLessThanWellFounded, Zenon

\* A set of naturals that has 0 and the successor of each member is all of them.
LEMMA SetInduction ==
  ASSUME NEW T \in SUBSET Nat, 0 \in T, \A n \in T : n + 1 \in T
  PROVE  T = Nat
<1> SUFFICES ASSUME Nat \ T # {} PROVE FALSE
  OBVIOUS
<1>1. PICK x \in Nat \ T : \A y \in Nat \ T : ~(<<y, x>> \in Less)
  BY WFMin, LessWellFounded, Zenon
<1>2. x # 0 /\ x - 1 \in Nat
  BY <1>1
<1>3. x - 1 \notin T
  BY <1>1, <1>2
<1>4. <<x - 1, x>> \in Less
  BY <1>1, <1>2 DEF Less
<1> QED
  BY <1>1, <1>2, <1>3, <1>4

\* A function on 0 .. n is defined by its value at 0 and by the step that leads from
\* each value to the next.
LEMMA RecursionOverRange ==
  ASSUME NEW V, NEW base \in V, NEW N \in Nat, NEW step \in [1 .. N -> [V -> V]]
  PROVE  \E g \in [0 .. N -> V] : g[0] = base /\ \A i \in 1 .. N : g[i] = step[i][g[i - 1]]
<1> DEFINE Defines(g, n) ==
             g \in [0 .. n -> V] /\ g[0] = base /\ \A i \in 1 .. n : g[i] = step[i][g[i - 1]]
           Good == {n \in Nat : n <= N => \E g : Defines(g, n)}
<1>1. 0 \in Good
  <2>1. Defines([i \in 0 .. 0 |-> base], 0)
    OBVIOUS
  <2> QED
    BY <2>1
<1>2. ASSUME NEW n \in Good PROVE n + 1 \in Good
  <2> SUFFICES ASSUME n + 1 <= N PROVE \E g : Defines(g, n + 1)
    OBVIOUS
  <2>1. PICK g : Defines(g, n)
    OBVIOUS
  <2> DEFINE h == [i \in 0 .. (n + 1) |-> IF i <= n THEN g[i] ELSE step[n + 1][g[n]]]
  <2>2. step[n + 1][g[n]] \in V
    BY <2>1
  <2>3. h \in [0 .. (n + 1) -> V] /\ h[0] = base
    BY <2>1, <2>2
  <2>4. ASSUME NEW i \in 1 .. (n + 1) PROVE h[i] = step[i][h[i - 1]]
    <3>1. i - 1 \in 0 .. n /\ i - 1 \in 0 .. (n + 1)
      OBVIOUS
    <3>2. h[i - 1] = g[i - 1]
      BY <3>1
    <3>3. CASE i = n + 1
      BY <3>2, <3>3
    <3>4. CASE i # n + 1
      BY <2>1, <3>2, <3>4
    <3> QED
      BY <3>3, <3>4
  <2> HIDE DEF h
  <2>5. Defines(h, n + 1)
    BY <2>3, <2>4
  <2> QED
    BY <2>5
<1>3. Good = Nat
  <2> HIDE DEF Good
  <2>1. Good \in SUBSET Nat
    BY DEF Good
  <2> QED
    BY <1>1, <1>2, <2>1, SetInduction
<1> QED
  BY <1>3
=============================================================================
