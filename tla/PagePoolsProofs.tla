--------------------------- MODULE PagePoolsProofs ---------------------------
(***************************************************************************)
(* Proofs about PagePools: for each of the four pools the inductive        *)
(* invariant on which it rests, what it says about the room that is found  *)
(* and given back, and that the pool is an allocator.                      *)
(***************************************************************************)
EXTENDS PagePools, InductionLemmas, FiniteSetTheorems, SequenceTheorems

-----------------------------------------------------------------------------
(***************************************************************************)
(* Lemmas about lists of pages and of blocks.                              *)
(***************************************************************************)

\* g holds what Without leaves of the first i of s.
Leaves(g, s, S, T) ==
  /\ g \in [0 .. Len(s) -> Seq(T)] /\ g[0] = <<>>
  /\ \A i \in 1 .. Len(s) : g[i] = IF s[i] \in S THEN g[i - 1] ELSE Append(g[i - 1], s[i])

\* The recursion of Without goes through the list from its front.
LEMMA WithoutSteps ==
  ASSUME NEW T, NEW s \in Seq(T), NEW S
  PROVE  \E g : Leaves(g, s, S, T) /\ Without(s, S) = g[Len(s)]
<1> DEFINE step == [i \in 1 .. Len(s) |->
                      [v \in Seq(T) |-> IF s[i] \in S THEN v ELSE Append(v, s[i])]]
           Rec(h) == h = [n \in 0 .. Len(s) |->
                            IF n = 0 THEN <<>>
                            ELSE IF s[n] \in S THEN h[n - 1] ELSE Append(h[n - 1], s[n])]
           left == CHOOSE h : Rec(h)
<1>1. Len(s) \in Nat /\ \A i \in 1 .. Len(s) : s[i] \in T
  OBVIOUS
<1>2. step \in [1 .. Len(s) -> [Seq(T) -> Seq(T)]] /\ <<>> \in Seq(T)
  BY <1>1
<1>3. \E g \in [0 .. Len(s) -> Seq(T)] :
        g[0] = <<>> /\ \A i \in 1 .. Len(s) : g[i] = step[i][g[i - 1]]
  <2> DEFINE V == Seq(T)
             N == Len(s)
  <2>1. N \in Nat /\ step \in [1 .. N -> [V -> V]] /\ <<>> \in V
    BY <1>1, <1>2
  <2> HIDE DEF step, V, N
  <2>2. \E g \in [0 .. N -> V] : g[0] = <<>> /\ \A i \in 1 .. N : g[i] = step[i][g[i - 1]]
    BY <2>1, RecursionOverRange
  <2> QED
    BY <2>2 DEF V, N
<1>4. PICK g \in [0 .. Len(s) -> Seq(T)] :
        g[0] = <<>> /\ \A i \in 1 .. Len(s) : g[i] = step[i][g[i - 1]]
  BY <1>3
<1>5. \A i \in 1 .. Len(s) : /\ g[i] = IF s[i] \in S THEN g[i - 1] ELSE Append(g[i - 1], s[i])
                             /\ i - 1 \in 0 .. Len(s)
  <2> TAKE i \in 1 .. Len(s)
  <2>1. i - 1 \in 0 .. Len(s) /\ g[i - 1] \in Seq(T)
    BY <1>1, <1>4
  <2>2. step[i][g[i - 1]] = IF s[i] \in S THEN g[i - 1] ELSE Append(g[i - 1], s[i])
    BY <2>1
  <2>3. g[i] = step[i][g[i - 1]]
    BY <1>4
  <2> QED
    BY <2>1, <2>2, <2>3
<1>6. Rec(g)
  <2>1. \A i \in 0 .. Len(s) : i # 0 => i \in 1 .. Len(s)
    OBVIOUS
  <2> QED
    BY <1>4, <1>5, <2>1
<1>7. Rec(left)
  BY <1>6
<1>8. Without(s, S) = left[Len(s)]
  BY Zenon DEF Without
<1> HIDE DEF left
<1>9. /\ left[0] = <<>>
      /\ \A i \in 1 .. Len(s) :
           left[i] = IF s[i] \in S THEN left[i - 1] ELSE Append(left[i - 1], s[i])
  <2>1. \A i \in 0 .. Len(s) :
          left[i] = IF i = 0 THEN <<>>
                    ELSE IF s[i] \in S THEN left[i - 1] ELSE Append(left[i - 1], s[i])
    BY <1>7
  <2>2. 0 \in 0 .. Len(s) /\ \A i \in 1 .. Len(s) : i \in 0 .. Len(s) /\ i # 0
    BY <1>1
  <2> QED
    BY <2>1, <2>2
<1> HIDE DEF step
<1> DEFINE Good == {n \in Nat : n <= Len(s) => left[n] = g[n]}
<1>10. 0 \in Good
  BY <1>4, <1>9
<1>11. ASSUME NEW n \in Good PROVE n + 1 \in Good
  <2> SUFFICES ASSUME n + 1 <= Len(s) PROVE left[n + 1] = g[n + 1]
    OBVIOUS
  <2>1. n + 1 \in 1 .. Len(s) /\ (n + 1) - 1 = n /\ left[n] = g[n]
    OBVIOUS
  <2> QED
    BY <1>5, <1>9, <2>1
<1>12. Good = Nat
  <2> HIDE DEF Good
  <2>1. Good \in SUBSET Nat
    BY DEF Good
  <2> QED
    BY <1>10, <1>11, <2>1, SetInduction
<1>13. Without(s, S) = g[Len(s)]
  BY <1>1, <1>8, <1>12
<1> QED
  <2>1. Leaves(g, s, S, T)
    BY <1>4, <1>5 DEF Leaves
  <2> QED
    BY <1>13, <2>1

\* f says where in the first n of s the members of w come from: they are those that
\* are not in S, in their order.
Keeps(w, s, n, S, f) ==
  /\ f \in [1 .. Len(w) -> 1 .. n]
  /\ \A i, j \in 1 .. Len(w) : i < j => f[i] < f[j]
  /\ \A i \in 1 .. Len(w) : w[i] = s[f[i]] /\ s[f[i]] \notin S
  /\ \A j \in 1 .. n : s[j] \notin S => \E i \in 1 .. Len(w) : f[i] = j

\* One step of Without.
LEMMA KeepsStep ==
  ASSUME NEW T, NEW s \in Seq(T), NEW S, NEW w \in Seq(T), NEW n \in Nat, n + 1 <= Len(s),
         NEW f, Keeps(w, s, n, S, f)
  PROVE  \E h : Keeps(IF s[n + 1] \in S THEN w ELSE Append(w, s[n + 1]), s, n + 1, S, h)
<1>1. Len(w) \in Nat /\ n + 1 \in 1 .. Len(s) /\ s[n + 1] \in T
  OBVIOUS
<1>2. CASE s[n + 1] \in S
  <2>1. f \in [1 .. Len(w) -> 1 .. (n + 1)]
    BY DEF Keeps
  <2>2. \A j \in 1 .. (n + 1) : s[j] \notin S => j \in 1 .. n
    BY <1>2
  <2>3. Keeps(w, s, n + 1, S, f)
    BY <2>1, <2>2 DEF Keeps
  <2> QED
    BY <1>2, <2>3
<1>3. CASE s[n + 1] \notin S
  <2> DEFINE l == Len(w)
             v == Append(w, s[n + 1])
             h == [i \in 1 .. (l + 1) |-> IF i <= l THEN f[i] ELSE n + 1]
  <2>1. Len(v) = l + 1 /\ v[l + 1] = s[n + 1] /\ \A i \in 1 .. l : v[i] = w[i]
    BY <1>1
  <2>2. l \in Nat /\ f \in [1 .. l -> 1 .. n]
    BY <1>1 DEF Keeps
  <2> HIDE DEF l, v
  <2>3. \A i \in 1 .. l : h[i] = f[i] /\ f[i] \in 1 .. n
    BY <2>2
  <2>4. h \in [1 .. (l + 1) -> 1 .. (n + 1)] /\ h[l + 1] = n + 1
    BY <2>2, <2>3
  <2> HIDE DEF h
  <2>5. /\ \A i, j \in 1 .. l : i < j => f[i] < f[j]
        /\ \A i \in 1 .. l : w[i] = s[f[i]] /\ s[f[i]] \notin S
        /\ \A j \in 1 .. n : s[j] \notin S => \E i \in 1 .. l : f[i] = j
    BY DEF Keeps, l
  <2>6. ASSUME NEW i \in 1 .. (l + 1), NEW j \in 1 .. (l + 1), i < j PROVE h[i] < h[j]
    <3>1. i \in 1 .. l /\ h[i] = f[i] /\ f[i] \in 1 .. n
      BY <2>2, <2>3, <2>6
    <3>2. CASE j = l + 1
      BY <2>4, <3>1, <3>2
    <3>3. CASE j # l + 1
      <4>1. j \in 1 .. l
        BY <2>2, <3>3
      <4> QED
        BY <2>3, <2>5, <2>6, <3>1, <4>1
    <3> QED
      BY <3>2, <3>3
  <2>7. ASSUME NEW i \in 1 .. (l + 1) PROVE v[i] = s[h[i]] /\ s[h[i]] \notin S
    <3>1. CASE i = l + 1
      BY <1>3, <2>1, <2>4, <3>1
    <3>2. CASE i # l + 1
      <4>1. i \in 1 .. l
        BY <2>2, <3>2
      <4> QED
        BY <2>1, <2>3, <2>5, <4>1
    <3> QED
      BY <3>1, <3>2
  <2>8. ASSUME NEW j \in 1 .. (n + 1), s[j] \notin S PROVE \E i \in 1 .. (l + 1) : h[i] = j
    <3>1. CASE j = n + 1
      <4>1. l + 1 \in 1 .. (l + 1)
        BY <2>2
      <4> QED
        BY <2>4, <3>1, <4>1
    <3>2. CASE j # n + 1
      <4>1. PICK i \in 1 .. l : f[i] = j
        BY <2>5, <2>8, <3>2
      <4>2. i \in 1 .. (l + 1) /\ h[i] = j
        BY <2>2, <2>3, <4>1
      <4> QED
        BY <4>2
    <3> QED
      BY <3>1, <3>2
  <2>9. Keeps(v, s, n + 1, S, h)
    BY <2>1, <2>4, <2>6, <2>7, <2>8 DEF Keeps
  <2> QED
    BY <1>3, <2>9 DEF v
<1> QED
  BY <1>2, <1>3

\* Unlinking keeps the others, in their order.
LEMMA WithoutKeeps ==
  ASSUME NEW T, NEW s \in Seq(T), NEW S
  PROVE  Without(s, S) \in Seq(T) /\ \E f : Keeps(Without(s, S), s, Len(s), S, f)
<1>0. PICK g : Leaves(g, s, S, T) /\ Without(s, S) = g[Len(s)]
  BY WithoutSteps
<1>1. /\ g \in [0 .. Len(s) -> Seq(T)] /\ Without(s, S) = g[Len(s)] /\ g[0] = <<>>
      /\ \A i \in 1 .. Len(s) :
           g[i] = IF s[i] \in S THEN g[i - 1] ELSE Append(g[i - 1], s[i])
  BY <1>0 DEF Leaves
<1> DEFINE Good == {n \in Nat : n <= Len(s) => \E f : Keeps(g[n], s, n, S, f)}
<1>2. 0 \in Good
  <2>1. Len(g[0]) = 0
    BY <1>1
  <2> DEFINE none == [i \in 1 .. 0 |-> i]
  <2>2. none \in [1 .. 0 -> 1 .. 0]
    OBVIOUS
  <2>3. Keeps(g[0], s, 0, S, none)
    <3> HIDE DEF none
    <3> QED
      BY <2>1, <2>2 DEF Keeps
  <2> QED
    BY <2>3
<1>3. ASSUME NEW n \in Good PROVE n + 1 \in Good
  <2> SUFFICES ASSUME n + 1 <= Len(s) PROVE \E f : Keeps(g[n + 1], s, n + 1, S, f)
    OBVIOUS
  <2>1. PICK f : Keeps(g[n], s, n, S, f)
    OBVIOUS
  <2>2. g[n] \in Seq(T) /\ n + 1 \in 1 .. Len(s) /\ (n + 1) - 1 = n /\ n \in Nat
    BY <1>1
  <2>3. g[n + 1] = IF s[n + 1] \in S THEN g[n] ELSE Append(g[n], s[n + 1])
    BY <1>1, <2>2
  <2>4. \E h : Keeps(IF s[n + 1] \in S THEN g[n] ELSE Append(g[n], s[n + 1]), s, n + 1, S, h)
    BY <2>1, <2>2, KeepsStep
  <2> QED
    BY <2>3, <2>4
<1>4. Good = Nat
  <2> HIDE DEF Good
  <2>1. Good \in SUBSET Nat
    BY DEF Good
  <2> QED
    BY <1>2, <1>3, <2>1, SetInduction
<1>5. Len(s) \in Nat /\ Len(s) \in 0 .. Len(s)
  OBVIOUS
<1>6. \E f : Keeps(g[Len(s)], s, Len(s), S, f)
  BY <1>4, <1>5
<1>7. Without(s, S) = g[Len(s)] /\ g[Len(s)] \in Seq(T)
  BY <1>1, <1>5
<1> QED
  BY <1>6, <1>7

\* Members and places of a list.
LEMMA RangeOfList ==
  ASSUME NEW T, NEW s \in Seq(T)
  PROVE  /\ Range(s) \in SUBSET T
         /\ \A i \in 1 .. Len(s) : s[i] \in Range(s)
         /\ \A x \in Range(s) : \E i \in 1 .. Len(s) : s[i] = x
BY DEF Range

\* What a list has once, its length counts.
LEMMA RangeCount ==
  ASSUME NEW T, NEW s \in Seq(T), IsInjective(s)
  PROVE  IsFiniteSet(Range(s)) /\ Cardinality(Range(s)) = Len(s)
<1>1. Len(s) \in Nat /\ DOMAIN s = 1 .. Len(s) /\ s \in [1 .. Len(s) -> Range(s)]
  BY DEF Range
<1>2. s \in Injection(1 .. Len(s), Range(s))
  BY <1>1 DEF Injection
<1>3. s \in Surjection(1 .. Len(s), Range(s))
  BY <1>1 DEF Surjection, Range
<1>4. ExistsBijection(1 .. Len(s), Range(s))
  BY <1>2, <1>3 DEF ExistsBijection, Bijection
<1>5. IsFiniteSet(1 .. Len(s))
  BY <1>1, FS_Interval
<1>6. IsFiniteSet(Range(s))
  BY <1>4, <1>5, FS_Bijection
<1> QED
  BY <1>1, <1>4, <1>6, FS_CountingElements

\* Unlinking takes the members of S out of the list and no other.
LEMMA WithoutRange ==
  ASSUME NEW T, NEW s \in Seq(T), NEW S
  PROVE  /\ Without(s, S) \in Seq(T)
         /\ Range(Without(s, S)) = Range(s) \ S
         /\ IsInjective(s) => IsInjective(Without(s, S))
<1> DEFINE w == Without(s, S)
<1>1. w \in Seq(T) /\ \E f : Keeps(w, s, Len(s), S, f)
  BY WithoutKeeps
<1> HIDE DEF w
<1>2. PICK f : Keeps(w, s, Len(s), S, f)
  BY <1>1
<1>3. /\ Len(w) \in Nat /\ DOMAIN w = 1 .. Len(w) /\ DOMAIN s = 1 .. Len(s)
      /\ f \in [1 .. Len(w) -> 1 .. Len(s)]
      /\ \A i, j \in 1 .. Len(w) : i < j => f[i] < f[j]
      /\ \A i \in 1 .. Len(w) : w[i] = s[f[i]] /\ s[f[i]] \notin S
      /\ \A j \in 1 .. Len(s) : s[j] \notin S => \E i \in 1 .. Len(w) : f[i] = j
  BY <1>1, <1>2 DEF Keeps
<1>4. Range(w) = Range(s) \ S
  <2>1. ASSUME NEW x \in Range(w) PROVE x \in Range(s) \ S
    BY <1>3 DEF Range
  <2>2. ASSUME NEW x \in Range(s) \ S PROVE x \in Range(w)
    <3>1. PICK j \in 1 .. Len(s) : s[j] = x
      BY <1>3 DEF Range
    <3>2. PICK i \in 1 .. Len(w) : f[i] = j
      BY <1>3, <3>1
    <3> QED
      BY <1>3, <3>1, <3>2 DEF Range
  <2> QED
    BY <2>1, <2>2
<1>5. ASSUME IsInjective(s), NEW i \in 1 .. Len(w), NEW j \in 1 .. Len(w), w[i] = w[j]
      PROVE  i = j
  <2>1. f[i] = f[j] /\ f[i] \in Int
    BY <1>3, <1>5 DEF IsInjective
  <2> QED
    BY <1>3, <2>1
<1>6. IsInjective(s) => IsInjective(w)
  BY <1>3, <1>5 DEF IsInjective
<1> QED
  BY <1>1, <1>4, <1>6 DEF w

\* The last of a list stays the last unless it goes.
LEMMA WithoutLast ==
  ASSUME NEW T, NEW s \in Seq(T), NEW S, s # <<>>, s[Len(s)] \notin S
  PROVE  Without(s, S) # <<>> /\ Without(s, S)[Len(Without(s, S))] = s[Len(s)]
<1> DEFINE w == Without(s, S)
<1>1. w \in Seq(T) /\ \E f : Keeps(w, s, Len(s), S, f)
  BY WithoutKeeps
<1> HIDE DEF w
<1>2. PICK f : Keeps(w, s, Len(s), S, f)
  BY <1>1
<1>3. Len(w) \in Nat /\ Len(s) \in 1 .. Len(s)
  BY <1>1
<1>4. PICK i \in 1 .. Len(w) : f[i] = Len(s)
  BY <1>2, <1>3 DEF Keeps
<1>5. Len(w) \in 1 .. Len(w)
  BY <1>3
<1>6. f[Len(w)] = Len(s)
  <2>1. f[Len(w)] \in 1 .. Len(s)
    BY <1>2, <1>5 DEF Keeps
  <2>2. i < Len(w) => f[i] < f[Len(w)]
    BY <1>2, <1>5 DEF Keeps
  <2> QED
    BY <1>3, <1>4, <2>1, <2>2
<1>7. w[Len(w)] = s[f[Len(w)]]
  BY <1>2, <1>5 DEF Keeps
<1> QED
  BY <1>1, <1>3, <1>5, <1>6, <1>7 DEF w

\* In the list s the members that are in S are behind all others.
Behind(s, S) == \A i, j \in 1 .. Len(s) : i < j /\ s[i] \in S => s[j] \in S

\* Unlinking does not change the order.
LEMMA WithoutBehind ==
  ASSUME NEW T, NEW s \in Seq(T), NEW S, NEW R, Behind(s, R)
  PROVE  Behind(Without(s, S), R)
<1> DEFINE w == Without(s, S)
<1>1. w \in Seq(T) /\ \E f : Keeps(w, s, Len(s), S, f)
  BY WithoutKeeps
<1> HIDE DEF w
<1>2. PICK f : Keeps(w, s, Len(s), S, f)
  BY <1>1
<1>3. ASSUME NEW i \in 1 .. Len(w), NEW j \in 1 .. Len(w), i < j, w[i] \in R PROVE w[j] \in R
  <2>1. f[i] \in 1 .. Len(s) /\ f[j] \in 1 .. Len(s) /\ f[i] < f[j]
    BY <1>2, <1>3 DEF Keeps
  <2>2. w[i] = s[f[i]] /\ w[j] = s[f[j]]
    BY <1>2, <1>3 DEF Keeps
  <2> QED
    BY <1>3, <2>1, <2>2 DEF Behind
<1> QED
  BY <1>3 DEF Behind, w

\* A page that goes to the front is in the list, once.
LEMMA ToFrontRange ==
  ASSUME NEW T, NEW s \in Seq(T), NEW p \in T
  PROVE  /\ ToFront(p, s) \in Seq(T)
         /\ Range(ToFront(p, s)) = Range(s) \cup {p}
         /\ IsInjective(s) => IsInjective(ToFront(p, s))
         /\ \A S : Behind(s, S) => Behind(ToFront(p, s), S \ {p})
<1> DEFINE w == Without(s, {p})
           t == <<p>> \o w
<1>1. w \in Seq(T) /\ Range(w) = Range(s) \ {p} /\ (IsInjective(s) => IsInjective(w))
  BY WithoutRange
<1>2. ToFront(p, s) = t
  BY DEF ToFront
<1>3. \A S : Behind(s, S) => Behind(w, S)
  BY WithoutBehind
<1> HIDE DEF w
<1>4. /\ t \in Seq(T) /\ Len(t) = Len(w) + 1 /\ t[1] = p /\ Len(w) \in Nat
      /\ \A i \in 1 .. Len(t) : i # 1 => i - 1 \in 1 .. Len(w) /\ t[i] = w[i - 1]
      /\ \A i \in 1 .. Len(w) : i + 1 \in 1 .. Len(t) /\ t[i + 1] = w[i]
  BY <1>1
<1> HIDE DEF t
<1>5. DOMAIN t = 1 .. Len(t) /\ DOMAIN w = 1 .. Len(w) /\ 1 \in 1 .. Len(t)
  BY <1>1, <1>4
<1>6. \A i \in 1 .. Len(w) : w[i] # p
  BY <1>1, <1>5 DEF Range
<1>7. Range(t) = Range(w) \cup {p}
  <2>1. ASSUME NEW x \in Range(t) PROVE x \in Range(w) \cup {p}
    <3>1. PICK i \in 1 .. Len(t) : x = t[i]
      BY <1>5 DEF Range
    <3>2. CASE i = 1
      BY <1>4, <3>1, <3>2
    <3>3. CASE i # 1
      <4>1. i - 1 \in 1 .. Len(w) /\ t[i] = w[i - 1]
        BY <1>4, <3>3
      <4> QED
        BY <1>5, <3>1, <4>1 DEF Range
    <3> QED
      BY <3>2, <3>3
  <2>2. ASSUME NEW x \in Range(w) \cup {p} PROVE x \in Range(t)
    BY <1>4, <1>5 DEF Range
  <2> QED
    BY <2>1, <2>2
<1>8. IsInjective(w) => IsInjective(t)
  <2> SUFFICES ASSUME IsInjective(w), NEW i \in 1 .. Len(t), NEW j \in 1 .. Len(t), t[i] = t[j]
               PROVE  i = j
    BY <1>5 DEF IsInjective
  <2>1. CASE i = 1 \/ j = 1
    BY <1>4, <1>6, <2>1
  <2>2. CASE i # 1 /\ j # 1
    <3>1. i - 1 = j - 1
      BY <1>4, <1>5, <2>2 DEF IsInjective
    <3> QED
      BY <3>1
  <2> QED
    BY <2>1, <2>2
<1>9. ASSUME NEW S, Behind(s, S) PROVE Behind(t, S \ {p})
  <2> SUFFICES ASSUME NEW i \in 1 .. Len(t), NEW j \in 1 .. Len(t), i < j, t[i] \in S \ {p}
               PROVE  t[j] \in S \ {p}
    BY DEF Behind
  <2>1. i # 1 /\ j # 1
    BY <1>4
  <2>2. i - 1 \in 1 .. Len(w) /\ j - 1 \in 1 .. Len(w) /\ t[i] = w[i - 1] /\ t[j] = w[j - 1]
    BY <1>4, <2>1
  <2>3. i - 1 < j - 1
    OBVIOUS
  <2>4. Behind(w, S)
    BY <1>3, <1>9
  <2> QED
    BY <1>6, <2>2, <2>3, <2>4 DEF Behind
<1> QED
  BY <1>1, <1>2, <1>4, <1>7, <1>8, <1>9

\* A page that goes to the back is in the list, once.
LEMMA ToBackRange ==
  ASSUME NEW T, NEW s \in Seq(T), NEW p \in T
  PROVE  /\ ToBack(p, s) \in Seq(T)
         /\ Range(ToBack(p, s)) = Range(s) \cup {p}
         /\ IsInjective(s) => IsInjective(ToBack(p, s))
         /\ \A S : Behind(s, S) => Behind(ToBack(p, s), S \cup {p})
<1> DEFINE w == Without(s, {p})
           t == Append(w, p)
<1>1. w \in Seq(T) /\ Range(w) = Range(s) \ {p} /\ (IsInjective(s) => IsInjective(w))
  BY WithoutRange
<1>2. ToBack(p, s) = t
  BY DEF ToBack
<1>3. \A S : Behind(s, S) => Behind(w, S)
  BY WithoutBehind
<1> HIDE DEF w
<1>4. /\ t \in Seq(T) /\ Len(t) = Len(w) + 1 /\ t[Len(w) + 1] = p /\ Len(w) \in Nat
      /\ \A i \in 1 .. Len(t) : i # Len(w) + 1 => i \in 1 .. Len(w)
      /\ \A i \in 1 .. Len(w) : i \in 1 .. Len(t) /\ t[i] = w[i]
  BY <1>1
<1> HIDE DEF t
<1>5. DOMAIN t = 1 .. Len(t) /\ DOMAIN w = 1 .. Len(w) /\ Len(w) + 1 \in 1 .. Len(t)
  BY <1>1, <1>4
<1>6. \A i \in 1 .. Len(w) : w[i] # p
  BY <1>1, <1>5 DEF Range
<1>7. Range(t) = Range(w) \cup {p}
  <2>1. ASSUME NEW x \in Range(t) PROVE x \in Range(w) \cup {p}
    BY <1>4, <1>5 DEF Range
  <2>2. ASSUME NEW x \in Range(w) \cup {p} PROVE x \in Range(t)
    BY <1>4, <1>5 DEF Range
  <2> QED
    BY <2>1, <2>2
<1>8. IsInjective(w) => IsInjective(t)
  <2> SUFFICES ASSUME IsInjective(w), NEW i \in 1 .. Len(t), NEW j \in 1 .. Len(t), t[i] = t[j]
               PROVE  i = j
    BY <1>5 DEF IsInjective
  <2>1. CASE i = Len(w) + 1 \/ j = Len(w) + 1
    BY <1>4, <1>6, <2>1
  <2>2. CASE i # Len(w) + 1 /\ j # Len(w) + 1
    BY <1>4, <1>5, <2>2 DEF IsInjective
  <2> QED
    BY <2>1, <2>2
<1>9. ASSUME NEW S, Behind(s, S) PROVE Behind(t, S \cup {p})
  <2> SUFFICES ASSUME NEW i \in 1 .. Len(t), NEW j \in 1 .. Len(t), i < j, t[i] \in S \cup {p}
               PROVE  t[j] \in S \cup {p}
    BY DEF Behind
  <2>1. Behind(w, S)
    BY <1>3, <1>9
  <2>2. CASE j = Len(w) + 1
    BY <1>4, <2>2
  <2>3. CASE j # Len(w) + 1
    <3>1. i \in 1 .. Len(w) /\ j \in 1 .. Len(w) /\ t[i] = w[i] /\ t[j] = w[j]
      BY <1>4, <2>3
    <3> QED
      BY <1>6, <2>1, <3>1 DEF Behind
  <2> QED
    BY <2>2, <2>3
<1> QED
  BY <1>1, <1>2, <1>4, <1>7, <1>8, <1>9

\* push_front.
LEMMA PushFront ==
  ASSUME NEW T, NEW s \in Seq(T), NEW x \in T
  PROVE  /\ <<x>> \o s \in Seq(T) /\ <<x>> \o s # <<>>
         /\ Len(<<x>> \o s) = Len(s) + 1 /\ (<<x>> \o s)[1] = x
         /\ \A i \in 1 .. Len(s) : (<<x>> \o s)[i + 1] = s[i]
         /\ \A i \in 1 .. Len(<<x>> \o s) : i # 1 => (<<x>> \o s)[i] = s[i - 1]
         /\ Range(<<x>> \o s) = Range(s) \cup {x}
         /\ IsInjective(s) /\ x \notin Range(s) => IsInjective(<<x>> \o s)
<1> DEFINE t == <<x>> \o s
<1>1. /\ t \in Seq(T) /\ t # <<>> /\ Len(t) = Len(s) + 1 /\ t[1] = x
      /\ DOMAIN t = 1 .. Len(t) /\ DOMAIN s = 1 .. Len(s) /\ Len(s) \in Nat
      /\ \A i \in 1 .. Len(s) : t[i + 1] = s[i] /\ i + 1 \in 1 .. Len(t)
      /\ \A i \in 1 .. Len(t) : i # 1 => t[i] = s[i - 1] /\ i - 1 \in 1 .. Len(s)
  OBVIOUS
<1> HIDE DEF t
<1>2. Range(t) = Range(s) \cup {x}
  <2>1. ASSUME NEW y \in Range(t) PROVE y \in Range(s) \cup {x}
    <3>1. PICK i \in 1 .. Len(t) : t[i] = y
      BY <1>1 DEF Range
    <3>2. CASE i = 1
      BY <1>1, <3>1, <3>2
    <3>3. CASE i # 1
      BY <1>1, <3>1, <3>3 DEF Range
    <3> QED
      BY <3>2, <3>3
  <2>2. ASSUME NEW y \in Range(s) PROVE y \in Range(t)
    BY <1>1 DEF Range
  <2>3. x \in Range(t)
    BY <1>1 DEF Range
  <2> QED
    BY <2>1, <2>2, <2>3
<1>3. ASSUME IsInjective(s), x \notin Range(s),
             NEW i \in 1 .. Len(t), NEW j \in 1 .. Len(t), t[i] = t[j]
      PROVE  i = j
  <2>1. \A k \in 1 .. Len(s) : s[k] # x
    BY <1>1, <1>3 DEF Range
  <2>2. CASE i = 1 \/ j = 1
    BY <1>1, <1>3, <2>1, <2>2
  <2>3. CASE i # 1 /\ j # 1
    <3>1. s[i - 1] = s[j - 1] /\ i - 1 \in 1 .. Len(s) /\ j - 1 \in 1 .. Len(s)
      BY <1>1, <1>3, <2>3
    <3>2. i - 1 = j - 1
      BY <1>1, <1>3, <3>1 DEF IsInjective
    <3> QED
      BY <3>2
  <2> QED
    BY <2>2, <2>3
<1>4. IsInjective(s) /\ x \notin Range(s) => IsInjective(t)
  BY <1>1, <1>3 DEF IsInjective
<1> QED
  BY <1>1, <1>2, <1>4 DEF t

\* pop_front.
LEMMA PopFront ==
  ASSUME NEW T, NEW s \in Seq(T), s # <<>>
  PROVE  /\ Head(s) = s[1] /\ Head(s) \in Range(s) /\ Head(s) \in T
         /\ Tail(s) \in Seq(T) /\ Len(Tail(s)) = Len(s) - 1 /\ Len(s) >= 1
         /\ \A i \in 1 .. Len(Tail(s)) : Tail(s)[i] = s[i + 1]
         /\ Range(s) = Range(Tail(s)) \cup {Head(s)}
         /\ IsInjective(s) => IsInjective(Tail(s)) /\ Head(s) \notin Range(Tail(s))
<1> DEFINE t == Tail(s)
<1>1. /\ Head(s) = s[1] /\ Head(s) \in T /\ t \in Seq(T) /\ Len(t) = Len(s) - 1
      /\ Len(s) \in Nat /\ Len(s) >= 1 /\ DOMAIN s = 1 .. Len(s) /\ DOMAIN t = 1 .. Len(t)
      /\ \A i \in 1 .. Len(t) : t[i] = s[i + 1] /\ i + 1 \in 1 .. Len(s)
      /\ \A i \in 1 .. Len(s) : i # 1 => i - 1 \in 1 .. Len(t) /\ s[i] = t[i - 1]
  OBVIOUS
<1> HIDE DEF t
<1>2. Head(s) \in Range(s)
  BY <1>1 DEF Range
<1>3. Range(s) = Range(t) \cup {Head(s)}
  <2>1. ASSUME NEW y \in Range(s) PROVE y \in Range(t) \cup {Head(s)}
    <3>1. PICK i \in 1 .. Len(s) : s[i] = y
      BY <1>1 DEF Range
    <3>2. CASE i = 1
      BY <1>1, <3>1, <3>2
    <3>3. CASE i # 1
      BY <1>1, <3>1, <3>3 DEF Range
    <3> QED
      BY <3>2, <3>3
  <2>2. ASSUME NEW y \in Range(t) PROVE y \in Range(s)
    <3>1. PICK i \in 1 .. Len(t) : t[i] = y
      BY <1>1 DEF Range
    <3>2. y = s[i + 1] /\ i + 1 \in DOMAIN s
      BY <1>1, <3>1
    <3> QED
      BY <3>2 DEF Range
  <2> QED
    BY <1>2, <2>1, <2>2
<1>4. ASSUME IsInjective(s) PROVE IsInjective(t) /\ Head(s) \notin Range(t)
  <2>1. ASSUME NEW i \in 1 .. Len(t), NEW j \in 1 .. Len(t), t[i] = t[j] PROVE i = j
    <3>0. s[i + 1] = s[j + 1] /\ i + 1 \in DOMAIN s /\ j + 1 \in DOMAIN s
      BY <1>1, <2>1
    <3>1. i + 1 = j + 1
      BY <1>4, <3>0 DEF IsInjective
    <3> QED
      BY <3>1
  <2>2. ASSUME NEW i \in 1 .. Len(t) PROVE t[i] # Head(s)
    <3>1. t[i] = s[i + 1] /\ i + 1 \in 1 .. Len(s) /\ 1 \in 1 .. Len(s) /\ i + 1 # 1
      BY <1>1
    <3> QED
      BY <1>1, <1>4, <3>1 DEF IsInjective
  <2> QED
    BY <1>1, <2>1, <2>2 DEF IsInjective, Range
<1> QED
  BY <1>1, <1>2, <1>3, <1>4 DEF t

\* Popping the front while it is in S gives a list of the others and of members of S
\* that were behind one of them.
LEMMA WithoutLeadingRange ==
  ASSUME NEW T, NEW s \in Seq(T), NEW S
  PROVE  /\ WithoutLeading(s, S) \in Seq(T)
         /\ Range(WithoutLeading(s, S)) \subseteq Range(s)
         /\ Range(s) \ S \subseteq Range(WithoutLeading(s, S))
         /\ IsInjective(s) => IsInjective(WithoutLeading(s, S))
         /\ Range(s) \subseteq S => WithoutLeading(s, S) = <<>>
<1> DEFINE leading == {i \in DOMAIN s : \A j \in 1 .. i : s[j] \in S}
           n == Len(s)
<1>1. n \in Nat /\ DOMAIN s = 1 .. n /\ \A i \in 1 .. n : s[i] \in T
  OBVIOUS
<1> HIDE DEF n
<1>2. \E m \in 0 .. n : leading = 1 .. m
  <2> DEFINE Runs == {k \in Nat : (\A m \in 0 .. n : leading # 1 .. m)
                                     => k <= n /\ \A j \in 1 .. k : s[j] \in S}
  <2>1. 0 \in Runs
    BY <1>1
  <2>2. ASSUME NEW k \in Runs PROVE k + 1 \in Runs
    <3> SUFFICES ASSUME \A m \in 0 .. n : leading # 1 .. m
                 PROVE  k + 1 <= n /\ \A j \in 1 .. (k + 1) : s[j] \in S
      OBVIOUS
    <3>1. k \in Nat /\ k <= n /\ \A j \in 1 .. k : s[j] \in S
      OBVIOUS
    <3>2. leading # 1 .. k
      BY <1>1, <3>1
    <3>3. 1 .. k \subseteq leading
      BY <1>1, <3>1
    <3>4. PICK i \in leading : i \notin 1 .. k
      BY <3>2, <3>3
    <3>5. i \in 1 .. n /\ i >= k + 1 /\ \A j \in 1 .. i : s[j] \in S
      BY <1>1, <3>1, <3>4
    <3> QED
      BY <1>1, <3>1, <3>5
  <2>3. Runs = Nat
    <3> HIDE DEF Runs
    <3>1. Runs \in SUBSET Nat
      BY DEF Runs
    <3> QED
      BY <2>1, <2>2, <3>1, SetInduction
  <2>4. n + 1 \in Runs
    BY <1>1, <2>3
  <2> HIDE DEF leading
  <2> QED
    BY <1>1, <2>4
<1>3. PICK m \in 0 .. n : leading = 1 .. m
  BY <1>2
<1>4. Cardinality(leading) = m
  <2> HIDE DEF leading
  <2>1. m \in Nat
    BY <1>1, <1>3
  <2>2. Cardinality(1 .. m) = m
    BY <2>1, FS_Interval
  <2> QED
    BY <1>3, <2>2
<1> DEFINE w == SubSeq(s, m + 1, n)
<1>5. WithoutLeading(s, S) = w
  BY <1>4 DEF WithoutLeading, n
<1>6. \A j \in 1 .. m : s[j] \in S
  BY <1>3
<1>7. m < n => s[m + 1] \notin S
  <2> SUFFICES ASSUME m < n, s[m + 1] \in S PROVE FALSE
    OBVIOUS
  <2>1. m + 1 \in DOMAIN s /\ \A j \in 1 .. (m + 1) : s[j] \in S
    BY <1>1, <1>6
  <2>2. m + 1 \in leading
    BY <2>1
  <2> HIDE DEF leading
  <2>3. m + 1 \in 1 .. m
    BY <1>3, <2>2
  <2> QED
    BY <1>1, <1>3, <2>3
<1> HIDE DEF leading
<1>8. /\ w \in Seq(T) /\ Len(w) = n - m /\ DOMAIN w = 1 .. (n - m)
      /\ \A i \in 1 .. (n - m) : i + m \in 1 .. n /\ w[i] = s[i + m]
  <2>1. m \in Int /\ m <= n /\ m >= 0 /\ n \in Int
    BY <1>1, <1>3
  <2>2. \A i \in (m + 1) .. n : s[i] \in T
    BY <1>1, <2>1
  <2>3. /\ w \in Seq(T)
        /\ Len(w) = IF m + 1 <= n THEN n - (m + 1) + 1 ELSE 0
        /\ \A i \in 1 .. n - (m + 1) + 1 : w[i] = s[(m + 1) + i - 1]
    BY <2>1, <2>2, SubSeqProperties
  <2> HIDE DEF w
  <2>4. Len(w) = n - m /\ DOMAIN w = 1 .. Len(w)
    BY <2>1, <2>3
  <2>5. ASSUME NEW i \in 1 .. (n - m) PROVE i + m \in 1 .. n /\ w[i] = s[i + m]
    <3>1. i \in 1 .. n - (m + 1) + 1 /\ (m + 1) + i - 1 = i + m
      BY <2>1
    <3> QED
      BY <2>1, <2>3, <3>1
  <2> QED
    BY <2>3, <2>4, <2>5
<1> HIDE DEF w
<1>9. Range(w) \subseteq Range(s)
  BY <1>1, <1>8 DEF Range
<1>10. ASSUME NEW x \in Range(s) \ S PROVE x \in Range(w)
  <2>1. PICK j \in 1 .. n : s[j] = x
    BY <1>1 DEF Range
  <2>2. j > m /\ j - m \in 1 .. (n - m) /\ (j - m) + m = j
    BY <1>1, <1>6, <1>10, <2>1
  <2> QED
    BY <1>8, <2>1, <2>2 DEF Range
<1>11. IsInjective(s) => IsInjective(w)
  BY <1>1, <1>8 DEF IsInjective
<1>12. Range(s) \subseteq S => w = <<>>
  <2> SUFFICES ASSUME Range(s) \subseteq S PROVE w = <<>>
    OBVIOUS
  <2>1. m = n
    <3>1. m < n => m + 1 \in 1 .. n
      BY <1>1
    <3> QED
      BY <1>1, <1>7, <3>1 DEF Range
  <2> QED
    BY <1>1, <1>8, <2>1
<1> QED
  BY <1>5, <1>8, <1>9, <1>10, <1>11, <1>12

\* The operators on lists that the pool Fast uses are those of PageLists.
LEMMA FastLists ==
  /\ \A l : Fast!Range(l) = Range(l) /\ (Fast!IsInjective(l) <=> IsInjective(l))
  /\ \A l, S : Fast!Without(l, S) = Without(l, S)
  /\ \A l, S : Fast!WithoutLeading(l, S) = WithoutLeading(l, S)
  /\ \A p, l : Fast!ToFront(p, l) = ToFront(p, l) /\ Fast!ToBack(p, l) = ToBack(p, l)
  /\ \A S : Fast!Cardinality(S) = Cardinality(S)
<1>0. \A S : Fast!Cardinality(S) = Cardinality(S)
  BY Zenon DEF Fast!Cardinality, Cardinality
<1>1. \A l : Fast!Range(l) = Range(l) /\ (Fast!IsInjective(l) <=> IsInjective(l))
  BY DEF Fast!Range, Range, Fast!IsInjective, IsInjective
<1>2. \A l, S : Fast!Without(l, S) = Without(l, S)
  BY Zenon DEF Fast!Without, Without
<1>3. \A l, S : Fast!WithoutLeading(l, S) = WithoutLeading(l, S)
  BY <1>0, Zenon DEF Fast!WithoutLeading, WithoutLeading
<1>4. \A p, l : Fast!ToFront(p, l) = ToFront(p, l) /\ Fast!ToBack(p, l) = ToBack(p, l)
  BY <1>2, Zenon DEF Fast!ToFront, ToFront, Fast!ToBack, ToBack
<1> QED
  BY <1>0, <1>1, <1>2, <1>3, <1>4

\* The operators on lists that the pool Small uses are those of PageLists.
LEMMA SmallLists ==
  /\ \A l : Small!Range(l) = Range(l) /\ (Small!IsInjective(l) <=> IsInjective(l))
  /\ \A l, S : Small!Without(l, S) = Without(l, S)
  /\ \A l, S : Small!WithoutLeading(l, S) = WithoutLeading(l, S)
  /\ \A p, l : Small!ToFront(p, l) = ToFront(p, l) /\ Small!ToBack(p, l) = ToBack(p, l)
  /\ \A S : Small!Cardinality(S) = Cardinality(S)
<1>0. \A S : Small!Cardinality(S) = Cardinality(S)
  BY Zenon DEF Small!Cardinality, Cardinality
<1>1. \A l : Small!Range(l) = Range(l) /\ (Small!IsInjective(l) <=> IsInjective(l))
  BY DEF Small!Range, Range, Small!IsInjective, IsInjective
<1>2. \A l, S : Small!Without(l, S) = Without(l, S)
  BY Zenon DEF Small!Without, Without
<1>3. \A l, S : Small!WithoutLeading(l, S) = WithoutLeading(l, S)
  BY <1>0, Zenon DEF Small!WithoutLeading, WithoutLeading
<1>4. \A p, l : Small!ToFront(p, l) = ToFront(p, l) /\ Small!ToBack(p, l) = ToBack(p, l)
  BY <1>2, Zenon DEF Small!ToFront, ToFront, Small!ToBack, ToBack
<1> QED
  BY <1>0, <1>1, <1>2, <1>3, <1>4

\* The operators on lists that the pool List uses are those of PageLists.
LEMMA ListLists ==
  /\ \A l : List!Range(l) = Range(l) /\ (List!IsInjective(l) <=> IsInjective(l))
  /\ \A l, S : List!Without(l, S) = Without(l, S)
  /\ \A l, S : List!WithoutLeading(l, S) = WithoutLeading(l, S)
  /\ \A p, l : List!ToFront(p, l) = ToFront(p, l) /\ List!ToBack(p, l) = ToBack(p, l)
  /\ \A S : List!Cardinality(S) = Cardinality(S)
<1>0. \A S : List!Cardinality(S) = Cardinality(S)
  BY Zenon DEF List!Cardinality, Cardinality
<1>1. \A l : List!Range(l) = Range(l) /\ (List!IsInjective(l) <=> IsInjective(l))
  BY DEF List!Range, Range, List!IsInjective, IsInjective
<1>2. \A l, S : List!Without(l, S) = Without(l, S)
  BY Zenon DEF List!Without, Without
<1>3. \A l, S : List!WithoutLeading(l, S) = WithoutLeading(l, S)
  BY <1>0, Zenon DEF List!WithoutLeading, WithoutLeading
<1>4. \A p, l : List!ToFront(p, l) = ToFront(p, l) /\ List!ToBack(p, l) = ToBack(p, l)
  BY <1>2, Zenon DEF List!ToFront, ToFront, List!ToBack, ToBack
<1> QED
  BY <1>0, <1>1, <1>2, <1>3, <1>4

\* The operators on lists that the pool Bucket uses are those of PageLists.
LEMMA BucketLists ==
  /\ \A l : Bucket!Range(l) = Range(l) /\ (Bucket!IsInjective(l) <=> IsInjective(l))
  /\ \A l, S : Bucket!Without(l, S) = Without(l, S)
  /\ \A l, S : Bucket!WithoutLeading(l, S) = WithoutLeading(l, S)
  /\ \A p, l : Bucket!ToFront(p, l) = ToFront(p, l) /\ Bucket!ToBack(p, l) = ToBack(p, l)
  /\ \A S : Bucket!Cardinality(S) = Cardinality(S)
<1>0. \A S : Bucket!Cardinality(S) = Cardinality(S)
  BY Zenon DEF Bucket!Cardinality, Cardinality
<1>1. \A l : Bucket!Range(l) = Range(l) /\ (Bucket!IsInjective(l) <=> IsInjective(l))
  BY DEF Bucket!Range, Range, Bucket!IsInjective, IsInjective
<1>2. \A l, S : Bucket!Without(l, S) = Without(l, S)
  BY Zenon DEF Bucket!Without, Without
<1>3. \A l, S : Bucket!WithoutLeading(l, S) = WithoutLeading(l, S)
  BY <1>0, Zenon DEF Bucket!WithoutLeading, WithoutLeading
<1>4. \A p, l : Bucket!ToFront(p, l) = ToFront(p, l) /\ Bucket!ToBack(p, l) = ToBack(p, l)
  BY <1>2, Zenon DEF Bucket!ToFront, ToFront, Bucket!ToBack, ToBack
<1> QED
  BY <1>0, <1>1, <1>2, <1>3, <1>4

\* The first n blocks of a page are n blocks.
LEMMA FirstBlocks ==
  ASSUME NEW p, NEW n \in Nat
  PROVE  IsFiniteSet({p} \X (1 .. n)) /\ Cardinality({p} \X (1 .. n)) = n
<1>1. IsFiniteSet({p}) /\ Cardinality({p}) = 1
  BY FS_Singleton
<1>2. IsFiniteSet(1 .. n) /\ Cardinality(1 .. n) = n
  BY FS_Interval
<1>3. /\ IsFiniteSet({p} \X (1 .. n))
      /\ Cardinality({p} \X (1 .. n)) = Cardinality({p}) * Cardinality(1 .. n)
  BY <1>1, <1>2, FS_Product
<1> QED
  BY <1>1, <1>2, <1>3

-----------------------------------------------------------------------------
(***************************************************************************)
(* FastPool.  Its invariant, as a predicate of a list of pages, their      *)
(* counts, a free list and the blocks handed out: for malloc goes through  *)
(* a state in which there is a new page and nothing has been taken from    *)
(* it.                                                                     *)
(***************************************************************************)
FastBlocks == Pages \X (1 .. Cap)
FastUsed(p, h) == {b \in FastBlocks : b[1] = p /\ h[b] # 0}
FastFree(p, list) == {b \in Range(list) : b[1] = p}

\* The blocks of p that have been carved are its first n, and the n-th is the last of
\* the free list if there are more to come.
FastCarved(p, n, list, h) ==
  /\ FastUsed(p, h) \cup FastFree(p, list) = {p} \X (1 .. n)
  /\ 0 < n /\ n < Cap => list # <<>> /\ list[Len(list)] = <<p, n>>

FastState(pages, refs, list, h) ==
  /\ pages \in Seq(Pages) /\ IsInjective(pages)
  /\ list \in Seq(FastBlocks) /\ IsInjective(list)
  /\ refs \in [Pages -> 0 .. Cap] /\ h \in [FastBlocks -> {0, 1}]
  /\ \A b \in Range(list) : h[b] = 0 /\ b[1] \in Range(pages)
  /\ \A p \in Range(pages) : Cardinality(FastUsed(p, h)) = refs[p]
  /\ \A p \in Pages \ Range(pages) : FastUsed(p, h) = {}
  /\ \A p \in Range(pages) : \E n \in 0 .. Cap : FastCarved(p, n, list, h)

\* What has been handed out of a page is in it.
LEMMA FastUsedFinite ==
  ASSUME NEW p \in Pages, NEW h
  PROVE  /\ IsFiniteSet(FastUsed(p, h))
         /\ Cardinality(FastUsed(p, h)) \in 0 .. Cap
         /\ Cardinality(FastUsed(p, h)) = Cap => FastUsed(p, h) = {p} \X (1 .. Cap)
<1>1. FastUsed(p, h) \in SUBSET ({p} \X (1 .. Cap))
  BY DEF FastUsed, FastBlocks
<1>2. Cap \in Nat
  BY CapAssumption
<1>3. IsFiniteSet({p} \X (1 .. Cap)) /\ Cardinality({p} \X (1 .. Cap)) = Cap
  BY <1>2, FirstBlocks
<1>4. /\ IsFiniteSet(FastUsed(p, h))
      /\ Cardinality(FastUsed(p, h)) <= Cap
      /\ Cap = Cardinality(FastUsed(p, h)) => {p} \X (1 .. Cap) = FastUsed(p, h)
  BY <1>1, <1>3, FS_Subset
<1>5. Cardinality(FastUsed(p, h)) \in Nat
  BY <1>4, FS_CardinalityType
<1> QED
  BY <1>2, <1>4, <1>5

\* Of the list of pages the others only see which pages are in it.
LEMMA FastOtherPages ==
  ASSUME NEW pages, NEW refs, NEW list, NEW h, FastState(pages, refs, list, h),
         NEW others \in Seq(Pages), IsInjective(others), Range(others) = Range(pages)
  PROVE  FastState(others, refs, list, h)
BY DEF FastState

\* malloc maps a page when there is no free block.
LEMMA FastNewPage ==
  ASSUME NEW pages, NEW refs, NEW h, FastState(pages, refs, <<>>, h),
         NEW p \in Pages \ Range(pages)
  PROVE  FastState(<<p>> \o pages, [refs EXCEPT ![p] = 0], <<<<p, 1>>>>, h)
<1> DEFINE more == <<p>> \o pages
           list == <<<<p, 1>>>>
           zero == [refs EXCEPT ![p] = 0]
<1>1. pages \in Seq(Pages) /\ IsInjective(pages) /\ refs \in [Pages -> 0 .. Cap]
      /\ h \in [FastBlocks -> {0, 1}]
  BY DEF FastState
<1>2. more \in Seq(Pages) /\ Range(more) = Range(pages) \cup {p} /\ IsInjective(more)
  BY <1>1, PushFront
<1>3. FastUsed(p, h) = {}
  BY DEF FastState
<1>4. <<p, 1>> \in FastBlocks /\ h[<<p, 1>>] = 0
  <2>1. <<p, 1>> \in FastBlocks
    BY CapAssumption DEF FastBlocks
  <2> QED
    BY <1>1, <1>3, <2>1 DEF FastUsed
<1>5. /\ list \in Seq(FastBlocks) /\ Range(list) = {<<p, 1>>} /\ IsInjective(list)
      /\ list # <<>> /\ list[Len(list)] = <<p, 1>>
  BY <1>4 DEF Range, IsInjective
<1>6. zero \in [Pages -> 0 .. Cap] /\ zero[p] = 0 /\ \A q \in Pages : q # p => zero[q] = refs[q]
  BY <1>1, CapAssumption
<1>7. p \notin Range(pages)
  OBVIOUS
<1> HIDE DEF more, list, zero
<1>8. \A b \in Range(list) : h[b] = 0 /\ b[1] \in Range(more)
  BY <1>2, <1>4, <1>5
<1>9. ASSUME NEW q \in Range(more) PROVE Cardinality(FastUsed(q, h)) = zero[q]
  <2>1. CASE q = p
    BY <1>3, <1>6, <2>1, FS_EmptySet
  <2>2. CASE q # p
    <3>1. q \in Range(pages) /\ q \in Pages
      BY <1>1, <1>2, <1>9, <2>2, RangeOfList
    <3> QED
      BY <1>6, <2>2, <3>1 DEF FastState
  <2> QED
    BY <2>1, <2>2
<1>10. \A q \in Pages \ Range(more) : FastUsed(q, h) = {}
  BY <1>2 DEF FastState
<1>11. ASSUME NEW q \in Range(more) PROVE \E n \in 0 .. Cap : FastCarved(q, n, list, h)
  <2>1. CASE q = p
    <3>1. FastFree(q, list) = {<<p, 1>>}
      BY <1>5, <2>1 DEF FastFree
    <3>2. {p} \X (1 .. 1) = {<<p, 1>>}
      OBVIOUS
    <3>3. FastCarved(q, 1, list, h)
      BY <1>3, <1>5, <2>1, <3>1, <3>2 DEF FastCarved
    <3> QED
      BY <3>3, CapAssumption
  <2>2. CASE q # p
    <3>1. q \in Range(pages)
      BY <1>2, <1>11, <2>2
    <3>2. PICK n \in 0 .. Cap : FastCarved(q, n, <<>>, h)
      BY <3>1 DEF FastState
    <3>3. FastFree(q, list) = FastFree(q, <<>>)
      BY <1>5, <2>2 DEF FastFree, Range
    <3>4. FastCarved(q, n, list, h)
      BY <3>2, <3>3 DEF FastCarved
    <3> QED
      BY <3>4
  <2> QED
    BY <2>1, <2>2
<1>12. FastState(more, zero, list, h)
  BY <1>1, <1>2, <1>5, <1>6, <1>8, <1>9, <1>10, <1>11 DEF FastState
<1> QED
  BY <1>12 DEF more, zero, list

\* malloc takes the head of the free list, and carves the next block when there is no
\* other and the page is not full.
LEMMA FastAlloc ==
  ASSUME NEW pages, NEW refs, NEW list, NEW h, FastState(pages, refs, list, h), list # <<>>,
         NEW b, b = Head(list), NEW p, p = b[1], NEW n, n = refs[p] + 1
  PROVE  /\ b \in FastBlocks /\ h[b] = 0 /\ p \in Range(pages)
         /\ FastState(pages, [refs EXCEPT ![p] = n], Fast!Rest(list, n), [h EXCEPT ![b] = @ + 1])
<1> DEFINE refs1 == [refs EXCEPT ![p] = n]
           h1 == [h EXCEPT ![b] = @ + 1]
           list1 == Fast!Rest(list, n)
<1>1. /\ pages \in Seq(Pages) /\ IsInjective(pages)
      /\ list \in Seq(FastBlocks) /\ IsInjective(list)
      /\ refs \in [Pages -> 0 .. Cap] /\ h \in [FastBlocks -> {0, 1}]
      /\ \A c \in Range(list) : h[c] = 0 /\ c[1] \in Range(pages)
      /\ \A q \in Range(pages) : Cardinality(FastUsed(q, h)) = refs[q]
      /\ \A q \in Pages \ Range(pages) : FastUsed(q, h) = {}
      /\ \A q \in Range(pages) : \E m \in 0 .. Cap : FastCarved(q, m, list, h)
  BY DEF FastState
<1>2. /\ b = list[1] /\ b \in Range(list) /\ b \in FastBlocks
      /\ Tail(list) \in Seq(FastBlocks) /\ Len(Tail(list)) = Len(list) - 1 /\ Len(list) >= 1
      /\ \A i \in 1 .. Len(Tail(list)) : Tail(list)[i] = list[i + 1]
      /\ Range(list) = Range(Tail(list)) \cup {b}
      /\ IsInjective(Tail(list)) /\ b \notin Range(Tail(list))
  BY <1>1, PopFront
<1>3. h[b] = 0 /\ p \in Range(pages) /\ p \in Pages /\ Cap \in Nat /\ Len(list) \in Nat
  BY <1>1, <1>2, CapAssumption DEF FastBlocks
<1>4. /\ h1 \in [FastBlocks -> {0, 1}] /\ h1[b] = 1
      /\ \A c \in FastBlocks : c # b => h1[c] = h[c]
  BY <1>1, <1>2, <1>3
<1> HIDE DEF h1
<1>5. \A q : q # p => FastUsed(q, h1) = FastUsed(q, h)
  BY <1>4 DEF FastUsed
<1>6. FastUsed(p, h1) = FastUsed(p, h) \cup {b} /\ b \notin FastUsed(p, h)
  BY <1>2, <1>3, <1>4 DEF FastUsed
<1>7. Cardinality(FastUsed(p, h1)) = n
  <2>1. IsFiniteSet(FastUsed(p, h)) /\ Cardinality(FastUsed(p, h)) = refs[p]
    BY <1>1, <1>3, FastUsedFinite
  <2> QED
    BY <1>6, <2>1, FS_AddElement
<1>8. n \in 1 .. Cap
  <2>1. Cardinality(FastUsed(p, h1)) \in 0 .. Cap
    BY <1>3, FastUsedFinite
  <2> QED
    BY <1>1, <1>3, <1>7, <2>1
<1>9. /\ refs1 \in [Pages -> 0 .. Cap]
      /\ \A q \in Range(pages) : Cardinality(FastUsed(q, h1)) = refs1[q]
  <2>1. refs1 \in [Pages -> 0 .. Cap] /\ refs1[p] = n /\ \A q \in Pages : q # p => refs1[q] = refs[q]
    BY <1>1, <1>3, <1>8
  <2> HIDE DEF refs1
  <2>2. \A q \in Range(pages) : q \in Pages
    BY <1>1, RangeOfList
  <2> QED
    BY <1>1, <1>5, <1>7, <2>1, <2>2
<1>10. \A q \in Pages \ Range(pages) : FastUsed(q, h1) = {}
  BY <1>1, <1>3, <1>5
<1> HIDE DEF refs1
<1>11. ASSUME list1 \in Seq(FastBlocks), IsInjective(list1),
              \A c \in Range(list1) : h1[c] = 0 /\ c[1] \in Range(pages),
              \A q \in Range(pages) : \E m \in 0 .. Cap : FastCarved(q, m, list1, h1)
       PROVE  FastState(pages, refs1, list1, h1)
  <2> HIDE DEF list1
  <2> QED
    BY <1>1, <1>4, <1>9, <1>10, <1>11 DEF FastState
<1>12. CASE Len(list) = 1
  <2>1. Range(list) = {b} /\ list[Len(list)] = b
    BY <1>2, <1>12 DEF Range
  <2>2. \A q : q # p => FastFree(q, list) = {}
    BY <2>1 DEF FastFree
  <2>3. FastFree(p, list) = {b}
    BY <2>1 DEF FastFree
  <2>4. PICK m \in 0 .. Cap : FastCarved(p, m, list, h)
    BY <1>1, <1>3
  <2>5. FastUsed(p, h1) = {p} \X (1 .. m)
    BY <1>6, <2>3, <2>4 DEF FastCarved
  <2>6. m = n
    <3>1. m \in Nat
      BY <1>3, <2>4
    <3>2. Cardinality({p} \X (1 .. m)) = m
      BY <3>1, FirstBlocks
    <3> QED
      BY <1>7, <2>5, <3>2
  <2>7. ASSUME NEW q \in Range(pages), q # p, \A c \in Range(list1) : c[1] = p
        PROVE  \E k \in 0 .. Cap : FastCarved(q, k, list1, h1)
    <3>1. PICK k \in 0 .. Cap : FastCarved(q, k, list, h)
      BY <1>1
    <3>2. FastFree(q, list1) = {}
      BY <2>7 DEF FastFree
    <3>3. FastUsed(q, h1) \cup FastFree(q, list1) = {q} \X (1 .. k)
      BY <1>5, <2>2, <2>7, <3>1, <3>2 DEF FastCarved
    <3>4. ~(0 < k /\ k < Cap)
      <4>1. 0 < k /\ k < Cap => b = <<q, k>>
        BY <2>1, <3>1 DEF FastCarved
      <4> QED
        BY <2>7, <4>1
    <3>5. FastCarved(q, k, list1, h1)
      <4> HIDE DEF list1
      <4> QED
        BY <3>3, <3>4 DEF FastCarved
    <3> QED
      BY <3>5
  <2>8. CASE n # Cap
    <3> DEFINE c == <<p, b[2] + 1>>
    <3>1. list1 = <<c>>
      BY <1>12, <2>8 DEF Fast!Rest
    <3>2. b = <<p, n>>
      <4>1. 0 < m /\ m < Cap
        BY <1>3, <1>8, <2>6, <2>8
      <4> QED
        BY <2>1, <2>4, <2>6, <4>1 DEF FastCarved
    <3>3. c = <<p, n + 1>> /\ c \in FastBlocks
      BY <1>3, <1>8, <2>8, <3>2 DEF FastBlocks
    <3> HIDE DEF c, list1
    <3>4. c \notin FastUsed(p, h1)
      BY <1>8, <2>5, <2>6, <3>3
    <3>5. h1[c] = 0
      BY <1>4, <3>3, <3>4 DEF FastUsed
    <3>6. list1 \in Seq(FastBlocks) /\ Range(list1) = {c} /\ IsInjective(list1)
          /\ list1 # <<>> /\ list1[Len(list1)] = c
      BY <3>1, <3>3 DEF Range, IsInjective
    <3>7. \A d \in Range(list1) : h1[d] = 0 /\ d[1] \in Range(pages) /\ d[1] = p
      BY <1>3, <3>3, <3>5, <3>6
    <3>8. FastCarved(p, n + 1, list1, h1)
      <4>1. FastFree(p, list1) = {c}
        BY <3>3, <3>6 DEF FastFree
      <4>2. ({p} \X (1 .. n)) \cup {c} = {p} \X (1 .. (n + 1))
        BY <1>8, <3>3
      <4> QED
        BY <2>5, <2>6, <3>3, <3>6, <4>1, <4>2 DEF FastCarved
    <3>9. n + 1 \in 0 .. Cap
      BY <1>3, <1>8, <2>8
    <3> QED
      BY <1>2, <1>3, <1>11, <2>7, <3>6, <3>7, <3>8, <3>9 DEF list1, h1, refs1
  <2>9. CASE n = Cap
    <3>1. list1 = Tail(list) /\ Len(list1) = 0
      BY <1>2, <1>12, <2>9 DEF Fast!Rest
    <3>2. list1 \in Seq(FastBlocks) /\ IsInjective(list1)
      BY <1>2, <3>1
    <3> HIDE DEF list1
    <3>3. Range(list1) = {}
      BY <3>1, <3>2 DEF Range
    <3>4. FastCarved(p, n, list1, h1)
      BY <2>5, <2>6, <2>9, <3>3, <1>8 DEF FastCarved, FastFree
    <3>5. \A q \in Range(pages) : \E k \in 0 .. Cap : FastCarved(q, k, list1, h1)
      <4>1. n \in 0 .. Cap
        BY <1>8
      <4>2. \A c \in Range(list1) : c[1] = p
        BY <3>3
      <4> QED
        BY <2>7, <3>4, <4>1, <4>2
    <3>6. \A c \in Range(list1) : h1[c] = 0 /\ c[1] \in Range(pages)
      BY <3>3
    <3>7. FastState(pages, refs1, list1, h1)
      BY <1>11, <3>2, <3>5, <3>6
    <3> QED
      BY <1>2, <1>3, <3>7 DEF list1, h1, refs1
  <2> QED
    BY <2>8, <2>9
<1>13. CASE Len(list) # 1
  <2>1. list1 = Tail(list)
    BY <1>13 DEF Fast!Rest
  <2> HIDE DEF list1
  <2>2. \A c \in Range(list1) : h1[c] = 0 /\ c[1] \in Range(pages)
    <3> TAKE c \in Range(list1)
    <3>1. c \in FastBlocks /\ c # b /\ c \in Range(list)
      BY <1>2, <2>1, RangeOfList
    <3> QED
      BY <1>1, <1>4, <3>1
  <2>3. /\ Len(list1) >= 1 /\ list1 # <<>> /\ list1[Len(list1)] = list[Len(list)]
    <3>1. Len(list) > 1 /\ Len(list1) = Len(list) - 1 /\ Len(list1) \in 1 .. Len(list1)
      BY <1>2, <1>3, <1>13, <2>1
    <3>2. list1[Len(list1)] = list[Len(list1) + 1]
      BY <1>2, <2>1, <3>1
    <3>3. Len(list1) + 1 = Len(list)
      BY <1>3, <3>1
    <3> QED
      BY <3>1, <3>2, <3>3
  <2>4. ASSUME NEW q \in Range(pages) PROVE \E m \in 0 .. Cap : FastCarved(q, m, list1, h1)
    <3>1. PICK m \in 0 .. Cap : FastCarved(q, m, list, h)
      BY <1>1
    <3>2. FastUsed(q, h1) \cup FastFree(q, list1) = FastUsed(q, h) \cup FastFree(q, list)
      <4>1. CASE q = p
        <5>1. FastFree(q, list) = FastFree(q, list1) \cup {b}
          BY <1>2, <2>1, <4>1 DEF FastFree
        <5> QED
          BY <1>6, <4>1, <5>1
      <4>2. CASE q # p
        <5>1. FastFree(q, list) = FastFree(q, list1)
          BY <1>2, <2>1, <4>2 DEF FastFree
        <5> QED
          BY <1>5, <4>2, <5>1
      <4> QED
        BY <4>1, <4>2
    <3>3. FastCarved(q, m, list1, h1)
      BY <2>3, <3>1, <3>2 DEF FastCarved
    <3> QED
      BY <3>3
  <2>5. list1 \in Seq(FastBlocks) /\ IsInjective(list1)
    BY <1>2, <2>1
  <2> QED
    BY <1>2, <1>3, <1>11, <2>2, <2>4, <2>5 DEF list1, h1, refs1
<1> QED
  BY <1>12, <1>13

\* What free does to the counts, the free list and the blocks handed out.
FastFreed(b, refs, list, h, refs1, list1, h1) ==
  /\ h[b] > 0 /\ h1 = [h EXCEPT ![b] = @ - 1]
  /\ refs1 = [refs EXCEPT ![b[1]] = @ - 1] /\ list1 = <<b>> \o list

\* free puts the block at the front of the free list.
LEMMA FastFreeStep ==
  ASSUME NEW pages, NEW refs, NEW list, NEW h, FastState(pages, refs, list, h),
         NEW b \in FastBlocks, NEW p, p = b[1],
         NEW refs1, NEW list1, NEW h1, FastFreed(b, refs, list, h, refs1, list1, h1)
  PROVE  p \in Range(pages) /\ h[b] = 1 /\ FastState(pages, refs1, list1, h1)
<1>1. /\ pages \in Seq(Pages) /\ IsInjective(pages)
      /\ list \in Seq(FastBlocks) /\ IsInjective(list)
      /\ refs \in [Pages -> 0 .. Cap] /\ h \in [FastBlocks -> {0, 1}]
      /\ \A c \in Range(list) : h[c] = 0 /\ c[1] \in Range(pages)
      /\ \A q \in Range(pages) : Cardinality(FastUsed(q, h)) = refs[q]
      /\ \A q \in Pages \ Range(pages) : FastUsed(q, h) = {}
      /\ \A q \in Range(pages) : \E m \in 0 .. Cap : FastCarved(q, m, list, h)
  BY DEF FastState
<1>0. /\ h[b] > 0 /\ h1 = [h EXCEPT ![b] = @ - 1]
      /\ refs1 = [refs EXCEPT ![p] = @ - 1] /\ list1 = <<b>> \o list
  BY DEF FastFreed
<1>2. p \in Pages /\ h[b] = 1 /\ b \in FastUsed(p, h) /\ Cap \in Nat
  BY <1>0, <1>1, CapAssumption DEF FastBlocks, FastUsed
<1>3. p \in Range(pages)
  BY <1>1, <1>2
<1>4. b \notin Range(list)
  BY <1>1, <1>2
<1>5. /\ list1 \in Seq(FastBlocks) /\ list1 # <<>> /\ Len(list1) = Len(list) + 1
      /\ \A i \in 1 .. Len(list) : list1[i + 1] = list[i]
      /\ Range(list1) = Range(list) \cup {b} /\ IsInjective(list1)
  BY <1>0, <1>1, <1>4, PushFront
<1>6. /\ h1 \in [FastBlocks -> {0, 1}] /\ h1[b] = 0
      /\ \A c \in FastBlocks : c # b => h1[c] = h[c]
  BY <1>0, <1>1, <1>2
<1>7. \A q : q # p => FastUsed(q, h1) = FastUsed(q, h)
  BY <1>6 DEF FastUsed
<1>8. FastUsed(p, h1) = FastUsed(p, h) \ {b}
  BY <1>2, <1>6 DEF FastUsed
<1>9. Cardinality(FastUsed(p, h1)) = refs[p] - 1
  <2>1. IsFiniteSet(FastUsed(p, h)) /\ Cardinality(FastUsed(p, h)) = refs[p]
    BY <1>1, <1>2, <1>3, FastUsedFinite
  <2> QED
    BY <1>2, <1>8, <2>1, FS_RemoveElement
<1>10. refs[p] - 1 \in 0 .. Cap
  BY <1>2, <1>9, FastUsedFinite
<1>11. /\ refs1 \in [Pages -> 0 .. Cap]
       /\ \A q \in Range(pages) : Cardinality(FastUsed(q, h1)) = refs1[q]
  <2>1. /\ refs1 \in [Pages -> 0 .. Cap] /\ refs1[p] = refs[p] - 1
        /\ \A q \in Pages : q # p => refs1[q] = refs[q]
    BY <1>0, <1>1, <1>2, <1>10
  <2>2. \A q \in Range(pages) : q \in Pages
    BY <1>1, RangeOfList
  <2> QED
    BY <1>1, <1>7, <1>9, <2>1, <2>2
<1>12. \A q \in Pages \ Range(pages) : FastUsed(q, h1) = {}
  BY <1>1, <1>3, <1>7
<1>13. ASSUME NEW c \in Range(list1) PROVE h1[c] = 0 /\ c[1] \in Range(pages)
  <2>1. CASE c = b
    BY <1>3, <1>6, <2>1
  <2>2. CASE c # b
    <3>1. c \in Range(list) /\ c \in FastBlocks
      BY <1>1, <1>5, <1>13, <2>2, RangeOfList
    <3> QED
      BY <1>1, <1>6, <2>2, <3>1
  <2> QED
    BY <2>1, <2>2
<1>14. ASSUME NEW q \in Range(pages) PROVE \E m \in 0 .. Cap : FastCarved(q, m, list1, h1)
  <2>1. PICK m \in 0 .. Cap : FastCarved(q, m, list, h)
    BY <1>1
  <2>2. FastUsed(q, h1) \cup FastFree(q, list1) = FastUsed(q, h) \cup FastFree(q, list)
    <3>1. CASE q = p
      <4>1. FastFree(q, list1) = FastFree(q, list) \cup {b}
        BY <1>5, <3>1 DEF FastFree
      <4> QED
        BY <1>2, <1>8, <3>1, <4>1
    <3>2. CASE q # p
      <4>1. FastFree(q, list) = FastFree(q, list1)
        BY <1>5, <3>2 DEF FastFree
      <4> QED
        BY <1>7, <3>2, <4>1
    <3> QED
      BY <3>1, <3>2
  <2>3. list # <<>> => list1[Len(list1)] = list[Len(list)]
    <3>1. list # <<>> => Len(list) \in 1 .. Len(list)
      BY <1>1
    <3> QED
      BY <1>5, <3>1
  <2>4. FastCarved(q, m, list1, h1)
    BY <1>5, <2>1, <2>2, <2>3 DEF FastCarved
  <2> QED
    BY <2>4
<1>15. FastState(pages, refs1, list1, h1)
  BY <1>1, <1>5, <1>6, <1>11, <1>12, <1>13, <1>14 DEF FastState
<1> QED
  BY <1>2, <1>3, <1>15

\* release_memory takes the free blocks of the unused pages out of the free list, and
\* gives back the unused pages at the front.
LEMMA FastRelease ==
  ASSUME NEW pages, NEW refs, NEW list, NEW h, FastState(pages, refs, list, h),
         NEW S \in SUBSET Range(pages), \A p \in Range(pages) : p \in S <=> refs[p] = 0
  PROVE  /\ FastState(WithoutLeading(pages, S), refs, Without(list, S \X (1 .. Cap)), h)
         /\ Range(WithoutLeading(pages, S)) \subseteq Range(pages)
         /\ \A p \in Range(pages) \ Range(WithoutLeading(pages, S)) : FastUsed(p, h) = {}
<1> DEFINE pages1 == WithoutLeading(pages, S)
           list1 == Without(list, S \X (1 .. Cap))
<1>1. /\ pages \in Seq(Pages) /\ IsInjective(pages)
      /\ list \in Seq(FastBlocks) /\ IsInjective(list)
      /\ refs \in [Pages -> 0 .. Cap] /\ h \in [FastBlocks -> {0, 1}]
      /\ \A c \in Range(list) : h[c] = 0 /\ c[1] \in Range(pages)
      /\ \A q \in Range(pages) : Cardinality(FastUsed(q, h)) = refs[q]
      /\ \A q \in Pages \ Range(pages) : FastUsed(q, h) = {}
      /\ \A q \in Range(pages) : \E m \in 0 .. Cap : FastCarved(q, m, list, h)
  BY DEF FastState
<1>2. /\ pages1 \in Seq(Pages) /\ IsInjective(pages1)
      /\ Range(pages1) \subseteq Range(pages) /\ Range(pages) \ S \subseteq Range(pages1)
      /\ Range(pages) \subseteq S => pages1 = <<>>
  BY <1>1, WithoutLeadingRange
<1>3. /\ list1 \in Seq(FastBlocks) /\ IsInjective(list1)
      /\ Range(list1) = Range(list) \ (S \X (1 .. Cap))
  BY <1>1, WithoutRange
<1>4. list # <<>> /\ list[Len(list)] \notin S \X (1 .. Cap)
        => list1 # <<>> /\ list1[Len(list1)] = list[Len(list)]
  BY <1>1, WithoutLast
<1> HIDE DEF pages1, list1
<1>5. Range(list) \in SUBSET FastBlocks /\ Range(pages) \in SUBSET Pages
  BY <1>1, RangeOfList
<1>6. \A p \in S : FastUsed(p, h) = {}
  <2> TAKE p \in S
  <2>1. p \in Pages /\ Cardinality(FastUsed(p, h)) = 0
    BY <1>1, <1>5
  <2> QED
    BY <2>1, FastUsedFinite, FS_EmptySet
<1>7. \A p \in Pages \ Range(pages1) : FastUsed(p, h) = {}
  BY <1>1, <1>2, <1>6
<1>8. \A b \in Range(list1) : h[b] = 0 /\ b[1] \in Range(pages1)
  <2> TAKE b \in Range(list1)
  <2>1. b \in Range(list) /\ b \in FastBlocks /\ b \notin S \X (1 .. Cap)
    BY <1>3, <1>5
  <2>2. b[1] \notin S
    BY <2>1 DEF FastBlocks
  <2> QED
    BY <1>1, <1>2, <2>1, <2>2
<1>9. ASSUME NEW p \in Range(pages1) PROVE \E n \in 0 .. Cap : FastCarved(p, n, list1, h)
  <2>1. PICK n \in 0 .. Cap : FastCarved(p, n, list, h)
    BY <1>1, <1>2
  <2>2. CASE p \in S
    <3>1. FastFree(p, list1) = {}
      <4>1. \A b \in Range(list1) : b[1] # p
        BY <1>3, <1>5, <2>2 DEF FastBlocks
      <4> QED
        BY <4>1 DEF FastFree
    <3>2. FastUsed(p, h) = {} /\ {p} \X (1 .. 0) = {}
      BY <1>6, <2>2
    <3>3. FastCarved(p, 0, list1, h)
      BY <3>1, <3>2 DEF FastCarved
    <3> QED
      BY <3>3, CapAssumption
  <2>3. CASE p \notin S
    <3>1. FastFree(p, list1) = FastFree(p, list)
      BY <1>3, <1>5, <2>3 DEF FastFree, FastBlocks
    <3>2. <<p, n>> \notin S \X (1 .. Cap)
      BY <2>3
    <3>3. FastCarved(p, n, list1, h)
      BY <1>4, <2>1, <3>1, <3>2 DEF FastCarved
    <3> QED
      BY <3>3
  <2> QED
    BY <2>2, <2>3
<1>10. \A p \in Range(pages1) : Cardinality(FastUsed(p, h)) = refs[p]
  BY <1>1, <1>2
<1>11. FastState(pages1, refs, list1, h)
  BY <1>1, <1>2, <1>3, <1>7, <1>8, <1>9, <1>10 DEF FastState
<1>12. \A p \in Range(pages) \ Range(pages1) : FastUsed(p, h) = {}
  BY <1>2, <1>6
<1> QED
  BY <1>2, <1>11, <1>12 DEF pages1, list1

\* The invariant of FastPool.
FastInv == FastState(pageList, refCnt, freeList, holders)

\* A step of Allocator, from the pages m and the blocks h handed out to m1 and h1.
AllocatorStep(m, h, m1, h1) ==
  \/ \E b \in DOMAIN h : h[b] = 0 /\ h1 = [h EXCEPT ![b] = 1] /\ m1 = m \cup {b[1]}
  \/ \E b \in DOMAIN h : h[b] = 1 /\ h1 = [h EXCEPT ![b] = 0] /\ m1 = m
  \/ \E unused \in SUBSET m :
       (\A b \in DOMAIN h : b[1] \in unused => h[b] = 0) /\ m1 = m \ unused /\ h1 = h

\* The invariant says what the runs check.
LEMMA FastInvImplies ==
  ASSUME FastInv
  PROVE  Fast!Consistent /\ Fast!CarvedInOrder /\ Fast!NoRoomLost
<1>1. /\ pageList \in Seq(Pages) /\ IsInjective(pageList)
      /\ freeList \in Seq(FastBlocks) /\ IsInjective(freeList)
      /\ refCnt \in [Pages -> 0 .. Cap] /\ holders \in [FastBlocks -> {0, 1}]
      /\ \A c \in Range(freeList) : holders[c] = 0 /\ c[1] \in Range(pageList)
      /\ \A q \in Range(pageList) : Cardinality(FastUsed(q, holders)) = refCnt[q]
      /\ \A q \in Pages \ Range(pageList) : FastUsed(q, holders) = {}
      /\ \A q \in Range(pageList) : \E m \in 0 .. Cap : FastCarved(q, m, freeList, holders)
  BY DEF FastInv, FastState
<1>2. /\ Fast!Blocks = FastBlocks /\ Fast!Mapped = Range(pageList)
      /\ \A q : Fast!UsedIn(q) = FastUsed(q, holders) /\ Fast!FreeIn(q) = FastFree(q, freeList)
  BY FastLists DEF Fast!Blocks, Fast!PageBlocks, FastBlocks, Fast!Mapped, Fast!UsedIn, FastUsed,
                   Fast!FreeIn, FastFree
<1>3. \A q \in Range(pageList) : q \in Pages
  BY <1>1, RangeOfList
<1>4. Fast!Consistent
  <2>1. Fast!TypeOK
    BY <1>1, <1>2 DEF Fast!TypeOK
  <2>2. Fast!FreeListIsFree
    BY <1>1, <1>2, FastLists DEF Fast!FreeListIsFree
  <2>3. Fast!RefCountsUsed
    <3> SUFFICES ASSUME NEW p \in Pages
                 PROVE  Cardinality(FastUsed(p, holders)) =
                          IF p \in Range(pageList) THEN refCnt[p] ELSE 0
      BY <1>2, FastLists DEF Fast!RefCountsUsed
    <3> QED
      BY <1>1, FS_EmptySet
  <2> QED
    BY <2>1, <2>2, <2>3 DEF Fast!Consistent
<1>5. ASSUME NEW p \in Range(pageList), Fast!Carved(p) # {}
      PROVE  \E n \in 1 .. Cap :
               /\ Cardinality(Fast!Carved(p)) = n /\ Fast!Carved(p) = {p} \X (1 .. n)
               /\ n < Cap => freeList # <<>> /\ freeList[Len(freeList)] = <<p, n>>
  <2>1. PICK n \in 0 .. Cap : FastCarved(p, n, freeList, holders)
    BY <1>1
  <2>2. Fast!Carved(p) = {p} \X (1 .. n)
    BY <1>2, <2>1 DEF Fast!Carved, FastCarved
  <2>3. n # 0
    BY <1>5, <2>2
  <2>4. n \in Nat
    BY <2>1, CapAssumption
  <2>5. Cardinality({p} \X (1 .. n)) = n
    BY <2>4, FirstBlocks
  <2>6. n \in 1 .. Cap /\ 0 < n
    BY <2>1, <2>3, CapAssumption
  <2> QED
    BY <2>1, <2>2, <2>5, <2>6 DEF FastCarved
<1>6. Fast!CarvedInOrder
  <2> SUFFICES ASSUME NEW p \in Range(pageList), Fast!Carved(p) # {}
               PROVE  /\ Fast!Carved(p) = {p} \X (1 .. Cardinality(Fast!Carved(p)))
                      /\ Cardinality(Fast!Carved(p)) < Cap
                           => freeList # <<>>
                              /\ freeList[Len(freeList)] = <<p, Cardinality(Fast!Carved(p))>>
    BY <1>2, FastLists DEF Fast!CarvedInOrder, Fast!Last
  <2> QED
    BY <1>5
<1>7. Fast!NoRoomLost
  <2> SUFFICES ASSUME NEW p \in Range(pageList), 0 < refCnt[p], refCnt[p] < Cap
               PROVE  FastFree(p, freeList) # {}
    BY <1>2 DEF Fast!NoRoomLost
  <2>1. Cardinality(FastUsed(p, holders)) = refCnt[p] /\ refCnt[p] \in 0 .. Cap
    BY <1>1, <1>3
  <2>2. FastUsed(p, holders) # {}
    BY <2>1, FS_EmptySet
  <2>3. Fast!Carved(p) # {} /\ Fast!Carved(p) = FastUsed(p, holders) \cup FastFree(p, freeList)
    BY <1>2, <2>2 DEF Fast!Carved
  <2>4. PICK n \in 1 .. Cap :
               /\ Cardinality(Fast!Carved(p)) = n /\ Fast!Carved(p) = {p} \X (1 .. n)
               /\ n < Cap => freeList # <<>> /\ freeList[Len(freeList)] = <<p, n>>
    BY <1>5, <2>3
  <2>5. CASE n < Cap
    <3>1. Len(freeList) \in 1 .. Len(freeList) /\ freeList[Len(freeList)] = <<p, n>>
      BY <1>1, <2>4, <2>5
    <3>2. <<p, n>> \in Range(freeList)
      <4>1. freeList[Len(freeList)] \in Range(freeList)
        BY <1>1, <3>1, RangeOfList
      <4> QED
        BY <3>1, <4>1
    <3> QED
      BY <3>2 DEF FastFree
  <2>6. CASE n = Cap
    <3>1. FastUsed(p, holders) # Fast!Carved(p)
      <4>1. refCnt[p] # n
        BY <2>4, <2>6, CapAssumption
      <4> QED
        BY <2>1, <2>4, <4>1, Zenon
    <3> QED
      BY <2>3, <3>1
  <2> QED
    BY <2>4, <2>5, <2>6, CapAssumption
<1> QED
  BY <1>4, <1>6, <1>7

\* It holds when there are no pages yet.
LEMMA FastInit ==
  ASSUME Fast!Init
  PROVE  FastInv /\ Range(pageList) = {} /\ holders \in [FastBlocks -> {0}]
<1>1. /\ pageList = <<>> /\ freeList = <<>>
      /\ refCnt = [p \in Pages |-> 0] /\ holders = [b \in FastBlocks |-> 0]
  BY DEF Fast!Init, Fast!Blocks, Fast!PageBlocks, FastBlocks
<1>2. /\ <<>> \in Seq(Pages) /\ <<>> \in Seq(FastBlocks)
      /\ Range(<<>>) = {} /\ IsInjective(<<>>)
  BY DEF Range, IsInjective
<1>3. refCnt \in [Pages -> 0 .. Cap] /\ holders \in [FastBlocks -> {0, 1}]
      /\ holders \in [FastBlocks -> {0}]
  BY <1>1, CapAssumption
<1>4. \A p \in Pages : FastUsed(p, holders) = {}
  BY <1>1 DEF FastUsed
<1> QED
  BY <1>1, <1>2, <1>3, <1>4 DEF FastInv, FastState

\* Every step of FastPool preserves it, and is a step of an allocator.
LEMMA FastNext ==
  ASSUME FastInv, Fast!Next
  PROVE  FastInv' /\ AllocatorStep(Range(pageList), holders, Range(pageList'), holders')
<1>1. /\ pageList \in Seq(Pages) /\ IsInjective(pageList)
      /\ refCnt \in [Pages -> 0 .. Cap] /\ holders \in [FastBlocks -> {0, 1}]
      /\ DOMAIN holders = FastBlocks
  BY DEF FastInv, FastState
<1>2. ASSUME NEW pages, NEW refs, NEW list, FastState(pages, refs, list, holders), list # <<>>,
             Fast!AllocFromFreeList(pages, refs, list)
      PROVE  /\ FastInv'
             /\ \E b \in FastBlocks :
                  /\ holders[b] = 0 /\ holders' = [holders EXCEPT ![b] = 1]
                  /\ b = Head(list) /\ b[1] \in Range(pages) /\ Range(pageList') = Range(pages)
  <2> DEFINE b == Head(list)
             p == b[1]
             n == refs[p] + 1
  <2>1. /\ b \in FastBlocks /\ holders[b] = 0 /\ p \in Range(pages)
        /\ FastState(pages, [refs EXCEPT ![p] = n], Fast!Rest(list, n),
                     [holders EXCEPT ![b] = @ + 1])
    BY <1>2, FastAlloc
  <2>2. /\ refCnt' = [refs EXCEPT ![p] = n] /\ freeList' = Fast!Rest(list, n)
        /\ holders' = [holders EXCEPT ![b] = @ + 1]
        /\ pageList' = IF n = Cap THEN ToBack(p, pages) ELSE pages
    BY <1>2, FastLists DEF Fast!AllocFromFreeList
  <2>3. pages \in Seq(Pages) /\ IsInjective(pages) /\ p \in Pages
    BY <1>2, <2>1 DEF FastState, FastBlocks
  <2> HIDE DEF b, p, n
  <2>4. pageList' \in Seq(Pages) /\ IsInjective(pageList') /\ Range(pageList') = Range(pages)
    <3>1. /\ ToBack(p, pages) \in Seq(Pages) /\ IsInjective(ToBack(p, pages))
          /\ Range(ToBack(p, pages)) = Range(pages) \cup {p}
      BY <2>3, ToBackRange
    <3> QED
      BY <2>1, <2>2, <2>3, <3>1
  <2>5. FastState(pages, refCnt', freeList', holders')
    BY <2>1, <2>2
  <2>6. FastInv'
    BY <2>4, <2>5, FastOtherPages DEF FastInv
  <2>7. holders' = [holders EXCEPT ![b] = 1]
    BY <1>1, <2>1, <2>2
  <2> QED
    BY <2>1, <2>4, <2>6, <2>7 DEF b, p
<1>3. ASSUME NEW p \in Pages, Fast!MallocNewPage(p)
      PROVE  FastInv' /\ AllocatorStep(Range(pageList), holders, Range(pageList'), holders')
  <2> DEFINE pages == <<p>> \o pageList
             refs == [refCnt EXCEPT ![p] = 0]
             list == <<<<p, 1>>>>
  <2>1. /\ freeList = <<>> /\ p \notin Range(pageList)
        /\ Fast!AllocFromFreeList(pages, refs, list)
    BY <1>3, FastLists DEF Fast!MallocNewPage, Fast!Mapped
  <2>2. FastState(pages, refs, list, holders)
    BY <2>1, FastNewPage DEF FastInv
  <2>3. Range(pages) = Range(pageList) \cup {p}
    BY <1>1, PushFront
  <2>4. list # <<>> /\ Head(list) = <<p, 1>>
    OBVIOUS
  <2> HIDE DEF pages, refs, list
  <2>5. PICK b \in FastBlocks :
                  /\ holders[b] = 0 /\ holders' = [holders EXCEPT ![b] = 1]
                  /\ b = Head(list) /\ b[1] \in Range(pages) /\ Range(pageList') = Range(pages)
    BY <1>2, <2>1, <2>2, <2>4
  <2>6. Range(pageList') = Range(pageList) \cup {b[1]}
    BY <2>3, <2>4, <2>5
  <2>7. FastInv'
    BY <1>2, <2>1, <2>2, <2>4
  <2> QED
    BY <1>1, <2>5, <2>6, <2>7 DEF AllocatorStep
<1>4. ASSUME Fast!MallocFromFreeList
      PROVE  FastInv' /\ AllocatorStep(Range(pageList), holders, Range(pageList'), holders')
  <2>1. freeList # <<>> /\ Fast!AllocFromFreeList(pageList, refCnt, freeList)
    BY <1>4 DEF Fast!MallocFromFreeList
  <2>2. PICK b \in FastBlocks :
                  /\ holders[b] = 0 /\ holders' = [holders EXCEPT ![b] = 1]
                  /\ b = Head(freeList) /\ b[1] \in Range(pageList)
                  /\ Range(pageList') = Range(pageList)
    BY <1>2, <2>1 DEF FastInv
  <2>3. Range(pageList') = Range(pageList) \cup {b[1]}
    BY <2>2
  <2>4. FastInv'
    BY <1>2, <2>1 DEF FastInv
  <2> QED
    BY <1>1, <2>2, <2>3, <2>4 DEF AllocatorStep
<1>5. ASSUME NEW b \in FastBlocks, Fast!Free(b)
      PROVE  FastInv' /\ AllocatorStep(Range(pageList), holders, Range(pageList'), holders')
  <2> DEFINE p == b[1]
  <2>1. /\ holders[b] > 0 /\ holders' = [holders EXCEPT ![b] = @ - 1]
        /\ freeList' = <<b>> \o freeList /\ refCnt' = [refCnt EXCEPT ![p] = @ - 1]
        /\ pageList' = IF refCnt'[p] = 0 THEN ToFront(p, pageList) ELSE pageList
    BY <1>5, FastLists DEF Fast!Free
  <2>2. p \in Pages
    BY DEF FastBlocks
  <2> HIDE DEF p
  <2>3. /\ p \in Range(pageList) /\ holders[b] = 1
        /\ FastState(pageList, refCnt', freeList', holders')
    <3>1. FastState(pageList, refCnt, freeList, holders) /\ p = b[1]
      BY DEF FastInv, p
    <3>2. FastFreed(b, refCnt, freeList, holders, refCnt', freeList', holders')
      BY <2>1 DEF FastFreed, p
    <3> QED
      BY <3>1, <3>2, FastFreeStep
  <2>4. pageList' \in Seq(Pages) /\ IsInjective(pageList') /\ Range(pageList') = Range(pageList)
    <3>1. /\ ToFront(p, pageList) \in Seq(Pages) /\ IsInjective(ToFront(p, pageList))
          /\ Range(ToFront(p, pageList)) = Range(pageList) \cup {p}
      BY <1>1, <2>2, ToFrontRange
    <3> QED
      BY <1>1, <2>1, <2>3, <3>1
  <2>5. FastInv'
    BY <2>3, <2>4, FastOtherPages DEF FastInv
  <2>6. holders' = [holders EXCEPT ![b] = 0]
    BY <1>1, <2>1, <2>3
  <2> QED
    BY <1>1, <2>3, <2>4, <2>5, <2>6 DEF AllocatorStep
<1>6. ASSUME Fast!ReleaseMemory
      PROVE  FastInv' /\ AllocatorStep(Range(pageList), holders, Range(pageList'), holders')
  <2> DEFINE S == {p \in Range(pageList) : refCnt[p] = 0}
  <2>1. /\ freeList' = Without(freeList, S \X (1 .. Cap)) /\ pageList' = WithoutLeading(pageList, S)
        /\ refCnt' = refCnt /\ holders' = holders
    BY <1>6, FastLists DEF Fast!ReleaseMemory, Fast!Unused, Fast!Mapped, Fast!PageBlocks
  <2>0. S \in SUBSET Range(pageList) /\ \A p \in Range(pageList) : p \in S <=> refCnt[p] = 0
    OBVIOUS
  <2> HIDE DEF S
  <2>2. /\ FastState(pageList', refCnt', freeList', holders')
        /\ Range(pageList') \subseteq Range(pageList)
        /\ \A p \in Range(pageList) \ Range(pageList') : FastUsed(p, holders) = {}
    <3>1. FastState(pageList, refCnt, freeList, holders)
      BY DEF FastInv
    <3>2. /\ FastState(WithoutLeading(pageList, S), refCnt,
                       Without(freeList, S \X (1 .. Cap)), holders)
          /\ Range(WithoutLeading(pageList, S)) \subseteq Range(pageList)
          /\ \A p \in Range(pageList) \ Range(WithoutLeading(pageList, S)) :
               FastUsed(p, holders) = {}
      BY <2>0, <3>1, FastRelease
    <3> QED
      BY <2>1, <3>2
  <2> DEFINE unused == Range(pageList) \ Range(pageList')
  <2>3. \A b \in FastBlocks : b[1] \in unused => holders[b] = 0
    BY <2>2 DEF FastUsed
  <2>4. unused \in SUBSET Range(pageList) /\ Range(pageList') = Range(pageList) \ unused
    BY <2>2
  <2> HIDE DEF unused
  <2>5. AllocatorStep(Range(pageList), holders, Range(pageList'), holders')
    BY <1>1, <2>1, <2>3, <2>4 DEF AllocatorStep
  <2> QED
    BY <2>2, <2>5 DEF FastInv
<1> QED
  BY <1>3, <1>4, <1>5, <1>6 DEF Fast!Next, Fast!Blocks, Fast!PageBlocks, FastBlocks

\* The destructor's release_memory leaves no page.
LEMMA FastReleaseComplete ==
  ASSUME FastInv
  PROVE  Fast!ReleaseComplete
<1> SUFFICES ASSUME Fast!ReleaseMemory, \A b \in FastBlocks : holders[b] = 0
             PROVE  pageList' = <<>> /\ freeList' = <<>>
  BY DEF Fast!ReleaseComplete, Fast!Blocks, Fast!PageBlocks, FastBlocks
<1> DEFINE S == {p \in Range(pageList) : refCnt[p] = 0}
<1>1. freeList' = Without(freeList, S \X (1 .. Cap)) /\ pageList' = WithoutLeading(pageList, S)
  BY FastLists DEF Fast!ReleaseMemory, Fast!Unused, Fast!Mapped, Fast!PageBlocks
<1>2. /\ pageList \in Seq(Pages) /\ freeList \in Seq(FastBlocks)
      /\ \A b \in Range(freeList) : b \in FastBlocks /\ b[1] \in Range(pageList)
      /\ \A p \in Range(pageList) : Cardinality(FastUsed(p, holders)) = refCnt[p]
  BY RangeOfList DEF FastInv, FastState
<1>3. Range(pageList) \subseteq S
  <2> SUFFICES ASSUME NEW p \in Range(pageList) PROVE p \in S
    OBVIOUS
  <2>1. FastUsed(p, holders) = {}
    BY DEF FastUsed
  <2> QED
    BY <1>2, <2>1, FS_EmptySet
<1> HIDE DEF S
<1>4. pageList' = <<>>
  BY <1>1, <1>2, <1>3, WithoutLeadingRange
<1>5. freeList' \in Seq(FastBlocks) /\ Range(freeList') = {}
  <2>1. \A b \in Range(freeList) : b \in S \X (1 .. Cap)
    BY <1>2, <1>3 DEF FastBlocks
  <2> QED
    BY <1>1, <1>2, <2>1, WithoutRange
<1>6. freeList' = <<>>
  BY <1>5, RangeOfList
<1> QED
  BY <1>4, <1>6

-----------------------------------------------------------------------------
(***************************************************************************)
(* SmallPool.  The free list of a page is kept in its free blocks: s is    *)
(* the list of them.                                                       *)
(***************************************************************************)
SmallNumbers == 0 .. (MaxElemCount - 1)
SmallBlocks == SmallPages \X SmallNumbers
SmallFree(p, h) == {n \in SmallNumbers : h[<<p, n>>] = 0}

SmallLinked(p, s, first, text, h) ==
  /\ s \in Seq(SmallNumbers) /\ IsInjective(s) /\ Range(s) = SmallFree(p, h)
  /\ first[p] = IF s = <<>> THEN MaxElemCount ELSE s[1]
  /\ \A i \in 1 .. Len(s) : text[<<p, s[i]>>] = IF i = Len(s) THEN MaxElemCount ELSE s[i + 1]

SmallState(pages, refs, first, text, h) ==
  /\ pages \in Seq(SmallPages) /\ IsInjective(pages)
  /\ refs \in [SmallPages -> 0 .. MaxElemCount]
  /\ first \in [SmallPages -> 0 .. MaxElemCount]
  /\ text \in [SmallBlocks -> 0 .. MaxElemCount] /\ h \in [SmallBlocks -> {0, 1}]
  /\ \A p \in Range(pages) :
       \E s : SmallLinked(p, s, first, text, h) /\ Len(s) = MaxElemCount - refs[p]
  /\ \A p \in SmallPages \ Range(pages) : \A n \in SmallNumbers : h[<<p, n>>] = 0

\* Nothing of page p differs.
SmallSame(p, first, text, h, first1, text1, h1) ==
  /\ first1[p] = first[p]
  /\ \A n \in SmallNumbers : h1[<<p, n>>] = h[<<p, n>>] /\ text1[<<p, n>>] = text[<<p, n>>]

\* There are MaxElemCount blocks in a page.
LEMMA SmallNumbersCount ==
  /\ IsFiniteSet(SmallNumbers) /\ Cardinality(SmallNumbers) = MaxElemCount
  /\ MaxElemCount \in Nat /\ MaxElemCount > 0
<1>1. MaxElemCount \in Nat /\ MaxElemCount > 0 /\ 0 \in Int /\ MaxElemCount - 1 \in Int
  BY MaxElemAssumption
<1>2. /\ IsFiniteSet(0 .. (MaxElemCount - 1))
      /\ Cardinality(0 .. (MaxElemCount - 1)) =
           IF 0 > MaxElemCount - 1 THEN 0 ELSE (MaxElemCount - 1) - 0 + 1
  BY <1>1, FS_Interval
<1> QED
  BY <1>1, <1>2 DEF SmallNumbers

\* A page sees only what is in its own blocks.
LEMMA SmallOtherPage ==
  ASSUME NEW p, NEW s, NEW first, NEW text, NEW h, SmallLinked(p, s, first, text, h),
         NEW first1, NEW text1, NEW h1, SmallSame(p, first, text, h, first1, text1, h1)
  PROVE  SmallLinked(p, s, first1, text1, h1)
<1>1. \A i \in 1 .. Len(s) : s[i] \in SmallNumbers
  BY DEF SmallLinked
<1>2. SmallFree(p, h1) = SmallFree(p, h)
  BY DEF SmallFree, SmallSame
<1> QED
  BY <1>1, <1>2 DEF SmallLinked, SmallSame

\* malloc maps a page: its constructor links all blocks.
LEMMA SmallNewPage ==
  ASSUME NEW pages, NEW refs, NEW first, NEW text, NEW h,
         SmallState(pages, refs, first, text, h), NEW p \in SmallPages \ Range(pages),
         NEW text1 \in [SmallBlocks -> 0 .. MaxElemCount],
         \A b \in SmallBlocks : text1[b] = IF b[1] # p THEN text[b] ELSE b[2] + 1
  PROVE  SmallState(<<p>> \o pages, [refs EXCEPT ![p] = 0], [first EXCEPT ![p] = 0], text1, h)
<1> DEFINE more == <<p>> \o pages
           refs1 == [refs EXCEPT ![p] = 0]
           first1 == [first EXCEPT ![p] = 0]
           s == [i \in 1 .. MaxElemCount |-> i - 1]
<1>1. /\ pages \in Seq(SmallPages) /\ IsInjective(pages)
      /\ refs \in [SmallPages -> 0 .. MaxElemCount]
      /\ first \in [SmallPages -> 0 .. MaxElemCount]
      /\ h \in [SmallBlocks -> {0, 1}]
      /\ \A q \in Range(pages) :
           \E t : SmallLinked(q, t, first, text, h) /\ Len(t) = MaxElemCount - refs[q]
      /\ \A q \in SmallPages \ Range(pages) : \A n \in SmallNumbers : h[<<q, n>>] = 0
  BY DEF SmallState
<1>2. more \in Seq(SmallPages) /\ IsInjective(more) /\ Range(more) = Range(pages) \cup {p}
  BY <1>1, PushFront
<1>3. /\ MaxElemCount \in Nat /\ MaxElemCount > 0 /\ 0 \in 0 .. MaxElemCount
  BY MaxElemAssumption
<1>4. /\ refs1 \in [SmallPages -> 0 .. MaxElemCount] /\ refs1[p] = 0
      /\ first1 \in [SmallPages -> 0 .. MaxElemCount] /\ first1[p] = 0
      /\ \A q \in SmallPages : q # p => refs1[q] = refs[q] /\ first1[q] = first[q]
  BY <1>1, <1>3
<1>5. /\ s \in Seq(SmallNumbers) /\ Len(s) = MaxElemCount /\ DOMAIN s = 1 .. MaxElemCount
      /\ \A i \in 1 .. MaxElemCount : s[i] = i - 1 /\ s[i] \in SmallNumbers
  <2>1. \A i \in 1 .. MaxElemCount : i - 1 \in SmallNumbers
    BY <1>3 DEF SmallNumbers
  <2>2. s \in [1 .. MaxElemCount -> SmallNumbers]
    BY <2>1
  <2>3. s \in Seq(SmallNumbers)
    BY <1>3, <2>2
  <2> QED
    BY <1>3, <2>1, <2>2, <2>3
<1> HIDE DEF more, refs1, first1, s
<1>6. SmallLinked(p, s, first1, text1, h)
  <2>1. IsInjective(s)
    BY <1>5 DEF IsInjective
  <2>2. Range(s) = SmallNumbers
    <3>1. \A n \in SmallNumbers : n + 1 \in 1 .. MaxElemCount /\ s[n + 1] = n
      BY <1>3, <1>5 DEF SmallNumbers
    <3>2. SmallNumbers \subseteq Range(s)
      BY <1>5, <3>1 DEF Range
    <3>3. Range(s) \subseteq SmallNumbers
      BY <1>5, RangeOfList
    <3> QED
      BY <3>2, <3>3
  <2>3. SmallFree(p, h) = SmallNumbers
    BY <1>1 DEF SmallFree
  <2>4. ASSUME NEW i \in 1 .. Len(s)
        PROVE  text1[<<p, s[i]>>] = IF i = Len(s) THEN MaxElemCount ELSE s[i + 1]
    <3>1. <<p, s[i]>> \in SmallBlocks
      BY <1>5 DEF SmallBlocks
    <3>2. text1[<<p, s[i]>>] = i
      BY <1>5, <3>1
    <3>3. i # Len(s) => i + 1 \in 1 .. MaxElemCount
      BY <1>3, <1>5
    <3> QED
      BY <1>5, <3>2, <3>3
  <2>5. s # <<>> /\ s[1] = 0
    BY <1>3, <1>5
  <2> QED
    BY <1>4, <1>5, <2>1, <2>2, <2>3, <2>4, <2>5 DEF SmallLinked
<1>7. ASSUME NEW q \in Range(more)
      PROVE  \E t : SmallLinked(q, t, first1, text1, h) /\ Len(t) = MaxElemCount - refs1[q]
  <2>1. CASE q = p
    BY <1>3, <1>4, <1>5, <1>6, <2>1
  <2>2. CASE q # p
    <3>1. q \in Range(pages) /\ q \in SmallPages
      BY <1>1, <1>2, <1>7, <2>2, RangeOfList
    <3>2. PICK t : SmallLinked(q, t, first, text, h) /\ Len(t) = MaxElemCount - refs[q]
      BY <1>1, <3>1
    <3>3. SmallSame(q, first, text, h, first1, text1, h)
      BY <1>4, <2>2, <3>1 DEF SmallBlocks, SmallSame
    <3>4. SmallLinked(q, t, first1, text1, h)
      BY <3>2, <3>3, SmallOtherPage
    <3> QED
      BY <1>4, <2>2, <3>1, <3>2, <3>4
  <2> QED
    BY <2>1, <2>2
<1>8. SmallState(more, refs1, first1, text1, h)
  BY <1>1, <1>2, <1>4, <1>7 DEF SmallState
<1> QED
  BY <1>8 DEF more, refs1, first1

\* The first free block of a page.
SmallFront(p, first) == <<p, first[p]>>

\* malloc takes the first free block, and its contents name the next one.
LEMMA SmallAlloc ==
  ASSUME NEW pages, NEW refs, NEW first, NEW text, NEW h,
         SmallState(pages, refs, first, text, h), NEW p \in Range(pages),
         refs[p] # MaxElemCount, NEW b, b = SmallFront(p, first)
  PROVE  /\ b \in SmallBlocks /\ h[b] = 0
         /\ SmallState(pages, [refs EXCEPT ![p] = @ + 1], [first EXCEPT ![p] = text[b]],
                       text, [h EXCEPT ![b] = @ + 1])
<1> DEFINE refs1 == [refs EXCEPT ![p] = @ + 1]
           first1 == [first EXCEPT ![p] = text[b]]
           h1 == [h EXCEPT ![b] = @ + 1]
<1>1. /\ pages \in Seq(SmallPages) /\ IsInjective(pages)
      /\ refs \in [SmallPages -> 0 .. MaxElemCount]
      /\ first \in [SmallPages -> 0 .. MaxElemCount]
      /\ text \in [SmallBlocks -> 0 .. MaxElemCount] /\ h \in [SmallBlocks -> {0, 1}]
      /\ \A q \in Range(pages) :
           \E t : SmallLinked(q, t, first, text, h) /\ Len(t) = MaxElemCount - refs[q]
      /\ \A q \in SmallPages \ Range(pages) : \A n \in SmallNumbers : h[<<q, n>>] = 0
  BY DEF SmallState
<1>2. p \in SmallPages /\ MaxElemCount \in Nat /\ refs[p] \in 0 .. MaxElemCount
  BY <1>1, RangeOfList, MaxElemAssumption
<1>3. PICK s : SmallLinked(p, s, first, text, h) /\ Len(s) = MaxElemCount - refs[p]
  BY <1>1
<1>4. /\ s \in Seq(SmallNumbers) /\ IsInjective(s) /\ Range(s) = SmallFree(p, h)
      /\ first[p] = IF s = <<>> THEN MaxElemCount ELSE s[1]
      /\ \A i \in 1 .. Len(s) : text[<<p, s[i]>>] = IF i = Len(s) THEN MaxElemCount ELSE s[i + 1]
  BY <1>3 DEF SmallLinked
<1>5. s # <<>>
  BY <1>2, <1>3
<1> DEFINE t == Tail(s)
<1>6. /\ Head(s) = s[1] /\ Head(s) \in SmallNumbers /\ Head(s) \in Range(s)
      /\ t \in Seq(SmallNumbers) /\ Len(t) = Len(s) - 1 /\ Len(s) >= 1
      /\ \A i \in 1 .. Len(t) : t[i] = s[i + 1]
      /\ Range(s) = Range(t) \cup {s[1]} /\ IsInjective(t) /\ s[1] \notin Range(t)
  BY <1>4, <1>5, PopFront
<1> HIDE DEF t
<1>7. b = <<p, s[1]>> /\ b \in SmallBlocks /\ h[b] = 0
  BY <1>2, <1>4, <1>5, <1>6 DEF SmallBlocks, SmallFree, SmallFront
<1>8. h1 \in [SmallBlocks -> {0, 1}] /\ h1[b] = 1 /\ \A c \in SmallBlocks : c # b => h1[c] = h[c]
  BY <1>1, <1>7
<1>9. /\ refs1 \in [SmallPages -> 0 .. MaxElemCount] /\ refs1[p] = refs[p] + 1
      /\ first1 \in [SmallPages -> 0 .. MaxElemCount] /\ first1[p] = text[b]
      /\ \A q \in SmallPages : q # p => refs1[q] = refs[q] /\ first1[q] = first[q]
  <2>1. refs[p] + 1 \in 0 .. MaxElemCount /\ text[b] \in 0 .. MaxElemCount
    BY <1>1, <1>2, <1>7
  <2> QED
    BY <1>1, <1>2, <2>1
<1> HIDE DEF refs1, first1, h1
<1>10. Len(s) \in Nat /\ 1 \in 1 .. Len(s)
  BY <1>4, <1>6
<1>11. SmallLinked(p, t, first1, text, h1)
  <2>1. Range(t) = SmallFree(p, h1)
    <3>1. ASSUME NEW n \in SmallNumbers PROVE n \in SmallFree(p, h1) <=> n # s[1] /\ n \in SmallFree(p, h)
      <4>1. <<p, n>> \in SmallBlocks /\ (<<p, n>> = b <=> n = s[1])
        BY <1>2, <1>7 DEF SmallBlocks
      <4> QED
        BY <1>8, <4>1 DEF SmallFree
    <3>2. SmallFree(p, h1) \subseteq SmallNumbers /\ SmallFree(p, h) \subseteq SmallNumbers
      BY DEF SmallFree
    <3>3. \A n : n \in Range(t) <=> n \in Range(s) /\ n # s[1]
      BY <1>6
    <3> QED
      BY <1>4, <3>1, <3>2, <3>3
  <2>2. first1[p] = IF t = <<>> THEN MaxElemCount ELSE t[1]
    <3>1. text[b] = IF Len(s) = 1 THEN MaxElemCount ELSE s[2]
      <4>1. text[<<p, s[1]>>] = IF 1 = Len(s) THEN MaxElemCount ELSE s[1 + 1]
        BY <1>4, <1>10
      <4> QED
        BY <1>7, <4>1
    <3>2. CASE Len(s) = 1
      BY <1>6, <1>9, <3>1, <3>2
    <3>3. CASE Len(s) # 1
      <4>1. Len(t) >= 1 /\ 1 \in 1 .. Len(t)
        BY <1>6, <1>10, <3>3
      <4>2. t # <<>> /\ t[1] = s[2]
        BY <1>6, <4>1
      <4> QED
        BY <1>9, <3>1, <3>3, <4>2
    <3> QED
      BY <3>2, <3>3
  <2>3. ASSUME NEW i \in 1 .. Len(t)
        PROVE  text[<<p, t[i]>>] = IF i = Len(t) THEN MaxElemCount ELSE t[i + 1]
    <3>1. i + 1 \in 1 .. Len(s) /\ t[i] = s[i + 1]
      BY <1>6, <1>10
    <3>2. text[<<p, s[i + 1]>>] = IF i + 1 = Len(s) THEN MaxElemCount ELSE s[(i + 1) + 1]
      BY <1>4, <3>1
    <3>3. CASE i = Len(t)
      BY <1>6, <1>10, <3>1, <3>2, <3>3
    <3>4. CASE i # Len(t)
      <4>1. i + 1 \in 1 .. Len(t) /\ i + 1 # Len(s)
        BY <1>6, <1>10, <3>4
      <4>2. t[i + 1] = s[(i + 1) + 1]
        BY <1>6, <4>1
      <4> QED
        BY <3>1, <3>2, <3>4, <4>1, <4>2
    <3> QED
      BY <3>3, <3>4
  <2> QED
    BY <1>6, <2>1, <2>2, <2>3 DEF SmallLinked
<1>12. ASSUME NEW q \in Range(pages)
       PROVE  \E u : SmallLinked(q, u, first1, text, h1) /\ Len(u) = MaxElemCount - refs1[q]
  <2>1. CASE q = p
    <3>1. Len(t) = MaxElemCount - refs1[p]
      BY <1>2, <1>3, <1>6, <1>9, <1>10
    <3> QED
      BY <1>11, <2>1, <3>1
  <2>2. CASE q # p
    <3>1. q \in SmallPages
      BY <1>1, RangeOfList
    <3>2. PICK u : SmallLinked(q, u, first, text, h) /\ Len(u) = MaxElemCount - refs[q]
      BY <1>1
    <3>3. SmallSame(q, first, text, h, first1, text, h1)
      BY <1>7, <1>8, <1>9, <2>2, <3>1 DEF SmallBlocks, SmallSame
    <3>4. SmallLinked(q, u, first1, text, h1)
      BY <3>2, <3>3, SmallOtherPage
    <3> QED
      BY <1>9, <2>2, <3>1, <3>2, <3>4
  <2> QED
    BY <2>1, <2>2
<1>13. ASSUME NEW q \in SmallPages \ Range(pages), NEW n \in SmallNumbers PROVE h1[<<q, n>>] = 0
  <2>1. <<q, n>> \in SmallBlocks /\ <<q, n>> # b
    BY <1>7 DEF SmallBlocks
  <2> QED
    BY <1>1, <1>8, <2>1
<1>14. SmallState(pages, refs1, first1, text, h1)
  BY <1>1, <1>8, <1>9, <1>12, <1>13 DEF SmallState
<1> QED
  BY <1>7, <1>14 DEF refs1, first1, h1

\* What free does to the counts, the lists and the blocks handed out.
SmallFreed(b, refs, first, text, h, refs1, first1, text1, h1) ==
  /\ h[b] > 0 /\ h1 = [h EXCEPT ![b] = @ - 1]
  /\ refs1 = [refs EXCEPT ![b[1]] = @ - 1]
  /\ text1 = [text EXCEPT ![b] = first[b[1]]]
  /\ first1 = [first EXCEPT ![b[1]] = b[2]]

\* free puts the block in front of its page's free list.
LEMMA SmallFreeStep ==
  ASSUME NEW pages, NEW refs, NEW first, NEW text, NEW h,
         SmallState(pages, refs, first, text, h), NEW b \in SmallBlocks, NEW p, p = b[1],
         NEW refs1, NEW first1, NEW text1, NEW h1,
         SmallFreed(b, refs, first, text, h, refs1, first1, text1, h1)
  PROVE  p \in Range(pages) /\ h[b] = 1 /\ SmallState(pages, refs1, first1, text1, h1)
<1>1. /\ pages \in Seq(SmallPages) /\ IsInjective(pages)
      /\ refs \in [SmallPages -> 0 .. MaxElemCount]
      /\ first \in [SmallPages -> 0 .. MaxElemCount]
      /\ text \in [SmallBlocks -> 0 .. MaxElemCount] /\ h \in [SmallBlocks -> {0, 1}]
      /\ \A q \in Range(pages) :
           \E t : SmallLinked(q, t, first, text, h) /\ Len(t) = MaxElemCount - refs[q]
      /\ \A q \in SmallPages \ Range(pages) : \A n \in SmallNumbers : h[<<q, n>>] = 0
  BY DEF SmallState
<1>2. /\ h[b] > 0 /\ h1 = [h EXCEPT ![b] = @ - 1] /\ refs1 = [refs EXCEPT ![p] = @ - 1]
      /\ text1 = [text EXCEPT ![b] = first[p]] /\ first1 = [first EXCEPT ![p] = b[2]]
  BY DEF SmallFreed
<1> DEFINE k == b[2]
<1>3. /\ p \in SmallPages /\ k \in SmallNumbers /\ b = <<p, k>> /\ h[b] = 1
      /\ MaxElemCount \in Nat /\ refs[p] \in 0 .. MaxElemCount
  BY <1>1, <1>2, MaxElemAssumption DEF SmallBlocks
<1> HIDE DEF k
<1>4. p \in Range(pages)
  BY <1>1, <1>3
<1>5. PICK s : SmallLinked(p, s, first, text, h) /\ Len(s) = MaxElemCount - refs[p]
  BY <1>1, <1>4
<1>6. /\ s \in Seq(SmallNumbers) /\ IsInjective(s) /\ Range(s) = SmallFree(p, h)
      /\ first[p] = IF s = <<>> THEN MaxElemCount ELSE s[1]
      /\ \A i \in 1 .. Len(s) : text[<<p, s[i]>>] = IF i = Len(s) THEN MaxElemCount ELSE s[i + 1]
  BY <1>5 DEF SmallLinked
<1>7. k \notin Range(s)
  BY <1>3, <1>6 DEF SmallFree
<1> DEFINE t == <<k>> \o s
<1>8. /\ t \in Seq(SmallNumbers) /\ t # <<>> /\ Len(t) = Len(s) + 1 /\ t[1] = k
      /\ \A i \in 1 .. Len(s) : t[i + 1] = s[i]
      /\ Range(t) = Range(s) \cup {k} /\ IsInjective(t)
  BY <1>3, <1>6, <1>7, PushFront
<1> HIDE DEF t
<1>9. /\ h1 \in [SmallBlocks -> {0, 1}] /\ h1[b] = 0
      /\ \A c \in SmallBlocks : c # b => h1[c] = h[c]
  BY <1>1, <1>2, <1>3
<1>10. Len(s) \in 0 .. (MaxElemCount - 1) /\ Len(s) \in Nat
  <2>1. Range(s) \in SUBSET (SmallNumbers \ {k})
    BY <1>6, <1>7, RangeOfList
  <2>2. IsFiniteSet(SmallNumbers) /\ Cardinality(SmallNumbers) = MaxElemCount
    BY SmallNumbersCount
  <2>3. /\ IsFiniteSet(SmallNumbers \ {k})
        /\ Cardinality(SmallNumbers \ {k}) = MaxElemCount - 1
    BY <1>3, <2>2, FS_RemoveElement
  <2>4. Cardinality(Range(s)) <= MaxElemCount - 1
    BY <2>1, <2>3, FS_Subset
  <2>5. Cardinality(Range(s)) = Len(s)
    BY <1>6, RangeCount
  <2> QED
    BY <1>3, <1>6, <2>4, <2>5
<1>11. /\ refs1 \in [SmallPages -> 0 .. MaxElemCount] /\ refs1[p] = refs[p] - 1
       /\ first1 \in [SmallPages -> 0 .. MaxElemCount] /\ first1[p] = k
       /\ \A q \in SmallPages : q # p => refs1[q] = refs[q] /\ first1[q] = first[q]
  <2>1. refs[p] - 1 \in 0 .. MaxElemCount
    BY <1>3, <1>5, <1>10
  <2>2. k \in 0 .. MaxElemCount
    BY <1>3 DEF SmallNumbers
  <2> QED
    BY <1>1, <1>2, <1>3, <2>1, <2>2 DEF k
<1>12. /\ text1 \in [SmallBlocks -> 0 .. MaxElemCount] /\ text1[b] = first[p]
       /\ \A c \in SmallBlocks : c # b => text1[c] = text[c]
  BY <1>1, <1>2, <1>3
<1>13. SmallLinked(p, t, first1, text1, h1)
  <2>1. Range(t) = SmallFree(p, h1)
    <3>1. ASSUME NEW n \in SmallNumbers PROVE n \in SmallFree(p, h1) <=> n = k \/ n \in SmallFree(p, h)
      <4>1. <<p, n>> \in SmallBlocks /\ (<<p, n>> = b <=> n = k)
        BY <1>3 DEF SmallBlocks
      <4> QED
        BY <1>9, <4>1 DEF SmallFree
    <3>2. SmallFree(p, h1) \subseteq SmallNumbers /\ SmallFree(p, h) \subseteq SmallNumbers
      BY DEF SmallFree
    <3> QED
      BY <1>3, <1>6, <1>8, <3>1, <3>2
  <2>2. ASSUME NEW i \in 1 .. Len(t)
        PROVE  text1[<<p, t[i]>>] = IF i = Len(t) THEN MaxElemCount ELSE t[i + 1]
    <3>1. CASE i = 1
      <4>1. text1[<<p, t[i]>>] = first[p]
        BY <1>3, <1>8, <1>12, <3>1
      <4>2. CASE s = <<>>
        <5>1. Len(s) = 0
          BY <4>2
        <5> QED
          BY <1>6, <1>8, <3>1, <4>1, <4>2, <5>1
      <4>3. CASE s # <<>>
        <5>1. Len(s) >= 1 /\ 1 \in 1 .. Len(s)
          BY <1>6, <4>3
        <5>2. t[1 + 1] = s[1] /\ Len(t) # 1
          BY <1>8, <1>10, <5>1
        <5> QED
          BY <1>6, <3>1, <4>1, <4>3, <5>2
      <4> QED
        BY <4>2, <4>3
    <3>2. CASE i # 1
      <4>1. i - 1 \in 1 .. Len(s) /\ (i - 1) + 1 = i
        BY <1>8, <1>10, <3>2
      <4>2. t[i] = s[i - 1]
        BY <1>8, <4>1
      <4>3. s[i - 1] \in Range(s) /\ s[i - 1] \in SmallNumbers
        BY <1>6, <4>1, RangeOfList
      <4>4. <<p, s[i - 1]>> \in SmallBlocks /\ <<p, s[i - 1]>> # b
        BY <1>3, <1>7, <4>3 DEF SmallBlocks
      <4>5. text1[<<p, t[i]>>] = IF i - 1 = Len(s) THEN MaxElemCount ELSE s[i]
        BY <1>6, <1>12, <4>1, <4>2, <4>4
      <4>6. i # Len(t) => i \in 1 .. Len(s) /\ i - 1 # Len(s)
        BY <1>8, <1>10, <4>1
      <4>7. i = Len(t) => i - 1 = Len(s)
        BY <1>8, <1>10
      <4> QED
        BY <1>8, <4>5, <4>6, <4>7
    <3> QED
      BY <3>1, <3>2
  <2> QED
    BY <1>8, <1>11, <2>1, <2>2 DEF SmallLinked
<1>14. ASSUME NEW q \in Range(pages)
       PROVE  \E u : SmallLinked(q, u, first1, text1, h1) /\ Len(u) = MaxElemCount - refs1[q]
  <2>1. CASE q = p
    <3>1. Len(t) = MaxElemCount - refs1[p]
      BY <1>3, <1>5, <1>8, <1>11
    <3> QED
      BY <1>13, <2>1, <3>1
  <2>2. CASE q # p
    <3>1. q \in SmallPages
      BY <1>1, RangeOfList
    <3>2. PICK u : SmallLinked(q, u, first, text, h) /\ Len(u) = MaxElemCount - refs[q]
      BY <1>1
    <3>3. SmallSame(q, first, text, h, first1, text1, h1)
      BY <1>3, <1>9, <1>11, <1>12, <2>2, <3>1 DEF SmallBlocks, SmallSame
    <3>4. SmallLinked(q, u, first1, text1, h1)
      BY <3>2, <3>3, SmallOtherPage
    <3> QED
      BY <1>11, <2>2, <3>1, <3>2, <3>4
  <2> QED
    BY <2>1, <2>2
<1>15. ASSUME NEW q \in SmallPages \ Range(pages), NEW n \in SmallNumbers PROVE h1[<<q, n>>] = 0
  <2>1. <<q, n>> \in SmallBlocks /\ <<q, n>> # b
    BY <1>3, <1>4 DEF SmallBlocks
  <2> QED
    BY <1>1, <1>9, <2>1
<1>16. SmallState(pages, refs1, first1, text1, h1)
  BY <1>1, <1>9, <1>11, <1>12, <1>14, <1>15 DEF SmallState
<1> QED
  BY <1>3, <1>4, <1>16

\* Who holds a block may write what he likes there.
LEMMA SmallWrites ==
  ASSUME NEW pages, NEW refs, NEW first, NEW text, NEW h,
         SmallState(pages, refs, first, text, h),
         NEW b \in SmallBlocks, h[b] > 0, NEW n \in 0 .. MaxElemCount
  PROVE  SmallState(pages, refs, first, [text EXCEPT ![b] = n], h)
<1> DEFINE text1 == [text EXCEPT ![b] = n]
<1>1. text \in [SmallBlocks -> 0 .. MaxElemCount]
  BY DEF SmallState
<1>2. /\ text1 \in [SmallBlocks -> 0 .. MaxElemCount]
      /\ \A c \in SmallBlocks : c # b => text1[c] = text[c]
  BY <1>1
<1> HIDE DEF text1
<1>3. ASSUME NEW p \in SmallPages, NEW s, SmallLinked(p, s, first, text, h)
      PROVE  SmallLinked(p, s, first, text1, h)
  <2>1. \A i \in 1 .. Len(s) : s[i] \in SmallNumbers /\ h[<<p, s[i]>>] = 0
    <3> SUFFICES ASSUME NEW i \in 1 .. Len(s) PROVE s[i] \in SmallNumbers /\ h[<<p, s[i]>>] = 0
      OBVIOUS
    <3>1. s[i] \in Range(s)
      BY <1>3, RangeOfList DEF SmallLinked
    <3> QED
      BY <1>3, <3>1 DEF SmallLinked, SmallFree
  <2>2. \A i \in 1 .. Len(s) : <<p, s[i]>> \in SmallBlocks /\ <<p, s[i]>> # b
    BY <2>1 DEF SmallBlocks
  <2>3. \A i \in 1 .. Len(s) : text1[<<p, s[i]>>] = text[<<p, s[i]>>]
    BY <1>2, <2>2
  <2> QED
    BY <1>3, <2>3 DEF SmallLinked
<1>4. \A p \in Range(pages) : p \in SmallPages
  BY RangeOfList DEF SmallState
<1>5. SmallState(pages, refs, first, text1, h)
  BY <1>2, <1>3, <1>4 DEF SmallState
<1> QED
  BY <1>5 DEF text1

\* A full free list is that of a page without blocks in use.
LEMMA SmallUnused ==
  ASSUME NEW pages, NEW refs, NEW first, NEW text, NEW h,
         SmallState(pages, refs, first, text, h), NEW p \in Range(pages)
  PROVE  refs[p] = 0 <=> \A n \in SmallNumbers : h[<<p, n>>] = 0
<1>1. /\ pages \in Seq(SmallPages) /\ refs \in [SmallPages -> 0 .. MaxElemCount]
      /\ \A q \in Range(pages) :
           \E t : SmallLinked(q, t, first, text, h) /\ Len(t) = MaxElemCount - refs[q]
  BY DEF SmallState
<1>2. PICK s : SmallLinked(p, s, first, text, h) /\ Len(s) = MaxElemCount - refs[p]
  BY <1>1
<1>3. s \in Seq(SmallNumbers) /\ IsInjective(s) /\ Range(s) = SmallFree(p, h)
  BY <1>2 DEF SmallLinked
<1>4. p \in SmallPages /\ refs[p] \in 0 .. MaxElemCount
  BY <1>1, RangeOfList
<1>5. Cardinality(SmallFree(p, h)) = Len(s)
  BY <1>3, RangeCount, Zenon
<1>6. SmallFree(p, h) \in SUBSET SmallNumbers
  BY DEF SmallFree
<1>7. Cardinality(SmallFree(p, h)) = MaxElemCount => SmallFree(p, h) = SmallNumbers
  <2>1. MaxElemCount = Cardinality(SmallFree(p, h)) => SmallNumbers = SmallFree(p, h)
    BY <1>6, SmallNumbersCount, FS_Subset
  <2> QED
    BY <2>1
<1>8. refs[p] = 0 <=> SmallFree(p, h) = SmallNumbers
  <2>1. CASE refs[p] = 0
    BY <1>2, <1>5, <1>7, <2>1, SmallNumbersCount
  <2>2. CASE refs[p] # 0
    <3>1. Cardinality(SmallFree(p, h)) # MaxElemCount
      BY <1>2, <1>4, <1>5, <2>2, SmallNumbersCount
    <3>2. SmallFree(p, h) # SmallNumbers
      BY <3>1, SmallNumbersCount, Zenon
    <3> QED
      BY <2>2, <3>2, Zenon
  <2> QED
    BY <2>1, <2>2
<1> QED
  BY <1>8 DEF SmallFree

\* Of the list of pages the others only see which pages are in it.
LEMMA SmallOtherPages ==
  ASSUME NEW pages, NEW refs, NEW first, NEW text, NEW h,
         SmallState(pages, refs, first, text, h),
         NEW others \in Seq(SmallPages), IsInjective(others), Range(others) = Range(pages)
  PROVE  SmallState(others, refs, first, text, h)
BY DEF SmallState

\* release_memory gives back unused pages.
LEMMA SmallRelease ==
  ASSUME NEW pages, NEW refs, NEW first, NEW text, NEW h,
         SmallState(pages, refs, first, text, h),
         NEW S \in SUBSET Range(pages), \A p \in Range(pages) : p \in S <=> refs[p] = 0
  PROVE  /\ SmallState(WithoutLeading(pages, S), refs, first, text, h)
         /\ Range(WithoutLeading(pages, S)) \subseteq Range(pages)
         /\ \A p \in Range(pages) \ Range(WithoutLeading(pages, S)) :
              \A n \in SmallNumbers : h[<<p, n>>] = 0
<1> DEFINE pages1 == WithoutLeading(pages, S)
<1>1. pages \in Seq(SmallPages) /\ IsInjective(pages)
  BY DEF SmallState
<1>2. /\ pages1 \in Seq(SmallPages) /\ IsInjective(pages1)
      /\ Range(pages1) \subseteq Range(pages) /\ Range(pages) \ S \subseteq Range(pages1)
  BY <1>1, WithoutLeadingRange
<1> HIDE DEF pages1
<1>3. ASSUME NEW p \in Range(pages) \ Range(pages1)
      PROVE  \A n \in SmallNumbers : h[<<p, n>>] = 0
  <2>1. p \in Range(pages) /\ refs[p] = 0
    BY <1>2
  <2> QED
    BY <2>1, SmallUnused
<1>4. \A p \in SmallPages \ Range(pages1) : \A n \in SmallNumbers : h[<<p, n>>] = 0
  BY <1>3 DEF SmallState
<1>5. SmallState(pages1, refs, first, text, h)
  BY <1>2, <1>4 DEF SmallState
<1> QED
  BY <1>2, <1>3, <1>5 DEF pages1

\* The invariant of SmallPool.
SmallInv == SmallState(pageList, refCnt, firstFree, content, holders)

\* Walking the free list of a page gives the list s and then the number that ends it.
LEMMA SmallChain ==
  ASSUME NEW p \in SmallPages, NEW s, SmallLinked(p, s, firstFree, content, holders),
         Len(s) <= MaxElemCount
  PROVE  \A k \in 1 .. (MaxElemCount + 1) :
           Small!Chain(p)[k] = IF k <= Len(s) THEN s[k] ELSE MaxElemCount
<1> DEFINE N == MaxElemCount + 1
           Rec(c) == c = [k \in 1 .. MaxElemCount + 1 |->
                            IF k = 1 THEN firstFree[p]
                            ELSE IF c[k - 1] = MaxElemCount THEN MaxElemCount
                                 ELSE content[<<p, c[k - 1]>>]]
           chain == CHOOSE c : Rec(c)
           walk == [k \in 1 .. MaxElemCount + 1 |-> IF k <= Len(s) THEN s[k] ELSE MaxElemCount]
<1>1. /\ s \in Seq(SmallNumbers)
      /\ firstFree[p] = IF s = <<>> THEN MaxElemCount ELSE s[1]
      /\ \A i \in 1 .. Len(s) :
           content[<<p, s[i]>>] = IF i = Len(s) THEN MaxElemCount ELSE s[i + 1]
  BY DEF SmallLinked
<1>2. /\ Len(s) \in Nat /\ MaxElemCount \in Nat /\ MaxElemCount > 0
      /\ \A i \in 1 .. Len(s) : s[i] \in SmallNumbers /\ s[i] # MaxElemCount
  BY <1>1, SmallNumbersCount DEF SmallNumbers
<1>3. \A k \in 1 .. N : walk[k] = IF k <= Len(s) THEN s[k] ELSE MaxElemCount
  OBVIOUS
<1>4. ASSUME NEW k \in 1 .. N
      PROVE  walk[k] = IF k = 1 THEN firstFree[p]
                       ELSE IF walk[k - 1] = MaxElemCount THEN MaxElemCount
                            ELSE content[<<p, walk[k - 1]>>]
  <2> HIDE DEF walk
  <2>1. CASE k = 1
    <3>1. s = <<>> <=> Len(s) = 0
      BY <1>1
    <3> QED
      BY <1>1, <1>2, <1>3, <2>1, <3>1
  <2>2. CASE k # 1
    <3>1. k - 1 \in 1 .. N /\ (k - 1) + 1 = k
      BY <1>2, <2>2
    <3>2. walk[k - 1] = IF k - 1 <= Len(s) THEN s[k - 1] ELSE MaxElemCount
      BY <1>3, <3>1
    <3>3. CASE k - 1 <= Len(s)
      <4>1. k - 1 \in 1 .. Len(s)
        BY <1>2, <3>1, <3>3
      <4>2. content[<<p, s[k - 1]>>] = IF k - 1 = Len(s) THEN MaxElemCount ELSE s[(k - 1) + 1]
        BY <1>1, <4>1
      <4>3. k - 1 = Len(s) <=> ~(k <= Len(s))
        BY <1>2, <3>1, <3>3
      <4> QED
        BY <1>2, <1>3, <2>2, <3>1, <3>2, <3>3, <4>1, <4>2, <4>3
    <3>4. CASE ~(k - 1 <= Len(s))
      <4>1. ~(k <= Len(s))
        BY <1>2, <3>4
      <4> QED
        BY <1>3, <2>2, <3>2, <3>4, <4>1
    <3> QED
      BY <3>3, <3>4
  <2> QED
    BY <2>1, <2>2
<1>5. Rec(walk)
  <2>1. walk = [k \in 1 .. MaxElemCount + 1 |-> walk[k]]
    OBVIOUS
  <2> HIDE DEF walk
  <2> QED
    BY <1>4, <2>1
<1>6. Rec(chain)
  <2> HIDE DEF walk
  <2> QED
    BY <1>5
<1>7. Small!Chain(p) = chain
  BY Zenon DEF Small!Chain
<1> HIDE DEF chain, walk
<1>8. \A k \in 1 .. N : chain[k] = IF k = 1 THEN firstFree[p]
                                  ELSE IF chain[k - 1] = MaxElemCount THEN MaxElemCount
                                       ELSE content[<<p, chain[k - 1]>>]
  BY <1>6
<1> DEFINE Good == {n \in Nat : n + 1 <= N => chain[n + 1] = walk[n + 1]}
<1>9. 0 \in Good
  <2>1. 0 + 1 = 1 /\ 1 \in 1 .. N
    BY <1>2
  <2>2. chain[1] = firstFree[p] /\ walk[1] = firstFree[p]
    BY <1>4, <1>8, <2>1
  <2> QED
    BY <2>1, <2>2
<1>10. ASSUME NEW n \in Good PROVE n + 1 \in Good
  <2> SUFFICES ASSUME (n + 1) + 1 <= N PROVE chain[(n + 1) + 1] = walk[(n + 1) + 1]
    OBVIOUS
  <2> DEFINE k == (n + 1) + 1
  <2>1. k \in 1 .. N /\ k # 1 /\ k - 1 = n + 1 /\ chain[n + 1] = walk[n + 1]
    BY <1>2
  <2> HIDE DEF k
  <2>2. chain[k] = IF chain[k - 1] = MaxElemCount THEN MaxElemCount
                   ELSE content[<<p, chain[k - 1]>>]
    BY <1>8, <2>1
  <2>3. walk[k] = IF walk[k - 1] = MaxElemCount THEN MaxElemCount
                  ELSE content[<<p, walk[k - 1]>>]
    BY <1>4, <2>1
  <2>4. chain[k] = walk[k]
    BY <2>1, <2>2, <2>3
  <2> QED
    BY <2>4 DEF k
<1>11. Good = Nat
  <2> HIDE DEF Good
  <2>1. Good \in SUBSET Nat
    BY DEF Good
  <2> QED
    BY <1>9, <1>10, <2>1, SetInduction
<1>12. ASSUME NEW k \in 1 .. (MaxElemCount + 1) PROVE chain[k] = walk[k]
  <2>1. k - 1 \in Nat /\ (k - 1) + 1 = k
    BY <1>2
  <2>2. k - 1 \in Good
    BY <1>11, <2>1
  <2> QED
    BY <1>2, <2>1, <2>2
<1> QED
  BY <1>3, <1>7, <1>12

\* The invariant says what the runs check.
LEMMA SmallInvImplies ==
  ASSUME SmallInv
  PROVE  Small!Consistent
<1>1. /\ pageList \in Seq(SmallPages) /\ IsInjective(pageList)
      /\ refCnt \in [SmallPages -> 0 .. MaxElemCount]
      /\ firstFree \in [SmallPages -> 0 .. MaxElemCount]
      /\ content \in [SmallBlocks -> 0 .. MaxElemCount] /\ holders \in [SmallBlocks -> {0, 1}]
      /\ \A p \in Range(pageList) : \E s : /\ SmallLinked(p, s, firstFree, content, holders)
                                           /\ Len(s) = MaxElemCount - refCnt[p]
      /\ \A p \in SmallPages \ Range(pageList) : \A n \in SmallNumbers : holders[<<p, n>>] = 0
  BY DEF SmallInv, SmallState
<1>2. /\ Small!Blocks = SmallBlocks /\ Small!PageBlocks = SmallNumbers
      /\ Small!Mapped = Range(pageList)
  BY SmallLists DEF Small!Blocks, Small!PageBlocks, SmallBlocks, SmallNumbers, Small!Mapped
<1>3. Small!TypeOK
  BY <1>1, <1>2 DEF Small!TypeOK
<1>4. Small!UsedAreMapped
  <2> SUFFICES ASSUME NEW p \in SmallPages \ Range(pageList), NEW b \in SmallBlocks, b[1] = p
               PROVE  holders[b] = 0
    BY <1>2 DEF Small!UsedAreMapped, Small!UsedIn
  <2> QED
    BY <1>1 DEF SmallBlocks
<1>5. ASSUME NEW p \in Range(pageList), NEW free, free = SmallFree(p, holders),
             NEW k, k = Cardinality(free)
      PROVE  /\ k = MaxElemCount - refCnt[p]
             /\ {Small!Chain(p)[i] : i \in 1 .. k} = free
             /\ Small!Chain(p)[k + 1] = MaxElemCount
  <2>1. PICK s : /\ SmallLinked(p, s, firstFree, content, holders)
                 /\ Len(s) = MaxElemCount - refCnt[p]
    BY <1>1
  <2>2. s \in Seq(SmallNumbers) /\ IsInjective(s) /\ Range(s) = free
    BY <1>5, <2>1 DEF SmallLinked
  <2>3. p \in SmallPages /\ refCnt[p] \in 0 .. MaxElemCount
    BY <1>1, RangeOfList
  <2>4. k = Len(s)
    BY <1>5, <2>2, RangeCount, Zenon
  <2>5. k = MaxElemCount - refCnt[p] /\ k \in 0 .. MaxElemCount
    BY <2>1, <2>3, <2>4, SmallNumbersCount
  <2>6. \A i \in 1 .. (MaxElemCount + 1) :
          Small!Chain(p)[i] = IF i <= Len(s) THEN s[i] ELSE MaxElemCount
    BY <2>1, <2>3, <2>4, <2>5, SmallChain
  <2>7. \A i \in 1 .. k : Small!Chain(p)[i] = s[i]
    BY <2>4, <2>5, <2>6, SmallNumbersCount
  <2>8. \A i \in 1 .. k : s[i] \in free
    BY <2>2, <2>4, RangeOfList
  <2>9. \A n \in free : \E i \in 1 .. k : s[i] = n
    BY <2>2, <2>4, RangeOfList
  <2>10. k + 1 \in 1 .. (MaxElemCount + 1) /\ ~(k + 1 <= Len(s))
    BY <2>4, <2>5, SmallNumbersCount
  <2>11. Small!Chain(p)[k + 1] = MaxElemCount
    BY <2>6, <2>10
  <2>12. {Small!Chain(p)[i] : i \in 1 .. k} = free
    BY <2>7, <2>8, <2>9
  <2> QED
    BY <2>5, <2>11, <2>12
<1>6. Small!ChainIsFree
  <2>1. \A p \in Range(pageList) :
          LET free == SmallFree(p, holders)
              k == Cardinality(free)
          IN /\ k = MaxElemCount - refCnt[p]
             /\ {Small!Chain(p)[i] : i \in 1 .. k} = free
             /\ Small!Chain(p)[k + 1] = MaxElemCount
    BY <1>5
  <2>2. \A p \in Range(pageList) :
          LET free == {n \in SmallNumbers : holders[<<p, n>>] = 0}
              k == Small!Cardinality(free)
          IN /\ k = MaxElemCount - refCnt[p]
             /\ {Small!Chain(p)[i] : i \in 1 .. k} = free
             /\ Small!Chain(p)[k + 1] = MaxElemCount
    BY <2>1, SmallLists, Zenon DEF SmallFree
  <2>3. Small!IsInjective(pageList)
    BY <1>1, SmallLists
  <2> QED
    BY <1>2, <2>2, <2>3, Zenon DEF Small!ChainIsFree
<1> QED
  BY <1>3, <1>4, <1>6 DEF Small!Consistent

\* It holds when there are no pages yet.
LEMMA SmallInit ==
  ASSUME Small!Init
  PROVE  SmallInv /\ Range(pageList) = {} /\ holders \in [SmallBlocks -> {0}]
<1>1. /\ pageList = <<>>
      /\ refCnt = [p \in SmallPages |-> 0] /\ firstFree = [p \in SmallPages |-> 0]
      /\ content = [b \in SmallBlocks |-> 0] /\ holders = [b \in SmallBlocks |-> 0]
  BY DEF Small!Init, Small!Blocks, Small!PageBlocks, SmallBlocks, SmallNumbers
<1>2. <<>> \in Seq(SmallPages) /\ Range(<<>>) = {} /\ IsInjective(<<>>)
  BY DEF Range, IsInjective
<1>3. 0 \in 0 .. MaxElemCount
  BY SmallNumbersCount
<1>4. /\ refCnt \in [SmallPages -> 0 .. MaxElemCount]
      /\ firstFree \in [SmallPages -> 0 .. MaxElemCount]
      /\ content \in [SmallBlocks -> 0 .. MaxElemCount]
      /\ holders \in [SmallBlocks -> {0, 1}] /\ holders \in [SmallBlocks -> {0}]
  BY <1>1, <1>3
<1>5. \A p \in SmallPages : \A n \in SmallNumbers : holders[<<p, n>>] = 0
  BY <1>1 DEF SmallBlocks
<1> QED
  BY <1>1, <1>2, <1>4, <1>5 DEF SmallInv, SmallState

\* Every step of SmallPool preserves it, and is a step of an allocator or leaves it alone.
LEMMA SmallNext ==
  ASSUME SmallInv, Small!Next
  PROVE  SmallInv' /\ AllocatorStep(Range(pageList), holders, Range(pageList'), holders')
<1> DEFINE Steps == SmallInv' /\ AllocatorStep(Range(pageList), holders, Range(pageList'), holders')
<1>1. /\ pageList \in Seq(SmallPages) /\ IsInjective(pageList)
      /\ refCnt \in [SmallPages -> 0 .. MaxElemCount]
      /\ content \in [SmallBlocks -> 0 .. MaxElemCount]
      /\ holders \in [SmallBlocks -> {0, 1}] /\ DOMAIN holders = SmallBlocks
  BY DEF SmallInv, SmallState
<1>2. Small!Blocks = SmallBlocks /\ Small!Mapped = Range(pageList)
  BY SmallLists DEF Small!Blocks, Small!PageBlocks, SmallBlocks, SmallNumbers, Small!Mapped
<1>3. ASSUME NEW pages, NEW refs, NEW first, NEW text, SmallState(pages, refs, first, text, holders),
             pages # <<>>, refs[Head(pages)] # MaxElemCount,
             Small!AllocFromList(pages, refs, first, text)
      PROVE  /\ SmallInv' /\ pageList' = pages
             /\ \E b \in SmallBlocks : /\ holders[b] = 0 /\ holders' = [holders EXCEPT ![b] = 1]
                                       /\ b[1] = Head(pages) /\ b[1] \in Range(pages)
  <2> DEFINE p == Head(pages)
             b == <<p, first[p]>>
  <2>1. /\ refCnt' = [refs EXCEPT ![p] = @ + 1] /\ firstFree' = [first EXCEPT ![p] = text[b]]
        /\ holders' = [holders EXCEPT ![b] = @ + 1] /\ content' = text /\ pageList' = pages
    BY <1>3 DEF Small!AllocFromList
  <2>2. pages \in Seq(SmallPages)
    BY <1>3 DEF SmallState
  <2>3. p \in Range(pages)
    BY <1>3, <2>2, PopFront
  <2>4. b = SmallFront(p, first) /\ b[1] = p
    BY DEF SmallFront
  <2> HIDE DEF p, b
  <2>5. /\ b \in SmallBlocks /\ holders[b] = 0
        /\ SmallState(pages, [refs EXCEPT ![p] = @ + 1], [first EXCEPT ![p] = text[b]],
                      text, [holders EXCEPT ![b] = @ + 1])
    <3>1. refs[p] # MaxElemCount
      BY <1>3 DEF p
    <3>2. SmallState(pages, refs, first, text, holders)
      BY <1>3
    <3> QED
      BY <2>3, <2>4, <3>1, <3>2, SmallAlloc
  <2>6. SmallInv'
    BY <2>1, <2>5 DEF SmallInv
  <2>7. holders' = [holders EXCEPT ![b] = 1]
    BY <1>1, <2>1, <2>5
  <2> QED
    BY <2>1, <2>3, <2>4, <2>5, <2>6, <2>7 DEF p
<1>4. ASSUME NEW p \in SmallPages, Small!MallocNewPage(p) PROVE Steps
  <2> DEFINE pages == <<p>> \o pageList
             refs == [refCnt EXCEPT ![p] = 0]
             first == [firstFree EXCEPT ![p] = 0]
             text == Small!NewContent(p)
  <2>1. p \notin Range(pageList) /\ Small!AllocFromList(pages, refs, first, text)
    BY <1>2, <1>4 DEF Small!MallocNewPage
  <2>2. /\ text \in [SmallBlocks -> 0 .. MaxElemCount]
        /\ \A b \in SmallBlocks : text[b] = IF b[1] # p THEN content[b] ELSE b[2] + 1
    <3>1. text = [b \in SmallBlocks |-> IF b[1] # p THEN content[b] ELSE b[2] + 1]
      BY <1>2 DEF Small!NewContent
    <3>2. \A b \in SmallBlocks : b[2] + 1 \in 0 .. MaxElemCount
      BY SmallNumbersCount DEF SmallBlocks, SmallNumbers
    <3> HIDE DEF text
    <3> QED
      BY <1>1, <3>1, <3>2
  <2> HIDE DEF text
  <2>3. SmallState(pages, refs, first, text, holders)
    BY <2>1, <2>2, SmallNewPage DEF SmallInv
  <2>4. pages # <<>> /\ Head(pages) = p /\ Range(pages) = Range(pageList) \cup {p}
    BY <1>1, PushFront
  <2>5. refs[p] # MaxElemCount
    BY <1>1, SmallNumbersCount
  <2> HIDE DEF pages, refs, first
  <2>6. /\ SmallInv' /\ pageList' = pages
        /\ \E b \in SmallBlocks : /\ holders[b] = 0 /\ holders' = [holders EXCEPT ![b] = 1]
                                  /\ b[1] = Head(pages) /\ b[1] \in Range(pages)
    <3>1. refs[Head(pages)] # MaxElemCount
      BY <2>4, <2>5
    <3> QED
      BY <1>3, <2>1, <2>3, <2>4, <3>1
  <2>7. PICK b \in SmallBlocks : /\ holders[b] = 0 /\ holders' = [holders EXCEPT ![b] = 1]
                                 /\ b[1] = p
    BY <2>4, <2>6
  <2>8. Range(pageList') = Range(pageList) \cup {b[1]}
    BY <2>4, <2>6, <2>7
  <2> QED
    BY <1>1, <2>6, <2>7, <2>8 DEF AllocatorStep
<1>5. ASSUME Small!MallocFromFront PROVE Steps
  <2>1. /\ pageList # <<>> /\ refCnt[Head(pageList)] # MaxElemCount
        /\ Small!AllocFromList(pageList, refCnt, firstFree, content)
    BY <1>5 DEF Small!MallocFromFront, Small!FrontFull
  <2>2. /\ SmallInv' /\ pageList' = pageList
        /\ \E b \in SmallBlocks : /\ holders[b] = 0 /\ holders' = [holders EXCEPT ![b] = 1]
                                  /\ b[1] = Head(pageList) /\ b[1] \in Range(pageList)
    BY <1>3, <2>1 DEF SmallInv
  <2>3. PICK b \in SmallBlocks : /\ holders[b] = 0 /\ holders' = [holders EXCEPT ![b] = 1]
                                 /\ b[1] \in Range(pageList)
    BY <2>2
  <2>4. Range(pageList') = Range(pageList) \cup {b[1]}
    BY <2>2, <2>3
  <2> QED
    BY <1>1, <2>2, <2>3, <2>4 DEF AllocatorStep
<1>6. ASSUME NEW b \in SmallBlocks, Small!Free(b) PROVE Steps
  <2> DEFINE p == b[1]
  <2>1. /\ SmallFreed(b, refCnt, firstFree, content, holders, refCnt', firstFree', content', holders')
        /\ pageList' = IF refCnt'[p] = 0 THEN ToFront(p, pageList) ELSE pageList
        /\ holders' = [holders EXCEPT ![b] = @ - 1]
    BY <1>6, SmallLists DEF Small!Free, SmallFreed
  <2>2. p \in SmallPages /\ p = b[1]
    BY DEF SmallBlocks
  <2> HIDE DEF p
  <2>3. /\ p \in Range(pageList) /\ holders[b] = 1
        /\ SmallState(pageList, refCnt', firstFree', content', holders')
    <3>1. SmallState(pageList, refCnt, firstFree, content, holders)
      BY DEF SmallInv
    <3>2. SmallFreed(b, refCnt, firstFree, content, holders,
                     refCnt', firstFree', content', holders')
      BY <2>1
    <3> QED
      BY <2>2, <3>1, <3>2, SmallFreeStep
  <2>4. pageList' \in Seq(SmallPages) /\ IsInjective(pageList') /\ Range(pageList') = Range(pageList)
    <3>1. /\ ToFront(p, pageList) \in Seq(SmallPages) /\ IsInjective(ToFront(p, pageList))
          /\ Range(ToFront(p, pageList)) = Range(pageList) \cup {p}
      BY <1>1, <2>2, ToFrontRange
    <3> QED
      BY <1>1, <2>1, <2>3, <3>1
  <2>5. SmallInv'
    BY <2>3, <2>4, SmallOtherPages DEF SmallInv
  <2>6. holders' = [holders EXCEPT ![b] = 0]
    BY <1>1, <2>1, <2>3
  <2> QED
    BY <1>1, <2>3, <2>4, <2>5, <2>6 DEF AllocatorStep
<1>7. ASSUME NEW b \in SmallBlocks, NEW n \in 0 .. MaxElemCount, Small!UserWrites(b, n) PROVE Steps
  <2>1. /\ holders[b] > 0 /\ content' = [content EXCEPT ![b] = n]
        /\ pageList' = pageList /\ refCnt' = refCnt /\ firstFree' = firstFree /\ holders' = holders
    BY <1>7 DEF Small!UserWrites
  <2>2. SmallState(pageList, refCnt, firstFree, [content EXCEPT ![b] = n], holders)
    BY <2>1, SmallWrites DEF SmallInv
  <2>3. SmallInv'
    BY <2>1, <2>2 DEF SmallInv
  <2>4. {} \in SUBSET Range(pageList) /\ Range(pageList') = Range(pageList) \ {}
    BY <2>1
  <2> QED
    BY <2>1, <2>3, <2>4 DEF AllocatorStep
<1>8. ASSUME Small!ReleaseMemory PROVE Steps
  <2> DEFINE S == {p \in Range(pageList) : refCnt[p] = 0}
  <2>1. /\ pageList' = WithoutLeading(pageList, S) /\ refCnt' = refCnt /\ firstFree' = firstFree
        /\ content' = content /\ holders' = holders
    BY <1>8, SmallLists DEF Small!ReleaseMemory, Small!Unused, Small!Mapped
  <2>0. S \in SUBSET Range(pageList) /\ \A p \in Range(pageList) : p \in S <=> refCnt[p] = 0
    OBVIOUS
  <2> HIDE DEF S
  <2>2. /\ SmallState(pageList', refCnt', firstFree', content', holders')
        /\ Range(pageList') \subseteq Range(pageList)
        /\ \A p \in Range(pageList) \ Range(pageList') : \A n \in SmallNumbers : holders[<<p, n>>] = 0
    <3>1. SmallState(pageList, refCnt, firstFree, content, holders)
      BY DEF SmallInv
    <3>2. /\ SmallState(WithoutLeading(pageList, S), refCnt, firstFree, content, holders)
          /\ Range(WithoutLeading(pageList, S)) \subseteq Range(pageList)
          /\ \A p \in Range(pageList) \ Range(WithoutLeading(pageList, S)) :
               \A n \in SmallNumbers : holders[<<p, n>>] = 0
      BY <2>0, <3>1, SmallRelease
    <3> QED
      BY <2>1, <3>2
  <2> DEFINE unused == Range(pageList) \ Range(pageList')
  <2>3. \A b \in SmallBlocks : b[1] \in unused => holders[b] = 0
    BY <2>2 DEF SmallBlocks
  <2>4. unused \in SUBSET Range(pageList) /\ Range(pageList') = Range(pageList) \ unused
    BY <2>2
  <2> HIDE DEF unused
  <2>5. AllocatorStep(Range(pageList), holders, Range(pageList'), holders')
    BY <1>1, <2>1, <2>3, <2>4 DEF AllocatorStep
  <2> QED
    BY <2>2, <2>5 DEF SmallInv
<1> QED
  BY <1>2, <1>4, <1>5, <1>6, <1>7, <1>8 DEF Small!Next

\* The destructor's release_memory leaves no page.
LEMMA SmallReleaseComplete ==
  ASSUME SmallInv
  PROVE  Small!ReleaseComplete
<1> SUFFICES ASSUME Small!ReleaseMemory, \A b \in SmallBlocks : holders[b] = 0
             PROVE  pageList' = <<>>
  BY DEF Small!ReleaseComplete, Small!Blocks, Small!PageBlocks, SmallBlocks, SmallNumbers
<1> DEFINE S == {p \in Range(pageList) : refCnt[p] = 0}
<1>1. pageList' = WithoutLeading(pageList, S)
  BY SmallLists DEF Small!ReleaseMemory, Small!Unused, Small!Mapped
<1>2. pageList \in Seq(SmallPages) /\ \A p \in Range(pageList) : p \in SmallPages
  BY RangeOfList DEF SmallInv, SmallState
<1>3. ASSUME NEW p \in Range(pageList) PROVE refCnt[p] = 0
  <2>1. \A n \in SmallNumbers : holders[<<p, n>>] = 0
    BY <1>2 DEF SmallBlocks
  <2> QED
    BY <2>1, SmallUnused DEF SmallInv
<1>4. Range(pageList) \subseteq S
  BY <1>3
<1> HIDE DEF S
<1> QED
  BY <1>1, <1>2, <1>4, WithoutLeadingRange

-----------------------------------------------------------------------------
(***************************************************************************)
(* ListPool.  What its two levels of lists say of one page, of its count n,*)
(* of the list of its buckets and of the lists of their blocks.            *)
(***************************************************************************)
ListBuckets == 1 .. SubPageCount
ListPlaces == 1 .. BucketSize
ListBlocks == Pages \X (ListBuckets \X ListPlaces)

ListPage(p, n, buckets, blocks, h) ==
  /\ buckets \in Seq(ListBuckets) /\ IsInjective(buckets)
  /\ blocks \in [ListBuckets -> Seq(ListPlaces)]
  /\ \A k \in ListBuckets : k \in Range(buckets) <=> blocks[k] # <<>>
  /\ n = SubPageCount - Len(buckets)
  /\ \A k \in ListBuckets :
       /\ IsInjective(blocks[k])
       /\ \A i \in ListPlaces : i \in Range(blocks[k]) <=> h[<<p, <<k, i>>>>] = 0

\* Nobody has a block of page p.
ListUnused(p, h) == \A k \in ListBuckets : \A i \in ListPlaces : h[<<p, <<k, i>>>>] = 0

\* The blocks of page p are handed out alike.
ListSame(p, h, h1) ==
  \A k \in ListBuckets : \A i \in ListPlaces : h1[<<p, <<k, i>>>>] = h[<<p, <<k, i>>>>]

\* The invariant of ListPool.
ListInv ==
  /\ pageList \in Seq(Pages)
  /\ refCnt \in [Pages -> 0 .. SubPageCount]
  /\ bucketList \in [Pages -> Seq(ListBuckets)]
  /\ blockList \in [Pages -> [ListBuckets -> Seq(ListPlaces)]]
  /\ holders \in [ListBlocks -> {0, 1}]
  /\ \A p \in Range(pageList) : ListPage(p, refCnt[p], bucketList[p], blockList[p], holders)
  /\ \A p \in Pages \ Range(pageList) : ListUnused(p, holders)

\* A list of numbers up to n that has none twice is no longer than n, and has all if it
\* is that long.
LEMMA ListOfAll ==
  ASSUME NEW n \in Nat, NEW s \in Seq(1 .. n), IsInjective(s)
  PROVE  Len(s) \in 0 .. n /\ (Len(s) = n <=> \A i \in 1 .. n : i \in Range(s))
<1>1. IsFiniteSet(Range(s)) /\ Cardinality(Range(s)) = Len(s)
  BY RangeCount
<1>2. IsFiniteSet(1 .. n) /\ Cardinality(1 .. n) = n
  BY FS_Interval
<1>3. Range(s) \in SUBSET (1 .. n)
  BY RangeOfList
<1>4. Cardinality(Range(s)) <= n /\ (n = Cardinality(Range(s)) => 1 .. n = Range(s))
  BY <1>2, <1>3, FS_Subset
<1>5. Len(s) \in Nat
  OBVIOUS
<1>6. (\A i \in 1 .. n : i \in Range(s)) => Range(s) = 1 .. n
  BY <1>3
<1>7. (\A i \in 1 .. n : i \in Range(s)) => Len(s) = n
  BY <1>1, <1>2, <1>6, Zenon
<1>8. Len(s) = n => \A i \in 1 .. n : i \in Range(s)
  BY <1>1, <1>4
<1> QED
  BY <1>1, <1>4, <1>5, <1>7, <1>8

\* A page sees only its own blocks.
LEMMA ListOtherPage ==
  ASSUME NEW p, NEW n, NEW buckets, NEW blocks, NEW h, ListPage(p, n, buckets, blocks, h),
         NEW h1, ListSame(p, h, h1)
  PROVE  ListPage(p, n, buckets, blocks, h1)
BY DEF ListPage, ListSame

\* The count of a page is in range, and a page is free, as is_free says, when nobody has
\* a block of it.
LEMMA ListPageFree ==
  ASSUME NEW p, NEW n, NEW buckets, NEW blocks, NEW h, ListPage(p, n, buckets, blocks, h)
  PROVE  /\ n \in 0 .. SubPageCount
         /\ /\ Len(buckets) = SubPageCount
            /\ \A j \in DOMAIN buckets : Len(blocks[buckets[j]]) = BucketSize
            <=> ListUnused(p, h)
<1>1. /\ buckets \in Seq(ListBuckets) /\ IsInjective(buckets)
      /\ blocks \in [ListBuckets -> Seq(ListPlaces)]
      /\ \A k \in ListBuckets : k \in Range(buckets) <=> blocks[k] # <<>>
      /\ n = SubPageCount - Len(buckets)
      /\ \A k \in ListBuckets :
           /\ IsInjective(blocks[k])
           /\ \A i \in ListPlaces : i \in Range(blocks[k]) <=> h[<<p, <<k, i>>>>] = 0
  BY DEF ListPage
<1>2. SubPageCount \in Nat /\ BucketSize \in Nat /\ BucketSize > 0
  BY SubPageAssumption, BucketAssumption
<1>3. /\ Len(buckets) \in 0 .. SubPageCount
      /\ Len(buckets) = SubPageCount <=> \A k \in ListBuckets : k \in Range(buckets)
  BY <1>1, <1>2, ListOfAll DEF ListBuckets
<1>4. ASSUME NEW k \in ListBuckets
      PROVE  Len(blocks[k]) = BucketSize <=> \A i \in ListPlaces : h[<<p, <<k, i>>>>] = 0
  <2>1. blocks[k] \in Seq(ListPlaces) /\ IsInjective(blocks[k])
    BY <1>1
  <2>2. Len(blocks[k]) = BucketSize <=> \A i \in ListPlaces : i \in Range(blocks[k])
    BY <1>2, <2>1, ListOfAll DEF ListPlaces
  <2> QED
    BY <1>1, <2>2
<1>5. ASSUME Len(buckets) = SubPageCount,
             \A j \in DOMAIN buckets : Len(blocks[buckets[j]]) = BucketSize
      PROVE  ListUnused(p, h)
  <2>1. ASSUME NEW k \in ListBuckets PROVE Len(blocks[k]) = BucketSize
    <3>1. k \in Range(buckets)
      BY <1>3, <1>5
    <3>2. PICK j \in DOMAIN buckets : buckets[j] = k
      BY <3>1 DEF Range
    <3> QED
      BY <1>5, <3>2
  <2> QED
    BY <1>4, <2>1 DEF ListUnused
<1>6. ASSUME ListUnused(p, h)
      PROVE  /\ Len(buckets) = SubPageCount
             /\ \A j \in DOMAIN buckets : Len(blocks[buckets[j]]) = BucketSize
  <2>1. \A k \in ListBuckets : Len(blocks[k]) = BucketSize
    BY <1>4, <1>6 DEF ListUnused
  <2>2. ASSUME NEW k \in ListBuckets PROVE k \in Range(buckets)
    <3>1. blocks[k] # <<>>
      <4>1. Len(blocks[k]) # 0
        BY <1>2, <2>1
      <4>2. blocks[k] = <<>> => Len(blocks[k]) = 0
        OBVIOUS
      <4> QED
        BY <4>1, <4>2
    <3> QED
      BY <1>1, <3>1
  <2>3. \A j \in DOMAIN buckets : buckets[j] \in ListBuckets
    BY <1>1
  <2> QED
    BY <1>3, <2>1, <2>2, <2>3
<1>7. n \in 0 .. SubPageCount
  BY <1>1, <1>2, <1>3
<1> QED
  BY <1>5, <1>6, <1>7

\* A new page: all its buckets are in its list, and all their blocks in theirs.
LEMMA ListNewPage ==
  ASSUME NEW p, NEW h, ListUnused(p, h)
  PROVE  ListPage(p, 0, List!UpTo(SubPageCount),
                  [k \in ListBuckets |-> List!UpTo(BucketSize)], h)
<1>1. SubPageCount \in Nat /\ BucketSize \in Nat /\ BucketSize > 0
  BY SubPageAssumption, BucketAssumption
<1>2. ASSUME NEW n \in Nat
      PROVE  /\ List!UpTo(n) \in Seq(1 .. n) /\ IsInjective(List!UpTo(n))
             /\ Range(List!UpTo(n)) = 1 .. n /\ Len(List!UpTo(n)) = n
  <2> DEFINE u == [i \in 1 .. n |-> i]
  <2>1. u \in Seq(1 .. n) /\ Len(u) = n /\ DOMAIN u = 1 .. n /\ \A i \in 1 .. n : u[i] = i
    OBVIOUS
  <2> HIDE DEF u
  <2>2. IsInjective(u) /\ Range(u) = 1 .. n
    BY <2>1 DEF IsInjective, Range
  <2> QED
    BY <2>1, <2>2 DEF List!UpTo, u
<1> DEFINE all == List!UpTo(SubPageCount)
           each == List!UpTo(BucketSize)
           blocks == [k \in ListBuckets |-> each]
<1>3. /\ all \in Seq(ListBuckets) /\ IsInjective(all)
      /\ Range(all) = ListBuckets /\ Len(all) = SubPageCount
  BY <1>1, <1>2 DEF ListBuckets
<1>4. /\ each \in Seq(ListPlaces) /\ IsInjective(each)
      /\ Range(each) = ListPlaces /\ Len(each) = BucketSize
  BY <1>1, <1>2 DEF ListPlaces
<1>5. each # <<>>
  BY <1>1, <1>4
<1> HIDE DEF all, each
<1>6. blocks \in [ListBuckets -> Seq(ListPlaces)] /\ \A k \in ListBuckets : blocks[k] = each
  BY <1>4
<1> HIDE DEF blocks
<1>7. ListPage(p, 0, all, blocks, h)
  BY <1>1, <1>3, <1>4, <1>5, <1>6 DEF ListPage, ListUnused
<1> QED
  BY <1>7 DEF all, each, blocks

\* page::alloc takes the first block of the first bucket, and unlinks a bucket that has
\* become full.
LEMMA ListAlloc ==
  ASSUME NEW p \in Pages, NEW n, NEW buckets, NEW blocks, NEW h \in [ListBlocks -> {0, 1}],
         ListPage(p, n, buckets, blocks, h), buckets # <<>>,
         NEW k, k = Head(buckets), NEW b, b = <<p, <<k, Head(blocks[k])>>>>,
         NEW left, left = Tail(blocks[k])
  PROVE  /\ b \in ListBlocks /\ h[b] = 0 /\ k \in ListBuckets
         /\ ListPage(p, IF left = <<>> THEN n + 1 ELSE n,
                     IF left = <<>> THEN Tail(buckets) ELSE buckets,
                     [blocks EXCEPT ![k] = left], [h EXCEPT ![b] = @ + 1])
<1> DEFINE blocks1 == [blocks EXCEPT ![k] = left]
           h1 == [h EXCEPT ![b] = @ + 1]
           i == Head(blocks[k])
<1>1. /\ buckets \in Seq(ListBuckets) /\ IsInjective(buckets)
      /\ blocks \in [ListBuckets -> Seq(ListPlaces)]
      /\ \A m \in ListBuckets : m \in Range(buckets) <=> blocks[m] # <<>>
      /\ n = SubPageCount - Len(buckets)
      /\ \A m \in ListBuckets :
           /\ IsInjective(blocks[m])
           /\ \A j \in ListPlaces : j \in Range(blocks[m]) <=> h[<<p, <<m, j>>>>] = 0
  BY DEF ListPage
<1>2. /\ k \in Range(buckets) /\ k \in ListBuckets
      /\ Tail(buckets) \in Seq(ListBuckets) /\ Len(Tail(buckets)) = Len(buckets) - 1
      /\ Range(buckets) = Range(Tail(buckets)) \cup {k}
      /\ IsInjective(Tail(buckets)) /\ k \notin Range(Tail(buckets))
  BY <1>1, PopFront
<1>3. blocks[k] \in Seq(ListPlaces) /\ blocks[k] # <<>> /\ IsInjective(blocks[k])
  BY <1>1, <1>2
<1>4. /\ i \in Range(blocks[k]) /\ i \in ListPlaces /\ left \in Seq(ListPlaces)
      /\ Range(blocks[k]) = Range(left) \cup {i}
      /\ IsInjective(left) /\ i \notin Range(left)
  BY <1>3, PopFront
<1>5. b = <<p, <<k, i>>>>
  OBVIOUS
<1> HIDE DEF i
<1>6. b \in ListBlocks /\ h[b] = 0
  BY <1>1, <1>2, <1>4, <1>5 DEF ListBlocks
<1>7. h1[b] = 1 /\ \A c \in ListBlocks : c # b => h1[c] = h[c]
  BY <1>6
<1>8. /\ blocks1 \in [ListBuckets -> Seq(ListPlaces)] /\ blocks1[k] = left
      /\ \A m \in ListBuckets : m # k => blocks1[m] = blocks[m]
  BY <1>1, <1>2, <1>4
<1> HIDE DEF h1, blocks1
<1>9. ASSUME NEW m \in ListBuckets, NEW j \in ListPlaces
      PROVE  j \in Range(blocks1[m]) <=> h1[<<p, <<m, j>>>>] = 0
  <2>1. /\ <<p, <<m, j>>>> \in ListBlocks
        /\ <<p, <<m, j>>>> = b <=> m = k /\ j = i
    BY <1>5 DEF ListBlocks
  <2>2. j \in Range(blocks[m]) <=> h[<<p, <<m, j>>>>] = 0
    BY <1>1
  <2>3. CASE m = k /\ j = i
    <3>1. h1[<<p, <<m, j>>>>] = 1
      BY <1>7, <2>1, <2>3
    <3>2. j \notin Range(blocks1[m])
      BY <1>4, <1>8, <2>3
    <3> QED
      BY <3>1, <3>2
  <2>4. CASE m = k /\ j # i
    BY <1>4, <1>7, <1>8, <2>1, <2>2, <2>4
  <2>5. CASE m # k
    BY <1>7, <1>8, <2>1, <2>2, <2>5
  <2> QED
    BY <2>3, <2>4, <2>5
<1>10. \A m \in ListBuckets : IsInjective(blocks1[m])
  BY <1>1, <1>4, <1>8
<1>11. Len(buckets) \in Nat /\ SubPageCount \in Nat
  BY <1>1, SubPageAssumption
<1>12. CASE left = <<>>
  <2>1. \A m \in ListBuckets : m \in Range(Tail(buckets)) <=> blocks1[m] # <<>>
    BY <1>1, <1>2, <1>8, <1>12
  <2>2. n + 1 = SubPageCount - Len(Tail(buckets))
    BY <1>1, <1>2, <1>11
  <2>3. ListPage(p, n + 1, Tail(buckets), blocks1, h1)
    BY <1>2, <1>8, <1>9, <1>10, <2>1, <2>2 DEF ListPage
  <2> QED
    BY <1>2, <1>6, <1>12, <2>3 DEF blocks1, h1
<1>13. CASE left # <<>>
  <2>1. \A m \in ListBuckets : m \in Range(buckets) <=> blocks1[m] # <<>>
    BY <1>1, <1>2, <1>8, <1>13
  <2>2. ListPage(p, n, buckets, blocks1, h1)
    BY <1>1, <1>8, <1>9, <1>10, <2>1 DEF ListPage
  <2> QED
    BY <1>2, <1>6, <1>13, <2>2 DEF blocks1, h1
<1> QED
  BY <1>12, <1>13

\* Block i of bucket k of page p.
ListBlock(p, k, i) == <<p, <<k, i>>>>

\* What free does to a page: its count, the list of its buckets and those of their blocks.
ListFreed(k, i, b, n, buckets, blocks, h, n1, buckets1, blocks1, h1) ==
  /\ h[b] = 1 /\ h1 = [h EXCEPT ![b] = @ - 1]
  /\ n1 = IF blocks[k] = <<>> THEN n - 1 ELSE n
  /\ buckets1 = IF blocks[k] = <<>> THEN <<k>> \o buckets ELSE buckets
  /\ blocks1 = [blocks EXCEPT ![k] = <<i>> \o @]

\* free puts the block in front of its bucket's list, and a bucket that was full in front
\* of its page's.
LEMMA ListFree ==
  ASSUME NEW p \in Pages, NEW n, NEW buckets, NEW blocks, NEW h \in [ListBlocks -> {0, 1}],
         ListPage(p, n, buckets, blocks, h),
         NEW k \in ListBuckets, NEW i \in ListPlaces, NEW b, b = ListBlock(p, k, i),
         NEW n1, NEW buckets1, NEW blocks1, NEW h1,
         ListFreed(k, i, b, n, buckets, blocks, h, n1, buckets1, blocks1, h1)
  PROVE  ListPage(p, n1, buckets1, blocks1, h1)
<1> DEFINE more == <<i>> \o blocks[k]
<1>0. /\ h[b] = 1 /\ h1 = [h EXCEPT ![b] = @ - 1]
      /\ n1 = IF blocks[k] = <<>> THEN n - 1 ELSE n
      /\ buckets1 = IF blocks[k] = <<>> THEN <<k>> \o buckets ELSE buckets
      /\ blocks1 = [blocks EXCEPT ![k] = more]
  BY DEF ListFreed
<1>1. /\ buckets \in Seq(ListBuckets) /\ IsInjective(buckets)
      /\ blocks \in [ListBuckets -> Seq(ListPlaces)]
      /\ \A m \in ListBuckets : m \in Range(buckets) <=> blocks[m] # <<>>
      /\ n = SubPageCount - Len(buckets)
      /\ \A m \in ListBuckets :
           /\ IsInjective(blocks[m])
           /\ \A j \in ListPlaces : j \in Range(blocks[m]) <=> h[<<p, <<m, j>>>>] = 0
  BY DEF ListPage
<1>5. b \in ListBlocks /\ b = <<p, <<k, i>>>>
  BY DEF ListBlocks, ListBlock
<1>2. blocks[k] \in Seq(ListPlaces) /\ IsInjective(blocks[k]) /\ i \notin Range(blocks[k])
  BY <1>0, <1>1, <1>5
<1>3. /\ more \in Seq(ListPlaces) /\ more # <<>> /\ IsInjective(more)
      /\ Range(more) = Range(blocks[k]) \cup {i}
  BY <1>2, PushFront
<1>4. /\ blocks1 \in [ListBuckets -> Seq(ListPlaces)] /\ blocks1[k] = more
      /\ \A m \in ListBuckets : m # k => blocks1[m] = blocks[m]
  <2> HIDE DEF more
  <2> QED
    BY <1>0, <1>1, <1>3
<1>6. h1[b] = 0 /\ \A c \in ListBlocks : c # b => h1[c] = h[c]
  BY <1>0, <1>5
<1> HIDE DEF more
<1>9. ASSUME NEW m \in ListBuckets, NEW j \in ListPlaces
      PROVE  j \in Range(blocks1[m]) <=> h1[<<p, <<m, j>>>>] = 0
  <2>1. /\ <<p, <<m, j>>>> \in ListBlocks
        /\ <<p, <<m, j>>>> = b <=> m = k /\ j = i
    BY <1>5 DEF ListBlocks
  <2>2. j \in Range(blocks[m]) <=> h[<<p, <<m, j>>>>] = 0
    BY <1>1
  <2>3. CASE m = k /\ j = i
    BY <1>3, <1>4, <1>6, <2>1, <2>3
  <2>4. CASE m = k /\ j # i
    BY <1>3, <1>4, <1>6, <2>1, <2>2, <2>4
  <2>5. CASE m # k
    BY <1>4, <1>6, <2>1, <2>2, <2>5
  <2> QED
    BY <2>3, <2>4, <2>5
<1>10. \A m \in ListBuckets : IsInjective(blocks1[m])
  BY <1>1, <1>3, <1>4
<1>11. Len(buckets) \in Nat /\ SubPageCount \in Nat
  BY <1>1, SubPageAssumption
<1>12. CASE blocks[k] = <<>>
  <2>1. k \notin Range(buckets)
    BY <1>1, <1>12
  <2>2. /\ buckets1 \in Seq(ListBuckets) /\ IsInjective(buckets1)
        /\ Range(buckets1) = Range(buckets) \cup {k} /\ Len(buckets1) = Len(buckets) + 1
    BY <1>0, <1>1, <1>12, <2>1, PushFront
  <2>3. \A m \in ListBuckets : m \in Range(buckets1) <=> blocks1[m] # <<>>
    BY <1>1, <1>3, <1>4, <2>2
  <2>4. n1 = SubPageCount - Len(buckets1)
    BY <1>0, <1>1, <1>11, <1>12, <2>2
  <2> QED
    BY <1>4, <1>9, <1>10, <2>2, <2>3, <2>4 DEF ListPage
<1>13. CASE blocks[k] # <<>>
  <2>1. \A m \in ListBuckets : m \in Range(buckets) <=> blocks1[m] # <<>>
    BY <1>1, <1>3, <1>4, <1>13
  <2>2. n1 = n /\ buckets1 = buckets
    BY <1>0, <1>13
  <2> QED
    BY <1>1, <1>4, <1>9, <1>10, <2>1, <2>2 DEF ListPage
<1> QED
  BY <1>12, <1>13

\* The invariant says what the runs check.
LEMMA ListInvImplies ==
  ASSUME ListInv
  PROVE  List!Consistent
<1>1. List!Blocks = ListBlocks /\ List!Mapped = Range(pageList)
  BY ListLists DEF List!Blocks, List!PageBlocks, List!SubPages, ListBlocks, ListBuckets, ListPlaces,
                   List!Mapped
<1>2. List!TypeOK
  BY <1>1 DEF List!TypeOK, ListInv, List!SubPages, ListBuckets, ListPlaces
<1>3. ASSUME NEW p \in Range(pageList)
      PROVE  /\ IsInjective(bucketList[p])
             /\ Range(bucketList[p]) = {k \in ListBuckets : blockList[p][k] # <<>>}
             /\ refCnt[p] = SubPageCount - Len(bucketList[p])
             /\ \A k \in ListBuckets :
                  /\ IsInjective(blockList[p][k])
                  /\ Range(blockList[p][k]) = {i \in ListPlaces : holders[<<p, <<k, i>>>>] = 0}
  <2>1. ListPage(p, refCnt[p], bucketList[p], blockList[p], holders)
    BY DEF ListInv
  <2>2. /\ Range(bucketList[p]) \in SUBSET ListBuckets
        /\ \A k \in ListBuckets : Range(blockList[p][k]) \in SUBSET ListPlaces
    BY <2>1, RangeOfList DEF ListPage
  <2> QED
    BY <2>1, <2>2 DEF ListPage
<1>4. List!ListsAreFree
  <2> SUFFICES ASSUME NEW p \in Range(pageList)
               PROVE  /\ IsInjective(bucketList[p])
                      /\ Range(bucketList[p]) = {k \in ListBuckets : blockList[p][k] # <<>>}
                      /\ refCnt[p] = SubPageCount - Len(bucketList[p])
                      /\ \A k \in ListBuckets :
                           /\ IsInjective(blockList[p][k])
                           /\ Range(blockList[p][k]) =
                                {i \in ListPlaces : holders[<<p, <<k, i>>>>] = 0}
    BY <1>1, ListLists DEF List!ListsAreFree, List!SubPages, ListBuckets, ListPlaces
  <2> QED
    BY <1>3
<1> QED
  BY <1>2, <1>4 DEF List!Consistent

\* It holds when there are no pages yet.
LEMMA ListInit ==
  ASSUME List!Init
  PROVE  ListInv /\ Range(pageList) = {} /\ holders \in [ListBlocks -> {0}]
<1>1. /\ pageList = <<>>
      /\ refCnt = [p \in Pages |-> 0] /\ bucketList = [p \in Pages |-> <<>>]
      /\ blockList = [p \in Pages |-> [k \in ListBuckets |-> <<>>]]
      /\ holders = [b \in ListBlocks |-> 0]
  BY DEF List!Init, List!Blocks, List!PageBlocks, List!SubPages, ListBlocks, ListBuckets, ListPlaces
<1>2. /\ <<>> \in Seq(Pages) /\ Range(<<>>) = {}
      /\ <<>> \in Seq(ListBuckets) /\ <<>> \in Seq(ListPlaces)
  BY DEF Range
<1>3. 0 \in 0 .. SubPageCount
  BY SubPageAssumption
<1>4. /\ refCnt \in [Pages -> 0 .. SubPageCount] /\ bucketList \in [Pages -> Seq(ListBuckets)]
      /\ holders \in [ListBlocks -> {0, 1}] /\ holders \in [ListBlocks -> {0}]
  BY <1>1, <1>2, <1>3
<1>5. blockList \in [Pages -> [ListBuckets -> Seq(ListPlaces)]]
  <2>1. [k \in ListBuckets |-> <<>>] \in [ListBuckets -> Seq(ListPlaces)]
    BY <1>2
  <2> QED
    BY <1>1, <2>1
<1>6. \A p \in Pages : ListUnused(p, holders)
  BY <1>1 DEF ListBlocks, ListUnused
<1> QED
  BY <1>1, <1>2, <1>4, <1>5, <1>6 DEF ListInv

\* One page has changed, and no block of another.
LEMMA ListOneChanged ==
  ASSUME ListInv, NEW p \in Pages, pageList' \in Seq(Pages),
         Range(pageList') = Range(pageList) \cup {p},
         NEW n, refCnt' = [refCnt EXCEPT ![p] = n],
         NEW buckets, bucketList' = [bucketList EXCEPT ![p] = buckets],
         NEW blocks, blockList' = [blockList EXCEPT ![p] = blocks],
         holders' \in [ListBlocks -> {0, 1}],
         ListPage(p, n, buckets, blocks, holders'),
         \A q \in Pages : q # p => ListSame(q, holders, holders')
  PROVE  ListInv'
<1>1. n \in 0 .. SubPageCount
  BY ListPageFree
<1>2. buckets \in Seq(ListBuckets) /\ blocks \in [ListBuckets -> Seq(ListPlaces)]
  BY DEF ListPage
<1>3. /\ refCnt' \in [Pages -> 0 .. SubPageCount] /\ bucketList' \in [Pages -> Seq(ListBuckets)]
      /\ blockList' \in [Pages -> [ListBuckets -> Seq(ListPlaces)]]
  BY <1>1, <1>2 DEF ListInv
<1>4. /\ refCnt'[p] = n /\ bucketList'[p] = buckets /\ blockList'[p] = blocks
      /\ \A q \in Pages : q # p => /\ refCnt'[q] = refCnt[q] /\ bucketList'[q] = bucketList[q]
                                   /\ blockList'[q] = blockList[q]
  BY DEF ListInv
<1>5. ASSUME NEW q \in Range(pageList')
      PROVE  ListPage(q, refCnt'[q], bucketList'[q], blockList'[q], holders')
  <2>1. CASE q = p
    BY <1>4, <2>1
  <2>2. CASE q # p
    <3>1. q \in Range(pageList) /\ q \in Pages
      BY <1>5, <2>2, RangeOfList
    <3>2. ListPage(q, refCnt[q], bucketList[q], blockList[q], holders)
      BY <3>1 DEF ListInv
    <3>3. ListPage(q, refCnt[q], bucketList[q], blockList[q], holders')
      BY <2>2, <3>1, <3>2, ListOtherPage
    <3> QED
      BY <1>4, <2>2, <3>1, <3>3
  <2> QED
    BY <2>1, <2>2
<1>6. ASSUME NEW q \in Pages \ Range(pageList') PROVE ListUnused(q, holders')
  <2>1. q # p /\ q \in Pages \ Range(pageList)
    OBVIOUS
  <2> QED
    BY <2>1 DEF ListInv, ListSame, ListUnused
<1> QED
  BY <1>3, <1>5, <1>6 DEF ListInv

\* Every step of ListPool preserves it, and is a step of an allocator.
LEMMA ListNext ==
  ASSUME ListInv, List!Next
  PROVE  ListInv' /\ AllocatorStep(Range(pageList), holders, Range(pageList'), holders')
<1> DEFINE Steps == ListInv' /\ AllocatorStep(Range(pageList), holders, Range(pageList'), holders')
<1>1. /\ pageList \in Seq(Pages) /\ holders \in [ListBlocks -> {0, 1}]
      /\ DOMAIN holders = ListBlocks
      /\ \A p \in Range(pageList) : ListPage(p, refCnt[p], bucketList[p], blockList[p], holders)
      /\ \A p \in Pages \ Range(pageList) : ListUnused(p, holders)
  BY DEF ListInv
<1>2. List!Blocks = ListBlocks /\ List!Mapped = Range(pageList)
  BY ListLists DEF List!Blocks, List!PageBlocks, List!SubPages, ListBlocks, ListBuckets, ListPlaces,
                   List!Mapped
<1>3. ASSUME NEW p \in Pages, NEW n, NEW buckets, NEW blocks,
             ListPage(p, n, buckets, blocks, holders), buckets # <<>>,
             List!AllocFromPage(p, n, buckets, blocks),
             NEW pages \in Seq(Pages), Range(pages) = Range(pageList) \cup {p},
             pageList' = List!FullToBack(p, pages)
      PROVE  Steps
  <2> DEFINE k == Head(buckets)
             left == Tail(blocks[k])
             b == <<p, <<k, Head(blocks[k])>>>>
             n1 == IF left = <<>> THEN n + 1 ELSE n
             buckets1 == IF left = <<>> THEN Tail(buckets) ELSE buckets
             blocks1 == [blocks EXCEPT ![k] = left]
  <2>1. /\ blockList' = [blockList EXCEPT ![p] = blocks1]
        /\ bucketList' = [bucketList EXCEPT ![p] = buckets1]
        /\ refCnt' = [refCnt EXCEPT ![p] = n1]
        /\ holders' = [holders EXCEPT ![b] = @ + 1]
    BY <1>3 DEF List!AllocFromPage, List!IsFull
  <2>2. /\ b \in ListBlocks /\ holders[b] = 0 /\ k \in ListBuckets
        /\ ListPage(p, n1, buckets1, blocks1, [holders EXCEPT ![b] = @ + 1])
    BY <1>1, <1>3, ListAlloc
  <2>3. b[1] = p
    OBVIOUS
  <2> HIDE DEF k, left, b, n1, buckets1, blocks1
  <2>4. holders' = [holders EXCEPT ![b] = 1]
    BY <1>1, <2>1, <2>2
  <2>5. holders' \in [ListBlocks -> {0, 1}]
    BY <1>1, <2>2, <2>4
  <2>6. \A q \in Pages : q # p => ListSame(q, holders, holders')
    BY <1>1, <2>2, <2>3, <2>4 DEF ListBlocks, ListSame
  <2>7. pageList' \in Seq(Pages) /\ Range(pageList') = Range(pageList) \cup {p}
    <3>1. ToBack(p, pages) \in Seq(Pages) /\ Range(ToBack(p, pages)) = Range(pages) \cup {p}
      BY <1>3, ToBackRange
    <3>2. pageList' = ToBack(p, pages) \/ pageList' = pages
      BY <1>3, ListLists DEF List!FullToBack
    <3> QED
      BY <1>3, <3>1, <3>2
  <2>8. ListPage(p, n1, buckets1, blocks1, holders')
    BY <2>1, <2>2
  <2>9. ListInv'
    BY <2>1, <2>5, <2>6, <2>7, <2>8, ListOneChanged
  <2> QED
    BY <1>1, <2>2, <2>3, <2>4, <2>7, <2>9 DEF AllocatorStep
<1>4. ASSUME NEW p \in Pages, List!MallocNewPage(p) PROVE Steps
  <2> DEFINE buckets == List!UpTo(SubPageCount)
             blocks == [k \in ListBuckets |-> List!UpTo(BucketSize)]
             pages == <<p>> \o pageList
  <2>1. /\ p \notin Range(pageList) /\ List!AllocFromPage(p, 0, buckets, blocks)
        /\ pageList' = List!FullToBack(p, pages)
    BY <1>2, <1>4 DEF List!MallocNewPage, List!SubPages, ListBuckets
  <2>2. ListPage(p, 0, buckets, blocks, holders)
    BY <1>1, <2>1, ListNewPage
  <2>3. pages \in Seq(Pages) /\ Range(pages) = Range(pageList) \cup {p}
    BY <1>1, PushFront
  <2>4. buckets # <<>>
    <3>1. 0 = SubPageCount - Len(buckets)
      BY <2>2 DEF ListPage
    <3>2. buckets = <<>> => Len(buckets) = 0
      OBVIOUS
    <3> QED
      BY <3>1, <3>2, SubPageAssumption
  <2> HIDE DEF buckets, blocks, pages
  <2> QED
    BY <1>3, <2>1, <2>2, <2>3, <2>4
<1>5. ASSUME List!MallocFromFront PROVE Steps
  <2> DEFINE p == Head(pageList)
  <2>1. /\ pageList # <<>> /\ bucketList[p] # <<>>
        /\ List!AllocFromPage(p, refCnt[p], bucketList[p], blockList[p])
        /\ pageList' = List!FullToBack(p, pageList)
    BY <1>5 DEF List!MallocFromFront, List!FrontFull
  <2>2. p \in Range(pageList) /\ p \in Pages
    BY <1>1, <2>1, PopFront
  <2> HIDE DEF p
  <2>3. Range(pageList) = Range(pageList) \cup {p}
    BY <2>2
  <2>4. ListPage(p, refCnt[p], bucketList[p], blockList[p], holders)
    BY <1>1, <2>2
  <2> QED
    BY <1>1, <1>3, <2>1, <2>2, <2>3, <2>4
<1>6. ASSUME NEW b \in ListBlocks, List!Free(b) PROVE Steps
  <2> DEFINE p == b[1]
             k == b[2][1]
             i == b[2][2]
             wasFull == blockList[p][k] = <<>>
             n1 == IF wasFull THEN refCnt[p] - 1 ELSE refCnt[p]
             buckets1 == IF wasFull THEN <<k>> \o bucketList[p] ELSE bucketList[p]
             blocks1 == [blockList[p] EXCEPT ![k] = <<i>> \o @]
  <2>1. /\ holders[b] > 0 /\ holders' = [holders EXCEPT ![b] = @ - 1]
        /\ blockList' = [blockList EXCEPT ![p][k] = <<i>> \o @]
        /\ bucketList' = IF wasFull THEN [bucketList EXCEPT ![p] = <<k>> \o @] ELSE bucketList
        /\ refCnt' = IF wasFull THEN [refCnt EXCEPT ![p] = @ - 1] ELSE refCnt
        /\ pageList' = IF refCnt'[p] = 0 THEN ToFront(p, pageList) ELSE pageList
    BY <1>6, ListLists DEF List!Free, List!IsFull
  <2>2. p \in Pages /\ k \in ListBuckets /\ i \in ListPlaces /\ b = <<p, <<k, i>>>>
    BY DEF ListBlocks
  <2> HIDE DEF p, k, i
  <2>3. holders[b] = 1
    BY <1>1, <2>1
  <2>4. p \in Range(pageList)
    BY <1>1, <2>2, <2>3 DEF ListUnused
  <2>5. ListPage(p, n1, buckets1, blocks1, [holders EXCEPT ![b] = @ - 1])
    <3>1. ListPage(p, refCnt[p], bucketList[p], blockList[p], holders)
      BY <1>1, <2>4
    <3>2. b = ListBlock(p, k, i)
      BY <2>2 DEF ListBlock
    <3>3. /\ p \in Pages /\ k \in ListBuckets /\ i \in ListPlaces
          /\ holders \in [ListBlocks -> {0, 1}] /\ holders[b] = 1
      BY <1>1, <2>2, <2>3
    <3>4. ListFreed(k, i, b, refCnt[p], bucketList[p], blockList[p], holders,
                    n1, buckets1, blocks1, [holders EXCEPT ![b] = @ - 1])
      BY <2>3 DEF ListFreed
    <3> HIDE DEF n1, buckets1, blocks1
    <3> QED
      BY <3>1, <3>2, <3>3, <3>4, ListFree
  <2>6. /\ blockList' = [blockList EXCEPT ![p] = blocks1]
        /\ bucketList' = [bucketList EXCEPT ![p] = buckets1]
        /\ refCnt' = [refCnt EXCEPT ![p] = n1]
    <3>1. blockList' = [blockList EXCEPT ![p] = blocks1]
      BY <2>1, <2>2 DEF ListInv
    <3>2. bucketList' = [bucketList EXCEPT ![p] = buckets1]
      BY <2>1, <2>2 DEF ListInv
    <3>3. refCnt' = [refCnt EXCEPT ![p] = n1]
      BY <2>1, <2>2 DEF ListInv
    <3> QED
      BY <3>1, <3>2, <3>3
  <2> HIDE DEF n1, buckets1, blocks1
  <2>7. holders' = [holders EXCEPT ![b] = 0] /\ holders' \in [ListBlocks -> {0, 1}]
    BY <1>1, <2>1, <2>3
  <2>8. \A q \in Pages : q # p => ListSame(q, holders, holders')
    BY <1>1, <2>2, <2>7 DEF ListBlocks, ListSame
  <2>9. /\ pageList' \in Seq(Pages) /\ Range(pageList') = Range(pageList)
        /\ Range(pageList') = Range(pageList) \cup {p}
    <3>1. ToFront(p, pageList) \in Seq(Pages) /\ Range(ToFront(p, pageList)) = Range(pageList) \cup {p}
      BY <1>1, <2>2, ToFrontRange
    <3>2. pageList' = ToFront(p, pageList) \/ pageList' = pageList
      BY <2>1
    <3> QED
      BY <1>1, <2>4, <3>1, <3>2
  <2>10. ListPage(p, n1, buckets1, blocks1, holders')
    BY <2>1, <2>5
  <2>11. ListInv'
    BY <2>2, <2>6, <2>7, <2>8, <2>9, <2>10, ListOneChanged
  <2> QED
    BY <1>1, <2>3, <2>7, <2>9, <2>11 DEF AllocatorStep
<1>7. ASSUME List!ReleaseMemory PROVE Steps
  <2> DEFINE S == {p \in Range(pageList) : List!IsFree(p)}
  <2>1. /\ pageList' = Without(pageList, S) /\ refCnt' = refCnt /\ bucketList' = bucketList
        /\ blockList' = blockList /\ holders' = holders
    BY <1>2, <1>7, ListLists DEF List!ReleaseMemory
  <2>2. pageList' \in Seq(Pages) /\ Range(pageList') = Range(pageList) \ S
    BY <1>1, <2>1, WithoutRange
  <2>3. S \in SUBSET Range(pageList) /\ \A p \in S : ListUnused(p, holders)
    <3> SUFFICES ASSUME NEW p \in S PROVE ListUnused(p, holders)
      OBVIOUS
    <3>1. ListPage(p, refCnt[p], bucketList[p], blockList[p], holders)
      BY <1>1
    <3>2. /\ Len(bucketList[p]) = SubPageCount
          /\ \A j \in DOMAIN bucketList[p] : Len(blockList[p][bucketList[p][j]]) = BucketSize
      BY DEF List!IsFree
    <3> QED
      BY <3>1, <3>2, ListPageFree
  <2> HIDE DEF S
  <2>4. ListInv'
    BY <2>1, <2>2, <2>3 DEF ListInv
  <2>5. \A b \in ListBlocks : b[1] \in S => holders[b] = 0
    BY <2>3 DEF ListBlocks, ListUnused
  <2>6. AllocatorStep(Range(pageList), holders, Range(pageList'), holders')
    BY <1>1, <2>1, <2>2, <2>3, <2>5 DEF AllocatorStep
  <2> QED
    BY <2>4, <2>6
<1> QED
  BY <1>2, <1>4, <1>5, <1>6, <1>7 DEF List!Next

\* release_memory gives back the pages without blocks in use, and no other.
LEMMA ListReleaseComplete ==
  ASSUME ListInv
  PROVE  List!ReleaseComplete
<1> SUFFICES ASSUME List!ReleaseMemory PROVE Range(pageList') = List!UsedPages
  BY ListLists DEF List!ReleaseComplete
<1> DEFINE S == {p \in Range(pageList) : List!IsFree(p)}
<1>1. /\ pageList \in Seq(Pages) /\ holders \in [ListBlocks -> {0, 1}]
      /\ \A p \in Range(pageList) : ListPage(p, refCnt[p], bucketList[p], blockList[p], holders)
      /\ \A p \in Pages \ Range(pageList) : ListUnused(p, holders)
  BY DEF ListInv
<1>2. List!Blocks = ListBlocks /\ List!Mapped = Range(pageList)
  BY ListLists DEF List!Blocks, List!PageBlocks, List!SubPages, ListBlocks, ListBuckets, ListPlaces,
                   List!Mapped
<1>3. pageList' = Without(pageList, S)
  BY <1>2, ListLists DEF List!ReleaseMemory
<1>4. Range(pageList') = Range(pageList) \ S
  BY <1>1, <1>3, WithoutRange
<1>5. ASSUME NEW p \in Pages
      PROVE  p \in List!UsedPages <=> ~ListUnused(p, holders)
  <2>1. ASSUME p \in List!UsedPages PROVE ~ListUnused(p, holders)
    <3>1. PICK b \in ListBlocks : holders[b] > 0 /\ b[1] = p
      BY <1>2, <2>1 DEF List!UsedPages
    <3>2. /\ b[2][1] \in ListBuckets /\ b[2][2] \in ListPlaces
          /\ b = <<p, <<b[2][1], b[2][2]>>>>
      BY <3>1 DEF ListBlocks
    <3>3. holders[<<p, <<b[2][1], b[2][2]>>>>] # 0
      BY <1>1, <3>1, <3>2
    <3> QED
      BY <3>2, <3>3 DEF ListUnused
  <2>2. ASSUME ~ListUnused(p, holders) PROVE p \in List!UsedPages
    <3>1. PICK k \in ListBuckets, i \in ListPlaces : holders[<<p, <<k, i>>>>] # 0
      BY <2>2 DEF ListUnused
    <3>2. <<p, <<k, i>>>> \in ListBlocks /\ <<p, <<k, i>>>>[1] = p
      BY DEF ListBlocks
    <3>3. holders[<<p, <<k, i>>>>] > 0
      BY <1>1, <3>1, <3>2
    <3> QED
      BY <1>2, <3>2, <3>3 DEF List!UsedPages
  <2> QED
    BY <2>1, <2>2
<1>6. ASSUME NEW p \in Range(pageList) PROVE List!IsFree(p) <=> ListUnused(p, holders)
  <2>1. ListPage(p, refCnt[p], bucketList[p], blockList[p], holders)
    BY <1>1
  <2> QED
    BY <2>1, ListPageFree DEF List!IsFree
<1>7. \A p \in Range(pageList) : p \in Pages
  BY <1>1, RangeOfList
<1>8. List!UsedPages \subseteq Pages
  BY <1>2 DEF List!UsedPages, ListBlocks
<1> QED
  BY <1>1, <1>4, <1>5, <1>6, <1>7, <1>8

-----------------------------------------------------------------------------
(***************************************************************************)
(* BucketPool.  A page p of bucket k, with the list of its free blocks and *)
(* how many are in use.                                                    *)
(***************************************************************************)
BucketMost == Bucket!Max(Range(ElemCounts))
BucketNumbers == 1 .. BucketMost
BucketBlocks == Pages \X BucketNumbers
BucketUsed(p, h) == {i \in BucketNumbers : h[<<p, i>>] # 0}

BucketPage(p, k, free, n, h) ==
  /\ free \in Seq(BucketNumbers) /\ IsInjective(free)
  /\ \A i \in BucketNumbers : /\ i \in Range(free) <=> i <= ElemCounts[k] /\ h[<<p, i>>] = 0
                              /\ h[<<p, i>>] # 0 => i <= ElemCounts[k]
  /\ n = Cardinality(BucketUsed(p, h))

\* The full pages, by the lists of their free blocks.
BucketFull(free) == {p \in Pages : free[p] = <<>>}

\* The blocks of page p are handed out alike.
BucketSame(p, h, h1) == \A i \in BucketNumbers : h1[<<p, i>>] = h[<<p, i>>]

\* The invariant of BucketPool.
BucketInv ==
  /\ pageLists \in [DOMAIN ElemCounts -> Seq(Pages)]
  /\ bucketOf \in [Pages -> DOMAIN ElemCounts]
  /\ elemFree \in [Pages -> Seq(BucketNumbers)]
  /\ refCnt \in [Pages -> 0 .. BucketMost]
  /\ holders \in [BucketBlocks -> {0, 1}]
  /\ \A k \in DOMAIN ElemCounts :
       /\ IsInjective(pageLists[k]) /\ Behind(pageLists[k], BucketFull(elemFree))
       /\ \A p \in Range(pageLists[k]) :
            bucketOf[p] = k /\ BucketPage(p, k, elemFree[p], refCnt[p], holders)
  /\ \A p \in Pages :
       (\A k \in DOMAIN ElemCounts : p \notin Range(pageLists[k])) => BucketUsed(p, holders) = {}

\* A list of numbers that is not empty has a largest.
LEMMA LargestOfList ==
  ASSUME NEW s \in Seq(Nat), s # <<>>
  PROVE  \E x \in Range(s) : \A y \in Range(s) : x >= y
<1> DEFINE Good == {n \in Nat : n + 1 <= Len(s)
                                  => \E i \in 1 .. (n + 1) : \A j \in 1 .. (n + 1) : s[i] >= s[j]}
<1>1. Len(s) \in Nat /\ Len(s) >= 1 /\ \A i \in 1 .. Len(s) : s[i] \in Nat
  OBVIOUS
<1>2. 0 \in Good
  BY <1>1
<1>3. ASSUME NEW n \in Good PROVE n + 1 \in Good
  <2> SUFFICES ASSUME (n + 1) + 1 <= Len(s)
               PROVE  \E i \in 1 .. ((n + 1) + 1) : \A j \in 1 .. ((n + 1) + 1) : s[i] >= s[j]
    OBVIOUS
  <2> DEFINE m == (n + 1) + 1
  <2>1. PICK i \in 1 .. (n + 1) : \A j \in 1 .. (n + 1) : s[i] >= s[j]
    BY <1>1
  <2>2. m \in 1 .. Len(s) /\ i \in 1 .. m /\ i \in 1 .. Len(s)
    BY <1>1
  <2>3. \A j \in 1 .. m : j = m \/ j \in 1 .. (n + 1)
    OBVIOUS
  <2>4. \A j \in 1 .. m : j \in 1 .. Len(s)
    BY <2>2
  <2> HIDE DEF m
  <2>5. CASE s[i] >= s[m]
    <3>1. \A j \in 1 .. m : s[i] >= s[j]
      BY <2>1, <2>3, <2>5
    <3> QED
      BY <2>2, <3>1 DEF m
  <2>6. CASE ~(s[i] >= s[m])
    <3>1. ASSUME NEW j \in 1 .. m PROVE s[m] >= s[j]
      <4>1. s[m] \in Nat /\ s[i] \in Nat /\ s[j] \in Nat
        BY <1>1, <2>2, <2>4
      <4>2. CASE j = m
        BY <4>1, <4>2
      <4>3. CASE j # m
        <5>1. s[i] >= s[j]
          BY <2>1, <2>3, <4>3
        <5> QED
          BY <2>6, <4>1, <5>1
      <4> QED
        BY <4>2, <4>3
    <3>2. m \in 1 .. m
      BY <1>1, <2>2
    <3> QED
      BY <3>1, <3>2 DEF m
  <2> QED
    BY <2>5, <2>6
<1>4. Good = Nat
  <2> HIDE DEF Good
  <2>1. Good \in SUBSET Nat
    BY DEF Good
  <2> QED
    BY <1>2, <1>3, <2>1, SetInduction
<1>5. Len(s) - 1 \in Nat /\ (Len(s) - 1) + 1 = Len(s)
  BY <1>1
<1>6. PICK i \in 1 .. Len(s) : \A j \in 1 .. Len(s) : s[i] >= s[j]
  <2>1. Len(s) - 1 \in Good
    <3> HIDE DEF Good
    <3> QED
      BY <1>4, <1>5
  <2> QED
    BY <1>1, <1>5, <2>1
<1>7. s[i] \in Range(s) /\ \A y \in Range(s) : s[i] >= y
  BY <1>6 DEF Range
<1> QED
  BY <1>7

\* The places in a page are enough for the blocks of any bucket.
LEMMA BucketCounts ==
  /\ BucketMost \in Nat /\ BucketMost > 0
  /\ \A k \in DOMAIN ElemCounts : ElemCounts[k] \in 1 .. BucketMost
  /\ 1 \in DOMAIN ElemCounts
<1>1. /\ ElemCounts \in Seq(Nat) /\ ElemCounts # <<>>
      /\ \A k \in DOMAIN ElemCounts : ElemCounts[k] \in Nat \ {0}
  BY ElemCountsAssumption
<1>2. \E x \in Range(ElemCounts) : \A y \in Range(ElemCounts) : x >= y
  BY <1>1, LargestOfList
<1>3. BucketMost \in Range(ElemCounts) /\ \A y \in Range(ElemCounts) : BucketMost >= y
  BY <1>2 DEF BucketMost, Bucket!Max
<1>4. \A k \in DOMAIN ElemCounts : ElemCounts[k] \in Range(ElemCounts)
  BY DEF Range
<1>5. BucketMost \in Nat \ {0}
  BY <1>1, <1>3 DEF Range
<1>6. 1 \in DOMAIN ElemCounts
  BY <1>1
<1> QED
  BY <1>1, <1>3, <1>4, <1>5, <1>6

\* What the module of the pool calls these.
LEMMA BucketNames ==
  /\ Bucket!PageBlocks = BucketNumbers /\ Bucket!Blocks = BucketBlocks
  /\ Bucket!Buckets = DOMAIN ElemCounts /\ Bucket!Max(BucketNumbers) = BucketMost
  /\ Bucket!Mapped = UNION {Range(pageLists[k]) : k \in DOMAIN ElemCounts}
  /\ \A p : p \in Bucket!Mapped <=> \E k \in DOMAIN ElemCounts : p \in Range(pageLists[k])
  /\ \A p : Bucket!UsedIn(p) = BucketUsed(p, holders)
<1>1. Bucket!PageBlocks = BucketNumbers
  <2>1. Bucket!Range(ElemCounts) = Range(ElemCounts)
    BY BucketLists
  <2> QED
    BY <2>1, Zenon DEF Bucket!PageBlocks, BucketNumbers, BucketMost
<1>2. Bucket!Blocks = BucketBlocks
  BY <1>1, Zenon DEF Bucket!Blocks, BucketBlocks
<1>3. Bucket!Max(BucketNumbers) = BucketMost
  <2>1. /\ BucketMost \in BucketNumbers /\ \A y \in BucketNumbers : BucketMost >= y
        /\ \A x \in BucketNumbers : (\A y \in BucketNumbers : x >= y) => x = BucketMost
    BY BucketCounts DEF BucketNumbers
  <2> QED
    BY <2>1 DEF Bucket!Max
<1>4. Bucket!Buckets = DOMAIN ElemCounts
  BY DEF Bucket!Buckets
<1>5. \A k : Bucket!Range(pageLists[k]) = Range(pageLists[k])
  BY BucketLists
<1>6. Bucket!Mapped = UNION {Range(pageLists[k]) : k \in DOMAIN ElemCounts}
  BY <1>4, <1>5 DEF Bucket!Mapped
<1>7. \A p : p \in Bucket!Mapped <=> \E k \in DOMAIN ElemCounts : p \in Range(pageLists[k])
  BY <1>6
<1>8. \A p : Bucket!UsedIn(p) = BucketUsed(p, holders)
  BY <1>1 DEF Bucket!UsedIn, BucketUsed
<1> QED
  BY <1>1, <1>2, <1>3, <1>4, <1>6, <1>7, <1>8

\* The count of a page is in range, and a page without blocks in use has count zero and
\* a free block.
LEMMA BucketPageCount ==
  ASSUME NEW p, NEW k \in DOMAIN ElemCounts, NEW free, NEW n, NEW h, BucketPage(p, k, free, n, h)
  PROVE  /\ n \in 0 .. BucketMost /\ IsFiniteSet(BucketUsed(p, h))
         /\ n = 0 <=> BucketUsed(p, h) = {}
         /\ n = 0 => free # <<>>
<1>1. BucketMost \in Nat /\ ElemCounts[k] \in 1 .. BucketMost
  BY BucketCounts
<1>2. BucketUsed(p, h) \in SUBSET BucketNumbers
  BY DEF BucketUsed
<1>3. IsFiniteSet(BucketNumbers) /\ Cardinality(BucketNumbers) = BucketMost
  BY <1>1, FS_Interval DEF BucketNumbers
<1>4. IsFiniteSet(BucketUsed(p, h)) /\ Cardinality(BucketUsed(p, h)) <= BucketMost
  BY <1>2, <1>3, FS_Subset
<1>5. Cardinality(BucketUsed(p, h)) \in Nat /\ n = Cardinality(BucketUsed(p, h))
  BY <1>4, FS_CardinalityType DEF BucketPage
<1>6. n = 0 <=> BucketUsed(p, h) = {}
  BY <1>4, <1>5, FS_EmptySet
<1>7. n = 0 => free # <<>>
  <2> SUFFICES ASSUME n = 0 PROVE free # <<>>
    OBVIOUS
  <2>1. 1 \in BucketNumbers /\ 1 <= ElemCounts[k]
    BY <1>1 DEF BucketNumbers
  <2>2. h[<<p, 1>>] = 0
    BY <1>6, <2>1 DEF BucketUsed
  <2>3. 1 \in Range(free)
    BY <2>1, <2>2 DEF BucketPage
  <2> QED
    BY <2>3 DEF Range
<1> QED
  BY <1>1, <1>4, <1>5, <1>6, <1>7

\* A page sees only its own blocks.
LEMMA BucketOtherPage ==
  ASSUME NEW p, NEW k, NEW free, NEW n, NEW h, BucketPage(p, k, free, n, h),
         NEW h1, BucketSame(p, h, h1)
  PROVE  BucketPage(p, k, free, n, h1)
<1>1. BucketUsed(p, h1) = BucketUsed(p, h)
  BY DEF BucketUsed, BucketSame
<1> QED
  BY <1>1 DEF BucketPage, BucketSame

\* bucket_grow: the blocks of a new page are all free.
LEMMA BucketNewPage ==
  ASSUME NEW p, NEW k \in DOMAIN ElemCounts, NEW h, BucketUsed(p, h) = {}
  PROVE  /\ BucketPage(p, k, [i \in 1 .. ElemCounts[k] |-> i], 0, h)
         /\ [i \in 1 .. ElemCounts[k] |-> i] # <<>>
<1> DEFINE free == [i \in 1 .. ElemCounts[k] |-> i]
<1>1. BucketMost \in Nat /\ ElemCounts[k] \in 1 .. BucketMost
  BY BucketCounts
<1>2. /\ free \in Seq(BucketNumbers) /\ Len(free) = ElemCounts[k]
      /\ DOMAIN free = 1 .. ElemCounts[k] /\ \A i \in 1 .. ElemCounts[k] : free[i] = i
  <2>1. free \in [1 .. ElemCounts[k] -> BucketNumbers] /\ ElemCounts[k] \in Nat
    BY <1>1 DEF BucketNumbers
  <2> QED
    BY <2>1
<1> HIDE DEF free
<1>3. IsInjective(free) /\ Range(free) = 1 .. ElemCounts[k]
  BY <1>2 DEF IsInjective, Range
<1>4. \A i \in BucketNumbers : h[<<p, i>>] = 0
  BY DEF BucketUsed
<1>5. \A i \in BucketNumbers : i \in 1 .. ElemCounts[k] <=> i <= ElemCounts[k]
  BY <1>1 DEF BucketNumbers
<1>6. BucketPage(p, k, free, 0, h)
  BY <1>2, <1>3, <1>4, <1>5, FS_EmptySet DEF BucketPage
<1>7. free # <<>>
  BY <1>1, <1>2
<1> QED
  BY <1>6, <1>7 DEF free

\* What alloc takes from page p of the free blocks free.
BucketTaken(p, b, free, n, h, free1, n1, h1) ==
  /\ b = <<p, Head(free)>> /\ h1 = [h EXCEPT ![b] = @ + 1]
  /\ free1 = Tail(free) /\ n1 = n + 1

\* bucket::alloc hands out the first free block of the page.
LEMMA BucketAlloc ==
  ASSUME NEW p \in Pages, NEW k \in DOMAIN ElemCounts, NEW free, NEW n,
         NEW h \in [BucketBlocks -> {0, 1}], BucketPage(p, k, free, n, h), free # <<>>,
         NEW b, NEW free1, NEW n1, NEW h1, BucketTaken(p, b, free, n, h, free1, n1, h1)
  PROVE  b \in BucketBlocks /\ b[1] = p /\ h[b] = 0 /\ BucketPage(p, k, free1, n1, h1)
<1> DEFINE i == Head(free)
<1>1. /\ free \in Seq(BucketNumbers) /\ IsInjective(free)
      /\ \A j \in BucketNumbers : /\ j \in Range(free) <=> j <= ElemCounts[k] /\ h[<<p, j>>] = 0
                                  /\ h[<<p, j>>] # 0 => j <= ElemCounts[k]
      /\ n = Cardinality(BucketUsed(p, h))
  BY DEF BucketPage
<1>2. /\ b = <<p, i>> /\ h1 = [h EXCEPT ![b] = @ + 1] /\ free1 = Tail(free) /\ n1 = n + 1
  BY DEF BucketTaken
<1>3. /\ i \in Range(free) /\ i \in BucketNumbers /\ free1 \in Seq(BucketNumbers)
      /\ Range(free) = Range(free1) \cup {i} /\ IsInjective(free1) /\ i \notin Range(free1)
  BY <1>1, <1>2, PopFront
<1> HIDE DEF i
<1>4. b \in BucketBlocks /\ b[1] = p /\ h[b] = 0 /\ i <= ElemCounts[k]
  BY <1>1, <1>2, <1>3 DEF BucketBlocks
<1>5. h1[b] = 1 /\ \A c \in BucketBlocks : c # b => h1[c] = h[c]
  BY <1>2, <1>4
<1>6. \A j \in BucketNumbers : <<p, j>> \in BucketBlocks /\ (<<p, j>> = b <=> j = i)
  BY <1>2 DEF BucketBlocks
<1>7. h1[<<p, i>>] = 1 /\ \A j \in BucketNumbers : j # i => h1[<<p, j>>] = h[<<p, j>>]
  BY <1>2, <1>5, <1>6
<1>8. BucketUsed(p, h1) = BucketUsed(p, h) \cup {i} /\ i \notin BucketUsed(p, h)
  <2>1. h[<<p, i>>] = 0
    BY <1>1, <1>3
  <2>2. \A j \in BucketNumbers : h1[<<p, j>>] # 0 <=> j = i \/ h[<<p, j>>] # 0
    BY <1>7
  <2> QED
    BY <1>3, <2>1, <2>2 DEF BucketUsed
<1>9. n1 = Cardinality(BucketUsed(p, h1))
  <2>1. IsFiniteSet(BucketUsed(p, h))
    BY BucketPageCount
  <2> QED
    BY <1>1, <1>2, <1>8, <2>1, FS_AddElement
<1>10. ASSUME NEW j \in BucketNumbers
       PROVE  /\ j \in Range(free1) <=> j <= ElemCounts[k] /\ h1[<<p, j>>] = 0
              /\ h1[<<p, j>>] # 0 => j <= ElemCounts[k]
  BY <1>1, <1>3, <1>4, <1>7
<1>11. BucketPage(p, k, free1, n1, h1)
  BY <1>3, <1>9, <1>10 DEF BucketPage
<1> QED
  BY <1>4, <1>11

\* What free gives back to page p.
BucketPut(p, i, b, free, n, h, free1, n1, h1) ==
  /\ b = <<p, i>> /\ h1 = [h EXCEPT ![b] = @ - 1]
  /\ free1 = <<i>> \o free /\ n1 = n - 1

\* bucket::free puts the block in front of the page's free blocks.
LEMMA BucketFree ==
  ASSUME NEW p \in Pages, NEW k \in DOMAIN ElemCounts, NEW free, NEW n,
         NEW h \in [BucketBlocks -> {0, 1}], BucketPage(p, k, free, n, h),
         NEW i \in BucketNumbers, NEW b, h[b] = 1,
         NEW free1, NEW n1, NEW h1, BucketPut(p, i, b, free, n, h, free1, n1, h1)
  PROVE  BucketPage(p, k, free1, n1, h1) /\ free1 # <<>>
<1>1. /\ free \in Seq(BucketNumbers) /\ IsInjective(free)
      /\ \A j \in BucketNumbers : /\ j \in Range(free) <=> j <= ElemCounts[k] /\ h[<<p, j>>] = 0
                                  /\ h[<<p, j>>] # 0 => j <= ElemCounts[k]
      /\ n = Cardinality(BucketUsed(p, h))
  BY DEF BucketPage
<1>2. /\ b = <<p, i>> /\ h1 = [h EXCEPT ![b] = @ - 1] /\ free1 = <<i>> \o free /\ n1 = n - 1
  BY DEF BucketPut
<1>3. h[<<p, i>>] = 1 /\ i \notin Range(free) /\ i <= ElemCounts[k]
  BY <1>1, <1>2
<1>4. /\ free1 \in Seq(BucketNumbers) /\ free1 # <<>> /\ IsInjective(free1)
      /\ Range(free1) = Range(free) \cup {i}
  BY <1>1, <1>2, <1>3, PushFront
<1>5. b \in BucketBlocks
  BY <1>2 DEF BucketBlocks
<1>6. h1[b] = 0 /\ \A c \in BucketBlocks : c # b => h1[c] = h[c]
  BY <1>2, <1>5
<1>7. \A j \in BucketNumbers : <<p, j>> \in BucketBlocks /\ (<<p, j>> = b <=> j = i)
  BY <1>2 DEF BucketBlocks
<1>8. h1[<<p, i>>] = 0 /\ \A j \in BucketNumbers : j # i => h1[<<p, j>>] = h[<<p, j>>]
  BY <1>2, <1>6, <1>7
<1>9. BucketUsed(p, h1) = BucketUsed(p, h) \ {i} /\ i \in BucketUsed(p, h)
  BY <1>3, <1>8 DEF BucketUsed
<1>10. n1 = Cardinality(BucketUsed(p, h1))
  <2>1. IsFiniteSet(BucketUsed(p, h))
    BY BucketPageCount
  <2> QED
    <3>1. Cardinality(BucketUsed(p, h) \ {i}) = n - 1
      BY <1>1, <1>9, <2>1, FS_RemoveElement
    <3> QED
      BY <1>2, <1>9, <3>1, Zenon
<1>11. ASSUME NEW j \in BucketNumbers
       PROVE  /\ j \in Range(free1) <=> j <= ElemCounts[k] /\ h1[<<p, j>>] = 0
              /\ h1[<<p, j>>] # 0 => j <= ElemCounts[k]
  BY <1>1, <1>3, <1>4, <1>8
<1>12. BucketPage(p, k, free1, n1, h1)
  BY <1>4, <1>10, <1>11 DEF BucketPage
<1> QED
  BY <1>4, <1>12

\* A page that has room may be in front of the full ones.
LEMMA BehindFront ==
  ASSUME NEW T, NEW s \in Seq(T), NEW p \in T, p \notin Range(s), NEW S, Behind(s, S)
  PROVE  Behind(<<p>> \o s, S \ {p})
<1> DEFINE t == <<p>> \o s
<1>1. /\ Len(t) = Len(s) + 1 /\ t[1] = p /\ Len(s) \in Nat
      /\ \A i \in 1 .. Len(t) : i # 1 => t[i] = s[i - 1]
  BY PushFront
<1>2. \A i \in 1 .. Len(s) : s[i] # p
  BY RangeOfList
<1> HIDE DEF t
<1>3. ASSUME NEW i \in 1 .. Len(t), NEW j \in 1 .. Len(t), i < j, t[i] \in S \ {p}
      PROVE  t[j] \in S \ {p}
  <2>1. i # 1 /\ j # 1
    BY <1>1, <1>3
  <2>2. i - 1 \in 1 .. Len(s) /\ j - 1 \in 1 .. Len(s) /\ i - 1 < j - 1
    BY <1>1, <1>3, <2>1
  <2>3. t[i] = s[i - 1] /\ t[j] = s[j - 1]
    BY <1>1, <2>1
  <2> QED
    BY <1>2, <1>3, <2>2, <2>3 DEF Behind
<1> QED
  BY <1>3 DEF Behind, t

\* One page, of bucket k, has changed, and no block of another.
LEMMA BucketOneChanged ==
  ASSUME BucketInv, NEW k \in DOMAIN ElemCounts, NEW p \in Pages,
         \A m \in DOMAIN ElemCounts : m # k => p \notin Range(pageLists[m]),
         NEW pages \in Seq(Pages), IsInjective(pages), Range(pages) = Range(pageLists[k]) \cup {p},
         pageLists' = [pageLists EXCEPT ![k] = pages],
         bucketOf' = [bucketOf EXCEPT ![p] = k],
         NEW free, elemFree' = [elemFree EXCEPT ![p] = free],
         NEW n, refCnt' = [refCnt EXCEPT ![p] = n],
         holders' \in [BucketBlocks -> {0, 1}],
         BucketPage(p, k, free, n, holders'),
         \A q \in Pages : q # p => BucketSame(q, holders, holders'),
         Behind(pages, BucketFull(elemFree'))
  PROVE  /\ BucketInv'
         /\ UNION {Range(pageLists'[m]) : m \in DOMAIN ElemCounts} =
              (UNION {Range(pageLists[m]) : m \in DOMAIN ElemCounts}) \cup {p}
<1>1. /\ pageLists \in [DOMAIN ElemCounts -> Seq(Pages)]
      /\ bucketOf \in [Pages -> DOMAIN ElemCounts]
      /\ elemFree \in [Pages -> Seq(BucketNumbers)]
      /\ refCnt \in [Pages -> 0 .. BucketMost]
      /\ \A m \in DOMAIN ElemCounts :
           /\ IsInjective(pageLists[m]) /\ Behind(pageLists[m], BucketFull(elemFree))
           /\ \A q \in Range(pageLists[m]) :
                bucketOf[q] = m /\ BucketPage(q, m, elemFree[q], refCnt[q], holders)
      /\ \A q \in Pages : (\A m \in DOMAIN ElemCounts : q \notin Range(pageLists[m]))
                            => BucketUsed(q, holders) = {}
  BY DEF BucketInv
<1>2. free \in Seq(BucketNumbers) /\ n \in 0 .. BucketMost
  <2>1. n \in 0 .. BucketMost
    BY BucketPageCount
  <2>2. free \in Seq(BucketNumbers)
    BY DEF BucketPage
  <2> QED
    BY <2>1, <2>2
<1>3. /\ pageLists' \in [DOMAIN ElemCounts -> Seq(Pages)] /\ pageLists'[k] = pages
      /\ \A m \in DOMAIN ElemCounts : m # k => pageLists'[m] = pageLists[m]
  BY <1>1
<1>4. /\ bucketOf' \in [Pages -> DOMAIN ElemCounts]
      /\ elemFree' \in [Pages -> Seq(BucketNumbers)] /\ refCnt' \in [Pages -> 0 .. BucketMost]
      /\ bucketOf'[p] = k /\ elemFree'[p] = free /\ refCnt'[p] = n
      /\ \A q \in Pages : q # p => /\ bucketOf'[q] = bucketOf[q] /\ elemFree'[q] = elemFree[q]
                                   /\ refCnt'[q] = refCnt[q]
  BY <1>1, <1>2
<1>5. ASSUME NEW m \in DOMAIN ElemCounts PROVE Behind(pageLists'[m], BucketFull(elemFree'))
  <2>1. CASE m = k
    BY <1>3, <2>1
  <2>2. CASE m # k
    <3>1. \A i \in 1 .. Len(pageLists[m]) : pageLists[m][i] \in Pages /\ pageLists[m][i] # p
      <4>1. pageLists[m] \in Seq(Pages) /\ p \notin Range(pageLists[m])
        BY <1>1, <2>2
      <4> QED
        BY <4>1, RangeOfList
    <3>2. \A i \in 1 .. Len(pageLists[m]) :
            pageLists[m][i] \in BucketFull(elemFree') <=> pageLists[m][i] \in BucketFull(elemFree)
      BY <1>4, <3>1 DEF BucketFull
    <3>3. Behind(pageLists[m], BucketFull(elemFree))
      BY <1>1
    <3>4. Behind(pageLists[m], BucketFull(elemFree'))
      BY <3>2, <3>3 DEF Behind
    <3> QED
      BY <1>3, <2>2, <3>4
  <2> QED
    BY <2>1, <2>2
<1>6. ASSUME NEW m \in DOMAIN ElemCounts, NEW q \in Range(pageLists'[m])
      PROVE  bucketOf'[q] = m /\ BucketPage(q, m, elemFree'[q], refCnt'[q], holders')
  <2>1. CASE q = p
    <3>1. m = k
      BY <1>3, <1>6, <2>1
    <3> QED
      BY <1>4, <2>1, <3>1
  <2>2. CASE q # p
    <3>1. q \in Range(pageLists[m])
      BY <1>3, <1>6, <2>2
    <3>2. q \in Pages
      <4>1. pageLists[m] \in Seq(Pages)
        BY <1>1
      <4> QED
        BY <3>1, <4>1, RangeOfList
    <3>3. bucketOf[q] = m /\ BucketPage(q, m, elemFree[q], refCnt[q], holders)
      BY <1>1, <3>1
    <3>4. BucketPage(q, m, elemFree[q], refCnt[q], holders')
      BY <2>2, <3>2, <3>3, BucketOtherPage
    <3> QED
      BY <1>4, <2>2, <3>2, <3>3, <3>4
  <2> QED
    BY <2>1, <2>2
<1>7. \A m \in DOMAIN ElemCounts : IsInjective(pageLists'[m])
  BY <1>1, <1>3
<1>8. ASSUME NEW q \in Pages, \A m \in DOMAIN ElemCounts : q \notin Range(pageLists'[m])
      PROVE  BucketUsed(q, holders') = {}
  <2>1. q # p
    BY <1>3, <1>8
  <2>2. \A m \in DOMAIN ElemCounts : q \notin Range(pageLists[m])
    BY <1>3, <1>8
  <2>3. BucketUsed(q, holders) = {}
    BY <1>1, <2>2
  <2> QED
    BY <2>1, <2>3 DEF BucketUsed, BucketSame
<1>9. BucketInv'
  BY <1>3, <1>4, <1>5, <1>6, <1>7, <1>8 DEF BucketInv
<1>10. \A q : (\E m \in DOMAIN ElemCounts : q \in Range(pageLists'[m]))
                <=> q = p \/ \E m \in DOMAIN ElemCounts : q \in Range(pageLists[m])
  BY <1>3
<1> DEFINE was == UNION {Range(pageLists[m]) : m \in DOMAIN ElemCounts}
           is == UNION {Range(pageLists'[m]) : m \in DOMAIN ElemCounts}
<1>11. \A q : q \in was <=> \E m \in DOMAIN ElemCounts : q \in Range(pageLists[m])
  OBVIOUS
<1>12. \A q : q \in is <=> \E m \in DOMAIN ElemCounts : q \in Range(pageLists'[m])
  OBVIOUS
<1>13. is = was \cup {p}
  <2> HIDE DEF is, was
  <2> QED
    BY <1>10, <1>11, <1>12
<1> QED
  BY <1>9, <1>13, Zenon

\* The invariant says what the runs check.
LEMMA BucketInvImplies ==
  ASSUME BucketInv
  PROVE  Bucket!Consistent /\ Bucket!FullBehind
<1>1. Bucket!TypeOK
  BY BucketNames DEF Bucket!TypeOK, BucketInv
<1>2. ASSUME NEW k \in DOMAIN ElemCounts, NEW p \in Range(pageLists[k])
      PROVE  /\ bucketOf[p] = k
             /\ IsInjective(elemFree[p])
             /\ Range(elemFree[p]) = (1 .. ElemCounts[k]) \ BucketUsed(p, holders)
             /\ BucketUsed(p, holders) \subseteq 1 .. ElemCounts[k]
             /\ refCnt[p] = Cardinality(BucketUsed(p, holders))
  <2>1. bucketOf[p] = k /\ BucketPage(p, k, elemFree[p], refCnt[p], holders)
    BY DEF BucketInv
  <2>2. Range(elemFree[p]) \in SUBSET BucketNumbers
    BY <2>1, RangeOfList DEF BucketPage
  <2>3. /\ ElemCounts[k] \in 1 .. BucketMost /\ BucketMost \in Nat
        /\ \A i \in 1 .. ElemCounts[k] : i \in BucketNumbers
        /\ \A i \in BucketNumbers : i \in 1 .. ElemCounts[k] <=> i <= ElemCounts[k]
    BY BucketCounts DEF BucketNumbers
  <2>4. \A i \in BucketNumbers : /\ i \in Range(elemFree[p])
                                      <=> i <= ElemCounts[k] /\ holders[<<p, i>>] = 0
                                 /\ holders[<<p, i>>] # 0 => i <= ElemCounts[k]
    BY <2>1 DEF BucketPage
  <2>5. Range(elemFree[p]) = (1 .. ElemCounts[k]) \ BucketUsed(p, holders)
    BY <2>2, <2>3, <2>4 DEF BucketUsed
  <2>6. BucketUsed(p, holders) \subseteq 1 .. ElemCounts[k]
    BY <2>3, <2>4 DEF BucketUsed
  <2> QED
    BY <2>1, <2>5, <2>6 DEF BucketPage
<1>3. \A k \in DOMAIN ElemCounts : IsInjective(pageLists[k])
  BY DEF BucketInv
<1>4. \A p \in Pages \ Bucket!Mapped : BucketUsed(p, holders) = {}
  BY BucketNames DEF BucketInv
<1>5. Bucket!PagesAgree
  <2>1. \A k \in DOMAIN ElemCounts :
          /\ Bucket!IsInjective(pageLists[k])
          /\ \A p \in Bucket!Range(pageLists[k]) :
               /\ bucketOf[p] = k
               /\ Bucket!IsInjective(elemFree[p])
               /\ Bucket!Range(elemFree[p]) = (1 .. ElemCounts[k]) \ Bucket!UsedIn(p)
               /\ Bucket!UsedIn(p) \subseteq 1 .. ElemCounts[k]
               /\ refCnt[p] = Bucket!Cardinality(Bucket!UsedIn(p))
    <3> SUFFICES ASSUME NEW k \in DOMAIN ElemCounts
                 PROVE  /\ Bucket!IsInjective(pageLists[k])
                        /\ \A p \in Bucket!Range(pageLists[k]) :
                             /\ bucketOf[p] = k
                             /\ Bucket!IsInjective(elemFree[p])
                             /\ Bucket!Range(elemFree[p]) =
                                  (1 .. ElemCounts[k]) \ Bucket!UsedIn(p)
                             /\ Bucket!UsedIn(p) \subseteq 1 .. ElemCounts[k]
                             /\ refCnt[p] = Bucket!Cardinality(Bucket!UsedIn(p))
      OBVIOUS
    <3>1. Bucket!IsInjective(pageLists[k]) /\ Bucket!Range(pageLists[k]) = Range(pageLists[k])
      BY <1>3, BucketLists
    <3> SUFFICES ASSUME NEW p \in Range(pageLists[k])
                 PROVE  /\ bucketOf[p] = k
                        /\ Bucket!IsInjective(elemFree[p])
                        /\ Bucket!Range(elemFree[p]) = (1 .. ElemCounts[k]) \ Bucket!UsedIn(p)
                        /\ Bucket!UsedIn(p) \subseteq 1 .. ElemCounts[k]
                        /\ refCnt[p] = Bucket!Cardinality(Bucket!UsedIn(p))
      BY <3>1, Zenon
    <3>2. /\ Bucket!UsedIn(p) = BucketUsed(p, holders)
          /\ Bucket!Range(elemFree[p]) = Range(elemFree[p])
          /\ Bucket!IsInjective(elemFree[p]) <=> IsInjective(elemFree[p])
      BY BucketNames, BucketLists
    <3>3. Bucket!Cardinality(Bucket!UsedIn(p)) = Cardinality(BucketUsed(p, holders))
      BY <3>2, BucketLists, Zenon
    <3> QED
      BY <1>2, <3>2, <3>3
  <2>2. \A p \in Pages \ Bucket!Mapped : Bucket!UsedIn(p) = {}
    BY <1>4, BucketNames
  <2> QED
    BY <2>1, <2>2, BucketNames, Zenon DEF Bucket!PagesAgree
<1>6. Bucket!FullBehind
  <2> SUFFICES ASSUME NEW k \in DOMAIN ElemCounts, NEW i \in DOMAIN pageLists[k],
                      NEW j \in DOMAIN pageLists[k], i < j, elemFree[pageLists[k][i]] = <<>>
               PROVE  elemFree[pageLists[k][j]] = <<>>
    BY BucketNames DEF Bucket!FullBehind
  <2>1. pageLists[k] \in Seq(Pages) /\ Behind(pageLists[k], BucketFull(elemFree))
    BY DEF BucketInv
  <2>2. i \in 1 .. Len(pageLists[k]) /\ j \in 1 .. Len(pageLists[k]) /\ pageLists[k][i] \in Pages
    BY <2>1
  <2>3. pageLists[k][i] \in BucketFull(elemFree)
    BY <2>2 DEF BucketFull
  <2>4. pageLists[k][j] \in BucketFull(elemFree)
    BY <2>1, <2>2, <2>3 DEF Behind
  <2> QED
    BY <2>4 DEF BucketFull
<1> QED
  BY <1>1, <1>5, <1>6 DEF Bucket!Consistent

\* It holds when there are no pages yet.
LEMMA BucketInit ==
  ASSUME Bucket!Init
  PROVE  BucketInv /\ Bucket!Mapped = {} /\ holders \in [BucketBlocks -> {0}]
<1>1. /\ pageLists = [k \in DOMAIN ElemCounts |-> <<>>] /\ bucketOf \in [Pages -> {1}]
      /\ elemFree = [p \in Pages |-> <<>>] /\ refCnt = [p \in Pages |-> 0]
      /\ holders = [b \in BucketBlocks |-> 0]
  BY BucketNames DEF Bucket!Init
<1>2. /\ <<>> \in Seq(Pages) /\ <<>> \in Seq(BucketNumbers) /\ Range(<<>>) = {}
      /\ IsInjective(<<>>) /\ \A S : Behind(<<>>, S)
  BY DEF Range, IsInjective, Behind
<1>3. 0 \in 0 .. BucketMost
  BY BucketCounts
<1>4. /\ pageLists \in [DOMAIN ElemCounts -> Seq(Pages)] /\ bucketOf \in [Pages -> DOMAIN ElemCounts]
      /\ elemFree \in [Pages -> Seq(BucketNumbers)] /\ refCnt \in [Pages -> 0 .. BucketMost]
      /\ holders \in [BucketBlocks -> {0, 1}] /\ holders \in [BucketBlocks -> {0}]
  BY <1>1, <1>2, <1>3, BucketCounts
<1>5. \A k \in DOMAIN ElemCounts : pageLists[k] = <<>>
  BY <1>1
<1>6. \A p \in Pages : BucketUsed(p, holders) = {}
  BY <1>1 DEF BucketUsed, BucketBlocks
<1>7. Bucket!Mapped = {}
  BY <1>2, <1>5, BucketNames
<1> QED
  BY <1>2, <1>4, <1>5, <1>6, <1>7 DEF BucketInv

\* Every step of BucketPool preserves it, and is a step of an allocator.
LEMMA BucketNext ==
  ASSUME BucketInv, Bucket!Next
  PROVE  BucketInv' /\ AllocatorStep(Bucket!Mapped, holders, Bucket!Mapped', holders')
<1> DEFINE Steps == BucketInv' /\ AllocatorStep(Bucket!Mapped, holders, Bucket!Mapped', holders')
           Mapping(lists) == UNION {Range(lists[m]) : m \in DOMAIN ElemCounts}
<1>1. /\ pageLists \in [DOMAIN ElemCounts -> Seq(Pages)]
      /\ bucketOf \in [Pages -> DOMAIN ElemCounts]
      /\ elemFree \in [Pages -> Seq(BucketNumbers)]
      /\ refCnt \in [Pages -> 0 .. BucketMost]
      /\ holders \in [BucketBlocks -> {0, 1}] /\ DOMAIN holders = BucketBlocks
      /\ \A m \in DOMAIN ElemCounts :
           /\ IsInjective(pageLists[m]) /\ Behind(pageLists[m], BucketFull(elemFree))
           /\ \A q \in Range(pageLists[m]) :
                bucketOf[q] = m /\ BucketPage(q, m, elemFree[q], refCnt[q], holders)
      /\ \A q \in Pages : (\A m \in DOMAIN ElemCounts : q \notin Range(pageLists[m]))
                            => BucketUsed(q, holders) = {}
  BY DEF BucketInv
<1>2. Bucket!Mapped = Mapping(pageLists) /\ Bucket!Mapped' = Mapping(pageLists')
  <2>1. \A l : Bucket!Range(l) = Range(l)
    BY BucketLists
  <2> QED
    BY <2>1 DEF Bucket!Mapped, Bucket!Buckets
<1>3. \A q : q \in Bucket!Mapped <=> \E m \in DOMAIN ElemCounts : q \in Range(pageLists[m])
  BY BucketNames
<1> HIDE DEF Mapping
<1>4. ASSUME NEW k \in DOMAIN ElemCounts, NEW p \in Pages,
             \A m \in DOMAIN ElemCounts : m # k => p \notin Range(pageLists[m]),
             NEW pages \in Seq(Pages), IsInjective(pages), pages # <<>>, p = Head(pages),
             Range(pages) = Range(pageLists[k]) \cup {p},
             Behind(pages, BucketFull(elemFree) \ {p}),
             bucketOf' = [bucketOf EXCEPT ![p] = k],
             NEW free, NEW n, BucketPage(p, k, free, n, holders), free # <<>>,
             Bucket!AllocFrom(k, pages, free, n)
      PROVE  Steps
  <2> DEFINE b == <<p, Head(free)>>
             pages1 == IF Tail(free) = <<>> THEN ToBack(p, pages) ELSE pages
             h1 == [holders EXCEPT ![b] = @ + 1]
             free1 == Tail(free)
             n1 == n + 1
  <2>1. /\ holders' = h1 /\ elemFree' = [elemFree EXCEPT ![p] = free1]
        /\ refCnt' = [refCnt EXCEPT ![p] = n1]
        /\ pageLists' = [pageLists EXCEPT ![k] = pages1]
    BY <1>4, BucketLists DEF Bucket!AllocFrom
  <2>2. BucketTaken(p, b, free, n, holders, free1, n1, h1)
    BY DEF BucketTaken
  <2>3. b \in BucketBlocks /\ b[1] = p /\ holders[b] = 0 /\ BucketPage(p, k, free1, n1, h1)
    <3>1. /\ holders \in [BucketBlocks -> {0, 1}] /\ BucketPage(p, k, free, n, holders)
          /\ free # <<>>
      BY <1>1, <1>4
    <3> HIDE DEF b, h1, free1, n1
    <3> QED
      BY <2>2, <3>1, BucketAlloc
  <2>4. holders' = [holders EXCEPT ![b] = 1] /\ holders' \in [BucketBlocks -> {0, 1}]
    BY <1>1, <2>1, <2>3
  <2>5. \A q \in Pages : q # p => BucketSame(q, holders, holders')
    <3> HIDE DEF b
    <3> QED
      BY <1>1, <2>3, <2>4 DEF BucketBlocks, BucketSame
  <2>6. BucketFull(elemFree') = IF free1 = <<>> THEN (BucketFull(elemFree) \ {p}) \cup {p}
                                ELSE BucketFull(elemFree) \ {p}
    <3>1. elemFree'[p] = free1 /\ \A q \in Pages : q # p => elemFree'[q] = elemFree[q]
      BY <1>1, <2>1
    <3> HIDE DEF free1
    <3> QED
      BY <3>1 DEF BucketFull
  <2>7. /\ pages1 \in Seq(Pages) /\ IsInjective(pages1) /\ Range(pages1) = Range(pageLists[k]) \cup {p}
        /\ Behind(pages1, BucketFull(elemFree'))
    <3>1. CASE free1 = <<>>
      <4>1. /\ ToBack(p, pages) \in Seq(Pages) /\ IsInjective(ToBack(p, pages))
            /\ Range(ToBack(p, pages)) = Range(pages) \cup {p}
            /\ Behind(ToBack(p, pages), (BucketFull(elemFree) \ {p}) \cup {p})
        <5> DEFINE others == BucketFull(elemFree) \ {p}
        <5>1. Behind(pages, others) /\ IsInjective(pages)
          BY <1>4
        <5> HIDE DEF others, pages1
        <5>2. /\ ToBack(p, pages) \in Seq(Pages) /\ IsInjective(ToBack(p, pages))
              /\ Range(ToBack(p, pages)) = Range(pages) \cup {p}
          BY <5>1, ToBackRange
        <5>3. \A S : Behind(pages, S) => Behind(ToBack(p, pages), S \cup {p})
          BY ToBackRange
        <5>4. Behind(ToBack(p, pages), others \cup {p})
          BY <5>1, <5>3, Zenon
        <5> QED
          BY <5>2, <5>4, Zenon DEF others
      <4>2. pages1 = ToBack(p, pages)
        BY <3>1
      <4>3. BucketFull(elemFree') = (BucketFull(elemFree) \ {p}) \cup {p}
        BY <2>6, <3>1, Zenon
      <4>4. Range(pages) \cup {p} = Range(pageLists[k]) \cup {p}
        BY <1>4
      <4> HIDE DEF pages1
      <4> QED
        BY <4>1, <4>2, <4>3, <4>4, Zenon
    <3>2. CASE free1 # <<>>
      <4>1. pages1 = pages
        BY <3>2
      <4>2. BucketFull(elemFree') = BucketFull(elemFree) \ {p}
        BY <2>6, <3>2, Zenon
      <4> HIDE DEF pages1
      <4> QED
        BY <1>4, <4>1, <4>2, Zenon
    <3> QED
      BY <3>1, <3>2
  <2> HIDE DEF b, pages1, free1, n1
  <2>8. BucketPage(p, k, free1, n1, holders')
    BY <2>1, <2>3
  <2> HIDE DEF h1
  <2>9. BucketInv' /\ Mapping(pageLists') = Mapping(pageLists) \cup {p}
    BY <1>4, <2>1, <2>4, <2>5, <2>7, <2>8, BucketOneChanged DEF Mapping
  <2>10. Bucket!Mapped' = Bucket!Mapped \cup {b[1]}
    BY <1>2, <2>3, <2>9, Zenon
  <2> QED
    BY <1>1, <2>3, <2>4, <2>9, <2>10 DEF AllocatorStep
<1>5. ASSUME NEW k \in DOMAIN ElemCounts, NEW p \in Pages, Bucket!AllocNewPage(k, p) PROVE Steps
  <2> DEFINE pages == <<p>> \o pageLists[k]
             free == [i \in 1 .. ElemCounts[k] |-> i]
  <2>1. /\ p \notin Bucket!Mapped /\ bucketOf' = [bucketOf EXCEPT ![p] = k]
        /\ Bucket!AllocFrom(k, pages, free, 0)
    BY <1>5 DEF Bucket!AllocNewPage
  <2>2. \A m \in DOMAIN ElemCounts : p \notin Range(pageLists[m])
    BY <1>3, <2>1
  <2>3. BucketPage(p, k, free, 0, holders) /\ free # <<>>
    <3>1. BucketUsed(p, holders) = {}
      BY <1>1, <2>2
    <3> QED
      BY <3>1, BucketNewPage, Zenon
  <2>4. /\ pages \in Seq(Pages) /\ IsInjective(pages) /\ pages # <<>> /\ p = Head(pages)
        /\ Range(pages) = Range(pageLists[k]) \cup {p}
        /\ Behind(pages, BucketFull(elemFree) \ {p})
    <3>1. /\ pageLists[k] \in Seq(Pages) /\ IsInjective(pageLists[k])
          /\ Behind(pageLists[k], BucketFull(elemFree)) /\ p \notin Range(pageLists[k])
      BY <1>1, <2>2
    <3> QED
      BY <3>1, PushFront, BehindFront
  <2> HIDE DEF pages, free
  <2> QED
    BY <1>4, <2>1, <2>2, <2>3, <2>4
<1>6. ASSUME NEW k \in DOMAIN ElemCounts, Bucket!AllocFromFront(k) PROVE Steps
  <2> DEFINE pages == pageLists[k]
             p == Head(pages)
  <2>1. /\ pages # <<>> /\ elemFree[p] # <<>> /\ bucketOf' = bucketOf
        /\ Bucket!AllocFrom(k, pages, elemFree[p], refCnt[p])
    BY <1>6 DEF Bucket!AllocFromFront, Bucket!NoFreePage
  <2>2. pages \in Seq(Pages) /\ IsInjective(pages) /\ Behind(pages, BucketFull(elemFree))
    BY <1>1
  <2>3. p \in Range(pages) /\ p \in Pages
    BY <2>1, <2>2, PopFront
  <2>4. bucketOf[p] = k /\ BucketPage(p, k, elemFree[p], refCnt[p], holders)
    BY <1>1, <2>3
  <2>5. \A m \in DOMAIN ElemCounts : m # k => p \notin Range(pageLists[m])
    BY <1>1, <2>4
  <2>6. BucketFull(elemFree) \ {p} = BucketFull(elemFree)
    BY <2>1 DEF BucketFull
  <2>7. p = Head(pages) /\ Range(pages) = Range(pageLists[k]) \cup {p}
    BY <2>3
  <2>8. bucketOf' = [bucketOf EXCEPT ![p] = k]
    BY <1>1, <2>1, <2>3, <2>4
  <2>9. Behind(pages, BucketFull(elemFree) \ {p})
    BY <2>2, <2>6, Zenon
  <2> HIDE DEF pages, p
  <2> QED
    BY <1>4, <2>1, <2>2, <2>3, <2>4, <2>5, <2>7, <2>8, <2>9
<1>7. ASSUME NEW b \in BucketBlocks, Bucket!Free(b) PROVE Steps
  <2> DEFINE p == b[1]
             i == b[2]
             k == bucketOf[p]
             pages == IF elemFree[p] = <<>> THEN ToFront(p, pageLists[k]) ELSE pageLists[k]
             free == <<i>> \o elemFree[p]
             n == refCnt[p] - 1
             h1 == [holders EXCEPT ![b] = @ - 1]
  <2>1. /\ holders[b] > 0 /\ holders' = h1 /\ bucketOf' = bucketOf
        /\ elemFree' = [elemFree EXCEPT ![p] = <<i>> \o @] /\ refCnt' = [refCnt EXCEPT ![p] = @ - 1]
        /\ pageLists' = [pageLists EXCEPT ![k] = IF elemFree[p] = <<>> THEN ToFront(p, @) ELSE @]
    BY <1>7, BucketLists DEF Bucket!Free, Bucket!PutBack
  <2>2. p \in Pages /\ i \in BucketNumbers /\ b = <<p, i>>
    BY DEF BucketBlocks
  <2> HIDE DEF p, i
  <2>3. holders[b] = 1
    BY <1>1, <2>1
  <2>4. k \in DOMAIN ElemCounts /\ p \in Range(pageLists[k])
    <3>1. BucketUsed(p, holders) # {}
      BY <2>2, <2>3 DEF BucketUsed
    <3>2. PICK m \in DOMAIN ElemCounts : p \in Range(pageLists[m])
      BY <1>1, <2>2, <3>1
    <3> QED
      BY <1>1, <3>2
  <2>5. /\ elemFree' = [elemFree EXCEPT ![p] = free] /\ refCnt' = [refCnt EXCEPT ![p] = n]
        /\ pageLists' = [pageLists EXCEPT ![k] = pages] /\ bucketOf' = [bucketOf EXCEPT ![p] = k]
    <3>1. elemFree' = [elemFree EXCEPT ![p] = free] /\ refCnt' = [refCnt EXCEPT ![p] = n]
      BY <1>1, <2>1, <2>2
    <3>2. pageLists' = [pageLists EXCEPT ![k] = pages]
      BY <1>1, <2>1, <2>4
    <3>3. bucketOf' = [bucketOf EXCEPT ![p] = k]
      BY <1>1, <2>1, <2>2
    <3> QED
      BY <3>1, <3>2, <3>3
  <2> HIDE DEF k
  <2>6. bucketOf[p] = k /\ BucketPage(p, k, elemFree[p], refCnt[p], holders)
    BY <1>1, <2>4
  <2>7. \A m \in DOMAIN ElemCounts : m # k => p \notin Range(pageLists[m])
    BY <1>1, <2>6
  <2>8. BucketPage(p, k, free, n, h1) /\ free # <<>>
    <3>1. BucketPut(p, i, b, elemFree[p], refCnt[p], holders, free, n, h1)
      BY <2>2 DEF BucketPut
    <3>2. /\ holders \in [BucketBlocks -> {0, 1}] /\ holders[b] = 1
          /\ BucketPage(p, k, elemFree[p], refCnt[p], holders)
          /\ p \in Pages /\ k \in DOMAIN ElemCounts /\ i \in BucketNumbers
      BY <1>1, <2>2, <2>3, <2>4, <2>6
    <3> HIDE DEF free, n, h1, pages
    <3> QED
      BY <3>1, <3>2, BucketFree
  <2>9. holders' = [holders EXCEPT ![b] = 0] /\ holders' \in [BucketBlocks -> {0, 1}]
    BY <1>1, <2>1, <2>3
  <2>10. \A q \in Pages : q # p => BucketSame(q, holders, holders')
    BY <1>1, <2>2, <2>9 DEF BucketBlocks, BucketSame
  <2> HIDE DEF free, n, h1
  <2>11. BucketFull(elemFree') = BucketFull(elemFree) \ {p}
    <3>1. elemFree'[p] = free /\ \A q \in Pages : q # p => elemFree'[q] = elemFree[q]
      BY <1>1, <2>2, <2>5
    <3> QED
      BY <2>8, <3>1 DEF BucketFull
  <2>12. /\ pages \in Seq(Pages) /\ IsInjective(pages) /\ Range(pages) = Range(pageLists[k]) \cup {p}
         /\ Behind(pages, BucketFull(elemFree'))
    <3>1. /\ pageLists[k] \in Seq(Pages) /\ IsInjective(pageLists[k])
          /\ Behind(pageLists[k], BucketFull(elemFree))
      BY <1>1, <2>4
    <3>2. CASE elemFree[p] = <<>>
      <4>1. /\ ToFront(p, pageLists[k]) \in Seq(Pages) /\ IsInjective(ToFront(p, pageLists[k]))
            /\ Range(ToFront(p, pageLists[k])) = Range(pageLists[k]) \cup {p}
            /\ Behind(ToFront(p, pageLists[k]), BucketFull(elemFree) \ {p})
        BY <2>2, <3>1, ToFrontRange
      <4>2. pages = ToFront(p, pageLists[k])
        BY <3>2
      <4> HIDE DEF pages
      <4> QED
        BY <2>11, <4>1, <4>2, Zenon
    <3>3. CASE elemFree[p] # <<>>
      <4>1. pages = pageLists[k]
        BY <3>3
      <4>2. BucketFull(elemFree) \ {p} = BucketFull(elemFree)
        BY <3>3 DEF BucketFull
      <4>3. Range(pageLists[k]) \cup {p} = Range(pageLists[k])
        BY <2>4
      <4> HIDE DEF pages
      <4> QED
        BY <2>11, <3>1, <4>1, <4>2, <4>3, Zenon
    <3> QED
      BY <3>2, <3>3
  <2> HIDE DEF pages
  <2>13. BucketPage(p, k, free, n, holders')
    BY <2>1, <2>8
  <2>14. BucketInv' /\ Mapping(pageLists') = Mapping(pageLists) \cup {p}
    BY <2>2, <2>4, <2>5, <2>7, <2>9, <2>10, <2>12, <2>13, BucketOneChanged DEF Mapping
  <2>15. Bucket!Mapped' = Bucket!Mapped
    <3>1. Mapping(pageLists) \cup {p} = Mapping(pageLists)
      BY <2>4 DEF Mapping
    <3> QED
      BY <1>2, <2>14, <3>1, Zenon
  <2> QED
    BY <1>1, <2>3, <2>9, <2>14, <2>15 DEF AllocatorStep
<1>8. ASSUME NEW k \in DOMAIN ElemCounts, Bucket!Purge(k) PROVE Steps
  <2> DEFINE leading == {i \in DOMAIN pageLists[k] :
                           \A j \in 1 .. i : elemFree[pageLists[k][j]] # <<>>}
             gone == {pageLists[k][i] : i \in {j \in leading : refCnt[pageLists[k][j]] = 0}}
             pages == Without(pageLists[k], gone)
  <2>1. /\ pageLists' = [pageLists EXCEPT ![k] = Without(@, gone)]
        /\ bucketOf' = bucketOf /\ elemFree' = elemFree /\ refCnt' = refCnt /\ holders' = holders
    BY <1>8, BucketLists DEF Bucket!Purge
  <2>2. gone \in SUBSET Range(pageLists[k]) /\ \A p \in gone : refCnt[p] = 0
    BY DEF Range
  <2> HIDE DEF gone
  <2>3. /\ pageLists[k] \in Seq(Pages) /\ IsInjective(pageLists[k])
        /\ Behind(pageLists[k], BucketFull(elemFree))
    BY <1>1
  <2>4. /\ pages \in Seq(Pages) /\ IsInjective(pages) /\ Range(pages) = Range(pageLists[k]) \ gone
        /\ Behind(pages, BucketFull(elemFree))
    BY <2>3, WithoutRange, WithoutBehind
  <2>5. /\ pageLists' \in [DOMAIN ElemCounts -> Seq(Pages)] /\ pageLists'[k] = pages
        /\ \A m \in DOMAIN ElemCounts : m # k => pageLists'[m] = pageLists[m]
    BY <1>1, <2>1, <2>4
  <2> HIDE DEF pages
  <2>6. ASSUME NEW p \in gone
        PROVE  /\ BucketUsed(p, holders) = {} /\ p \in Pages
               /\ \A m \in DOMAIN ElemCounts : m # k => p \notin Range(pageLists[m])
    <3>1. p \in Range(pageLists[k]) /\ refCnt[p] = 0
      BY <2>2
    <3>2. bucketOf[p] = k /\ BucketPage(p, k, elemFree[p], refCnt[p], holders)
      BY <1>1, <3>1
    <3>3. BucketUsed(p, holders) = {}
      BY <3>1, <3>2, BucketPageCount
    <3> QED
      BY <1>1, <2>3, <3>1, <3>2, <3>3, RangeOfList
  <2>7. BucketInv'
    <3>1. ASSUME NEW m \in DOMAIN ElemCounts
          PROVE  /\ IsInjective(pageLists'[m]) /\ Behind(pageLists'[m], BucketFull(elemFree))
                 /\ \A q \in Range(pageLists'[m]) : q \in Range(pageLists[m])
      BY <1>1, <2>4, <2>5
    <3>2. ASSUME NEW q \in Pages, \A m \in DOMAIN ElemCounts : q \notin Range(pageLists'[m])
          PROVE  BucketUsed(q, holders) = {}
      <4>1. CASE q \in gone
        BY <2>6, <4>1
      <4>2. CASE q \notin gone
        <5>1. \A m \in DOMAIN ElemCounts : q \notin Range(pageLists[m])
          BY <2>4, <2>5, <3>2, <4>2
        <5> QED
          BY <1>1, <5>1
      <4> QED
        BY <4>1, <4>2
    <3> QED
      BY <1>1, <2>1, <2>5, <3>1, <3>2 DEF BucketInv
  <2>8. Mapping(pageLists') = Mapping(pageLists) \ gone
    <3>1. \A q : (\E m \in DOMAIN ElemCounts : q \in Range(pageLists'[m]))
                   <=> q \notin gone /\ \E m \in DOMAIN ElemCounts : q \in Range(pageLists[m])
      BY <2>4, <2>5, <2>6
    <3> QED
      BY <3>1 DEF Mapping
  <2>9. Bucket!Mapped' = Bucket!Mapped \ gone
    BY <1>2, <2>8, Zenon
  <2>10. gone \in SUBSET Bucket!Mapped
    BY <1>3, <2>2
  <2>11. \A b \in BucketBlocks : b[1] \in gone => holders[b] = 0
    BY <2>6 DEF BucketUsed, BucketBlocks
  <2>12. AllocatorStep(Bucket!Mapped, holders, Bucket!Mapped', holders')
    BY <1>1, <2>1, <2>9, <2>10, <2>11 DEF AllocatorStep
  <2> QED
    BY <2>7, <2>12
<1> QED
  BY <1>5, <1>6, <1>7, <1>8, BucketNames DEF Bucket!Next

\* bucket_purge leaves no unused page: it stops at the first full one, and behind that
\* all are full.
LEMMA BucketReleaseComplete ==
  ASSUME BucketInv
  PROVE  Bucket!ReleaseComplete
<1> SUFFICES ASSUME NEW k \in DOMAIN ElemCounts, Bucket!Purge(k), NEW p \in Range(pageLists'[k])
             PROVE  BucketUsed(p, holders) # {}
  BY BucketNames, BucketLists DEF Bucket!ReleaseComplete
<1> DEFINE s == pageLists[k]
           leading == {i \in DOMAIN s : \A j \in 1 .. i : elemFree[s[j]] # <<>>}
           gone == {s[i] : i \in {j \in leading : refCnt[s[j]] = 0}}
<1>1. pageLists' = [pageLists EXCEPT ![k] = Without(@, gone)]
  BY BucketLists DEF Bucket!Purge
<1>2. /\ s \in Seq(Pages) /\ Behind(s, BucketFull(elemFree))
      /\ pageLists \in [DOMAIN ElemCounts -> Seq(Pages)]
      /\ \A q \in Range(s) : BucketPage(q, k, elemFree[q], refCnt[q], holders)
  BY DEF BucketInv
<1>3. p \in Range(s) /\ p \notin gone
  <2> HIDE DEF gone
  <2>1. Range(Without(s, gone)) = Range(s) \ gone
    BY <1>2, WithoutRange
  <2>2. pageLists'[k] = Without(s, gone)
    BY <1>1, <1>2
  <2> QED
    BY <2>1, <2>2
<1>4. PICK i \in 1 .. Len(s) : s[i] = p
  BY <1>2, <1>3, RangeOfList
<1> SUFFICES ASSUME BucketUsed(p, holders) = {} PROVE FALSE
  OBVIOUS
<1>5. refCnt[p] = 0 /\ elemFree[p] # <<>>
  <2>1. BucketPage(p, k, elemFree[p], refCnt[p], holders)
    BY <1>2, <1>3
  <2> HIDE DEF s, leading, gone
  <2> QED
    BY <2>1, BucketPageCount
<1>6. ASSUME NEW j \in 1 .. i PROVE elemFree[s[j]] # <<>>
  <2>1. j \in 1 .. Len(s) /\ s[j] \in Pages
    BY <1>2, <1>4
  <2>2. CASE j = i
    BY <1>4, <1>5, <2>2
  <2>3. CASE j # i
    <3>1. j < i
      BY <2>3
    <3>2. s[j] \in BucketFull(elemFree) => s[i] \in BucketFull(elemFree)
      BY <1>2, <2>1, <3>1 DEF Behind
    <3> QED
      BY <1>4, <1>5, <2>1, <3>2 DEF BucketFull
  <2> QED
    BY <2>2, <2>3
<1>7. i \in leading
  BY <1>2, <1>6
<1>8. p \in gone
  BY <1>4, <1>5, <1>7
<1> QED
  BY <1>3, <1>8

-----------------------------------------------------------------------------
(***************************************************************************)
(* The pools together.                                                     *)
(***************************************************************************)

\* The inductive invariant of PagePools: that of its pool.
PoolsInv ==
  /\ kind \in {"fast", "small", "list", "bucket"}
  /\ kind = "fast" => FastInv
  /\ kind = "small" => SmallInv
  /\ kind = "list" => ListInv
  /\ kind = "bucket" => BucketInv

\* It holds when there are no pages yet.
LEMMA PoolsInit ==
  ASSUME Init
  PROVE  /\ PoolsInv /\ Mapped = {} /\ \A b \in DOMAIN holders : holders[b] = 0
<1>1. CASE kind = "fast" /\ Fast!Init
  BY <1>1, FastInit DEF PoolsInv, Mapped
<1>2. CASE kind = "small" /\ Small!Init
  BY <1>2, SmallInit DEF PoolsInv, Mapped
<1>3. CASE kind = "list" /\ List!Init
  BY <1>3, ListInit DEF PoolsInv, Mapped
<1>4. CASE kind = "bucket" /\ Bucket!Init
  BY <1>4, BucketInit DEF PoolsInv, Mapped
<1> QED
  BY <1>1, <1>2, <1>3, <1>4 DEF Init

\* Every step of the pool preserves it, and is a step of an allocator or none.
LEMMA PoolsNext ==
  ASSUME PoolsInv, [Next]_vars
  PROVE  /\ PoolsInv'
         /\ \/ AllocatorStep(Mapped, holders, Mapped', holders')
            \/ Mapped' = Mapped /\ holders' = holders
<1>1. CASE kind = "fast" /\ Fast!Next /\ kind' = kind
  BY <1>1, FastNext DEF PoolsInv, Mapped
<1>2. CASE kind = "small" /\ Small!Next /\ kind' = kind
  BY <1>2, SmallNext DEF PoolsInv, Mapped
<1>3. CASE kind = "list" /\ List!Next /\ kind' = kind
  BY <1>3, ListNext DEF PoolsInv, Mapped
<1>4. CASE kind = "bucket" /\ Bucket!Next /\ kind' = kind
  BY <1>4, BucketNext DEF PoolsInv, Mapped
<1>5. CASE UNCHANGED vars
  <2>1. /\ kind' = kind /\ refCnt' = refCnt /\ holders' = holders /\ pageList' = pageList
        /\ freeList' = freeList /\ firstFree' = firstFree /\ content' = content
        /\ bucketList' = bucketList /\ blockList' = blockList
        /\ pageLists' = pageLists /\ bucketOf' = bucketOf /\ elemFree' = elemFree
    BY <1>5 DEF vars
  <2>2. FastInv => FastInv'
    BY <2>1 DEF FastInv
  <2>3. SmallInv => SmallInv'
    BY <2>1 DEF SmallInv
  <2>4. ListInv => ListInv'
    BY <2>1 DEF ListInv
  <2>5. BucketInv => BucketInv'
    BY <2>1 DEF BucketInv
  <2>6. Bucket!Mapped' = Bucket!Mapped
    BY <2>1, Zenon DEF Bucket!Mapped
  <2>7. Mapped' = Mapped
    BY <2>1, <2>6, Zenon DEF Mapped
  <2> QED
    BY <2>1, <2>2, <2>3, <2>4, <2>5, <2>7 DEF PoolsInv
<1> QED
  BY <1>1, <1>2, <1>3, <1>4, <1>5 DEF Next

\* The pool's invariant is an invariant.
THEOREM PoolsInvHolds == Spec => []PoolsInv
<1>1. Init => PoolsInv
  BY PoolsInit
<1>2. PoolsInv /\ [Next]_vars => PoolsInv'
  BY PoolsNext
<1> QED
  BY <1>1, <1>2, PTL DEF Spec

\* The lists of each pool hold exactly the blocks that nobody has, and its counts are
\* those of the blocks in use.
THEOREM ConsistentHolds == Spec => []Consistent
<1>1. PoolsInv => Consistent
  BY FastInvImplies, SmallInvImplies, ListInvImplies, BucketInvImplies DEF PoolsInv, Consistent
<1> QED
  BY <1>1, PoolsInvHolds, PTL

\* FastPool carves the blocks of a page in order.
THEOREM CarvedInOrderHolds == Spec => []CarvedInOrder
<1>1. PoolsInv => CarvedInOrder
  BY FastInvImplies DEF PoolsInv, CarvedInOrder
<1> QED
  BY <1>1, PoolsInvHolds, PTL

\* FastPool and BucketPool find the room in pages with blocks in use.
THEOREM NoRoomLostHolds == Spec => []NoRoomLost
<1>1. PoolsInv => NoRoomLost
  BY FastInvImplies, BucketInvImplies DEF PoolsInv, NoRoomLost
<1> QED
  BY <1>1, PoolsInvHolds, PTL

\* release_memory, and bucket_purge, give back what the destructors assert.
THEOREM ReleasesUnusedHolds == Spec => ReleasesUnused
<1>1. PoolsInv => /\ kind = "fast" => Fast!ReleaseComplete
                  /\ kind = "small" => Small!ReleaseComplete
                  /\ kind = "list" => List!ReleaseComplete
                  /\ kind = "bucket" => Bucket!ReleaseComplete
  BY FastReleaseComplete, SmallReleaseComplete, ListReleaseComplete, BucketReleaseComplete
  DEF PoolsInv
<1> QED
  BY <1>1, PoolsInvHolds, PTL DEF ReleasesUnused

\* Whatever the pool, it is an allocator: a block is handed out to one at a time, and a
\* page with a block in use is not given back.
THEOREM ImplementsAllocatorHolds == Spec => ImplementsAllocator
<1>1. Init => AsAllocator!Init
  BY PoolsInit DEF AsAllocator!Init, AsAllocator!Blocks
<1>2. AllocatorStep(Mapped, holders, Mapped', holders') => AsAllocator!Next
  BY DEF AllocatorStep, AsAllocator!Next, AsAllocator!Blocks, AsAllocator!Malloc,
         AsAllocator!Free, AsAllocator!Release
<1>3. PoolsInv /\ [Next]_vars => [AsAllocator!Next]_<<Mapped, holders>>
  BY <1>2, PoolsNext
<1> QED
  BY <1>1, <1>3, PoolsInvHolds, PTL DEF Spec, ImplementsAllocator, AsAllocator!Spec
=============================================================================
