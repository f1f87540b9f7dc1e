------------------------- MODULE PoolGeometryProofs -------------------------
(***************************************************************************)
(* Proofs about PoolGeometry: what the search for the number of system     *)
(* pages of a page finds, for all sizes.                                   *)
(***************************************************************************)
EXTENDS PoolGeometry, InductionLemmas

-----------------------------------------------------------------------------
\* Min is the member of a set of naturals that no other is below.
LEMMA MinIs ==
  ASSUME NEW S \in SUBSET Nat, NEW m \in S, \A x \in S : m <= x
  PROVE  Min(S) = m
<1>1. \A x \in S : (\A y \in S : x <= y) => x = m
  BY SMT
<1> QED
  BY <1>1, Zenon DEF Min

\* Of two numbers of pages, Min is the smaller.
LEMMA MinOfTwo ==
  ASSUME NEW x \in Nat, NEW y \in Nat
  PROVE  Min({x, y}) = IF x <= y THEN x ELSE y
<1>1. CASE x <= y
  <2>1. {x, y} \in SUBSET Nat /\ x \in {x, y} /\ \A z \in {x, y} : x <= z
    BY <1>1
  <2> QED
    BY <1>1, <2>1, MinIs, Zenon
<1>2. CASE ~(x <= y)
  <2>1. {x, y} \in SUBSET Nat /\ y \in {x, y} /\ \A z \in {x, y} : y <= z
    BY <1>2
  <2> QED
    BY <1>2, <2>1, MinIs, Zenon
<1> QED
  BY <1>1, <1>2


\* The search starts from one page, which holds more than its header.
LEMMA HeaderInFirst == PageHeader \div PageSize + 1 = 1
<1>1. PageHeader \in Nat /\ PageSize \in Nat /\ PageHeader < PageSize
  BY GeometryAssumption
<1> QED
  BY <1>1

\* impl is what MinimumKImpl computes at each number of pages, from the best so far.
Searches(impl, a) ==
  \A k \in 1 .. MaxPages : \A best \in 1 .. MaxPages + 1 :
    impl[k][best] = IF k = MaxPages THEN best
                    ELSE IF Remainder(a, k) = 0 THEN k
                    ELSE Min({Better(a, best, k), impl[k + 1][Better(a, best, k)]})

\* The search ends: MinimumKImpl comes to MaxPages from any number of pages.
LEMMA SearchEnds ==
  ASSUME NEW a
  PROVE  \E impl : Searches(impl, a) /\ MinimumK(a) = impl[1][MaxPages + 1]
<1> DEFINE Best == 1 .. MaxPages + 1
           V == [Best -> Best]
           N == MaxPages - 1
           Look(k, best, v) == IF Remainder(a, k) = 0 THEN k
                               ELSE Min({Better(a, best, k), v[Better(a, best, k)]})
           after == [i \in 1 .. N |-> [v \in V |-> [best \in Best |-> Look(MaxPages - i, best, v)]]]
           base == [best \in Best |-> best]
<1>1. MaxPages \in Nat \ {0} /\ N \in Nat
  BY GeometryAssumption
<1>2. base \in V
  OBVIOUS
<1>a. \A k \in Best, best \in Best : Better(a, best, k) \in Best
  BY Zenon DEF Better
<1>b. ASSUME NEW k \in Best, NEW best \in Best, NEW v \in V
      PROVE  Look(k, best, v) \in Best
  <2> DEFINE b == Better(a, best, k)
  <2>1. b \in Best
    BY <1>a
  <2> HIDE DEF b
  <2>2. v[b] \in Best
    BY <2>1
  <2>3. b \in Nat /\ v[b] \in Nat
    BY <1>1, <2>1, <2>2
  <2>4. Min({b, v[b]}) = IF b <= v[b] THEN b ELSE v[b]
    BY <2>3, MinOfTwo
  <2>5. Min({b, v[b]}) \in Best
    <3> HIDE DEF Best
    <3> QED
      BY <2>1, <2>2, <2>4, Zenon
  <2>6. Look(k, best, v) = IF Remainder(a, k) = 0 THEN k ELSE Min({b, v[b]})
    BY Zenon DEF b
  <2> HIDE DEF Best, Look
  <2> QED
    BY <2>5, <2>6, Zenon
<1>3. after \in [1 .. N -> [V -> V]]
  <2>1. \A i \in 1 .. N : MaxPages - i \in Best
    BY <1>1
  <2> HIDE DEF Best, Look, N
  <2>2. \A i \in 1 .. N, v \in V, best \in Best : Look(MaxPages - i, best, v) \in Best
    BY <1>b, <2>1, Zenon
  <2> QED
    BY <2>2, Zenon
<1>4. PICK g \in [0 .. N -> V] : g[0] = base /\ \A i \in 1 .. N : g[i] = after[i][g[i - 1]]
  <2> HIDE DEF V, N, after, base
  <2> QED
    BY <1>1, <1>2, <1>3, RecursionOverRange
<1> DEFINE Rec(h) == h = [k \in 1 .. MaxPages |->
                            [best \in 1 .. MaxPages + 1 |->
                               IF k = MaxPages THEN best
                               ELSE IF Remainder(a, k) = 0 THEN k
                               ELSE LET cur == Better(a, best, k) IN Min({cur, h[k + 1][cur]})]]
           impl == CHOOSE h : Rec(h)
           f == [k \in 1 .. MaxPages |-> g[MaxPages - k]]
<1>5. \A k \in 1 .. MaxPages :
        f[k] = [best \in 1 .. MaxPages + 1 |->
                  IF k = MaxPages THEN best
                  ELSE IF Remainder(a, k) = 0 THEN k
                  ELSE LET cur == Better(a, best, k) IN Min({cur, f[k + 1][cur]})]
  <2> TAKE k \in 1 .. MaxPages
  <2>1. CASE k = MaxPages
    <3>1. MaxPages - k = 0 /\ f[k] = g[MaxPages - k]
      BY <1>1, <2>1
    <3>2. f[k] = base
      BY <1>4, <3>1, Zenon
    <3> QED
      BY <2>1, <3>2, Zenon
  <2>2. CASE k # MaxPages
    <3> DEFINE i == MaxPages - k
    <3>1. /\ i \in 1 .. N /\ MaxPages - i = k /\ i - 1 \in 0 .. N
          /\ k + 1 \in 1 .. MaxPages /\ MaxPages - (k + 1) = i - 1 /\ k \in Best
      BY <1>1, <2>2
    <3>2. f[k] = g[i] /\ f[k + 1] = g[i - 1]
      BY <3>1, Zenon
    <3> HIDE DEF f, i, Look
    <3>3. g[i] = after[i][g[i - 1]] /\ g[i - 1] \in V
      BY <1>4, <3>1
    <3> HIDE DEF Best, N, V
    <3>4. after[i][g[i - 1]] = [best \in Best |-> Look(MaxPages - i, best, g[i - 1])]
      BY <3>1, <3>3, Zenon
    <3>5. f[k] = [best \in Best |-> Look(k, best, f[k + 1])]
      BY <3>1, <3>2, <3>3, <3>4, Zenon
    <3> QED
      BY <2>2, <3>5, Zenon DEF Look, Best
  <2> QED
    BY <2>1, <2>2, Zenon
<1>6. Rec(f)
  <2> DEFINE Val(k) == [best \in 1 .. MaxPages + 1 |->
                          IF k = MaxPages THEN best
                          ELSE IF Remainder(a, k) = 0 THEN k
                          ELSE LET cur == Better(a, best, k) IN Min({cur, f[k + 1][cur]})]
  <2>1. f = [k \in 1 .. MaxPages |-> f[k]]
    BY Zenon
  <2>2. \A k \in 1 .. MaxPages : f[k] = Val(k)
    BY <1>5, Zenon
  <2> HIDE DEF f, Val
  <2>3. f = [k \in 1 .. MaxPages |-> Val(k)]
    BY <2>1, <2>2, Zenon
  <2> QED
    BY <2>3, Zenon DEF Val
<1>7. Rec(impl)
  <2> HIDE DEF Rec, f
  <2> QED
    BY <1>6, Zenon
<1>8. MinimumK(a) = impl[1][MaxPages + 1]
  <2>1. MinimumK(a) = impl[PageHeader \div PageSize + 1][MaxPages + 1]
    BY Zenon DEF MinimumK
  <2>2. PageHeader \div PageSize + 1 = 1
    BY HeaderInFirst, Zenon
  <2> QED
    BY <2>1, <2>2, Zenon
<1>9. Searches(impl, a)
  <2> HIDE DEF impl
  <2>1. ASSUME NEW k \in 1 .. MaxPages, NEW best \in 1 .. MaxPages + 1
        PROVE  impl[k][best] = IF k = MaxPages THEN best
                    ELSE IF Remainder(a, k) = 0 THEN k
                    ELSE Min({Better(a, best, k), impl[k + 1][Better(a, best, k)]})
    <3>1. impl[k] = [b \in 1 .. MaxPages + 1 |->
                       IF k = MaxPages THEN b
                       ELSE IF Remainder(a, k) = 0 THEN k
                       ELSE LET cur == Better(a, b, k) IN Min({cur, impl[k + 1][cur]})]
      BY <1>7, Zenon
    <3> QED
      BY <3>1, Zenon
  <2> QED
    BY <2>1, Zenon DEF Searches
<1> QED
  BY <1>8, <1>9, Zenon

\* What is left over is a number, for blocks that have a size.
LEMMA RemainderType ==
  ASSUME NEW a \in Nat, 0 < a, NEW k \in Nat
  PROVE  Remainder(a, k) \in Nat
<1>1. k * PageSize - PageHeader \in Int
  BY GeometryAssumption
<1> DEFINE x == k * PageSize - PageHeader
<1> HIDE DEF x
<1>2. x % a \in Nat
  BY <1>1 DEF x
<1> QED
  BY <1>2 DEF x, Remainder

-----------------------------------------------------------------------------
(***************************************************************************)
(* The search, from any number of pages k on.                              *)
(***************************************************************************)

\* The numbers of pages from k on that are tried and no worse than MaxPages + 1.
NoWorseFrom(a, k) ==
  {j \in 1 .. MaxPages - 1 : k <= j /\ Remainder(a, j) <= Remainder(a, MaxPages + 1)}

\* From k on, the search never goes below a best number found before, and from MaxPages + 1
\* it finds the first number that is no worse.
FindsFrom(impl, a, k) ==
  /\ \A best \in 1 .. MaxPages + 1 : impl[k][best] \in 1 .. MaxPages + 1
  /\ \A best \in 1 .. MaxPages : best < k => best <= impl[k][best]
  /\ impl[k][MaxPages + 1] = IF NoWorseFrom(a, k) = {} THEN MaxPages + 1
                             ELSE Min(NoWorseFrom(a, k))

\* At MaxPages nothing is left to try.
LEMMA FindsAtLast ==
  ASSUME NEW a, NEW impl, Searches(impl, a)
  PROVE  FindsFrom(impl, a, MaxPages)
<1>1. MaxPages \in Nat \ {0}
  BY GeometryAssumption
<1>2. MaxPages \in 1 .. MaxPages /\ MaxPages + 1 \in 1 .. MaxPages + 1
  BY <1>1
<1>3. \A best \in 1 .. MaxPages + 1 : impl[MaxPages][best] = best
  BY <1>2, Zenon DEF Searches
<1>4. \A best \in 1 .. MaxPages : best \in 1 .. MaxPages + 1 /\ best <= best
  BY <1>1
<1>5. NoWorseFrom(a, MaxPages) = {}
  BY <1>1 DEF NoWorseFrom
<1> QED
  BY <1>2, <1>3, <1>4, <1>5, Zenon DEF FindsFrom

\* One number of pages is tried.
LEMMA FindsBefore ==
  ASSUME NEW a \in Nat, 0 < a, NEW impl, Searches(impl, a),
         NEW k \in 1 .. MaxPages - 1, FindsFrom(impl, a, k + 1)
  PROVE  FindsFrom(impl, a, k)
<1>1. MaxPages \in Nat \ {0}
  BY GeometryAssumption
<1>2. k \in Nat /\ k \in 1 .. MaxPages /\ k # MaxPages /\ k \in 1 .. MaxPages + 1
  BY <1>1
<1>3. \A j \in 1 .. MaxPages + 1 : Remainder(a, j) \in Nat
  BY <1>1, RemainderType
<1> DEFINE r == impl[k + 1]
<1>4. \A best \in 1 .. MaxPages + 1 :
        impl[k][best] = IF Remainder(a, k) = 0 THEN k
                        ELSE Min({Better(a, best, k), r[Better(a, best, k)]})
  BY <1>2, Zenon DEF Searches
<1>5. /\ \A best \in 1 .. MaxPages + 1 : r[best] \in 1 .. MaxPages + 1
      /\ \A best \in 1 .. MaxPages : best < k + 1 => best <= r[best]
      /\ r[MaxPages + 1] = IF NoWorseFrom(a, k + 1) = {} THEN MaxPages + 1
                           ELSE Min(NoWorseFrom(a, k + 1))
  BY Zenon DEF FindsFrom
<1> HIDE DEF r
<1>6. ASSUME NEW best \in 1 .. MaxPages + 1
      PROVE  /\ Better(a, best, k) \in {best, k} /\ Better(a, best, k) \in 1 .. MaxPages + 1
             /\ LET cur == Better(a, best, k)
                IN Min({cur, r[cur]}) = IF cur <= r[cur] THEN cur ELSE r[cur]
  <2> DEFINE cur == Better(a, best, k)
  <2>1. cur \in {best, k}
    BY Zenon DEF Better
  <2>2. cur \in 1 .. MaxPages + 1
    BY <1>2, <2>1
  <2> HIDE DEF cur
  <2>3. cur \in Nat /\ r[cur] \in Nat
    BY <1>1, <1>5, <2>2
  <2>4. Min({cur, r[cur]}) = IF cur <= r[cur] THEN cur ELSE r[cur]
    BY <2>3, MinOfTwo
  <2> QED
    BY <2>1, <2>2, <2>4, Zenon DEF cur
<1>7. r[k] \in 1 .. MaxPages + 1 /\ k <= r[k]
  BY <1>1, <1>2, <1>5
<1>8. ASSUME NEW best \in 1 .. MaxPages + 1 PROVE impl[k][best] \in 1 .. MaxPages + 1
  <2> DEFINE cur == Better(a, best, k)
  <2>1. cur \in 1 .. MaxPages + 1 /\ Min({cur, r[cur]}) = IF cur <= r[cur] THEN cur ELSE r[cur]
    BY <1>6, Zenon
  <2>2. impl[k][best] = IF Remainder(a, k) = 0 THEN k ELSE Min({cur, r[cur]})
    BY <1>4, Zenon
  <2> HIDE DEF cur
  <2>3. r[cur] \in 1 .. MaxPages + 1
    BY <1>5, <2>1
  <2>4. Min({cur, r[cur]}) \in 1 .. MaxPages + 1
    BY <2>1, <2>3, Zenon
  <2> QED
    BY <1>2, <2>2, <2>4, Zenon
<1>9. ASSUME NEW best \in 1 .. MaxPages, best < k PROVE best <= impl[k][best]
  <2> DEFINE cur == Better(a, best, k)
  <2>0. best \in 1 .. MaxPages + 1
    BY <1>1
  <2>1. cur \in {best, k} /\ Min({cur, r[cur]}) = IF cur <= r[cur] THEN cur ELSE r[cur]
    BY <1>6, <2>0, Zenon
  <2>2. impl[k][best] = IF Remainder(a, k) = 0 THEN k ELSE Min({cur, r[cur]})
    BY <1>4, <2>0, Zenon
  <2> HIDE DEF cur
  <2>3. cur \in 1 .. MaxPages /\ cur < k + 1 /\ best <= cur
    BY <1>2, <1>9, <2>1
  <2>4. r[cur] \in 1 .. MaxPages + 1 /\ cur <= r[cur]
    BY <1>1, <1>5, <2>3
  <2>5. Min({cur, r[cur]}) = cur
    BY <2>1, <2>4, Zenon
  <2> QED
    BY <1>2, <1>9, <2>2, <2>3, <2>5
<1>10. impl[k][MaxPages + 1] = IF NoWorseFrom(a, k) = {} THEN MaxPages + 1
                               ELSE Min(NoWorseFrom(a, k))
  <2> DEFINE m == MaxPages + 1
             noWorse == NoWorseFrom(a, k)
             later == NoWorseFrom(a, k + 1)
  <2>1. m \in 1 .. MaxPages + 1 /\ m \in Nat
    BY <1>1
  <2>2. Remainder(a, k) \in Nat /\ Remainder(a, m) \in Nat
    BY <1>2, <1>3, <2>1
  <2>3. CASE Remainder(a, k) <= Remainder(a, m)
    <3>1. k \in noWorse /\ noWorse \in SUBSET Nat /\ \A j \in noWorse : k <= j
      BY <1>1, <1>2, <2>3 DEF NoWorseFrom
    <3>2. Min(noWorse) = k
      BY <3>1, MinIs, Zenon
    <3>3. ~(Remainder(a, m) < Remainder(a, k))
      BY <2>2, <2>3
    <3>4. Better(a, m, k) = k
      BY <3>3, Zenon DEF Better
    <3>5. Min({k, r[k]}) = k
      BY <1>6, <1>7, <2>1, <3>4, Zenon
    <3>6. impl[k][m] = k
      BY <1>4, <2>1, <3>4, <3>5, Zenon
    <3> QED
      BY <3>1, <3>2, <3>6, Zenon
  <2>4. CASE ~(Remainder(a, k) <= Remainder(a, m))
    <3>1. Remainder(a, m) < Remainder(a, k) /\ Remainder(a, k) # 0
      BY <2>2, <2>4
    <3>2. Better(a, m, k) = m
      BY <3>1, Zenon DEF Better
    <3>3. \A j \in 1 .. MaxPages - 1 :
            (k <= j /\ Remainder(a, j) <= Remainder(a, m))
              <=> (k + 1 <= j /\ Remainder(a, j) <= Remainder(a, m))
      <4> TAKE j \in 1 .. MaxPages - 1
      <4>1. j \in Nat /\ (k <= j <=> k + 1 <= j \/ j = k)
        BY <1>1, <1>2
      <4> QED
        BY <2>4, <4>1, Zenon
    <3>4. noWorse = later
      BY <3>3, Zenon DEF NoWorseFrom
    <3>5. r[m] \in 1 .. MaxPages + 1 /\ Min({m, r[m]}) = IF m <= r[m] THEN m ELSE r[m]
      BY <1>5, <1>6, <2>1, <3>2, Zenon
    <3>6. Min({m, r[m]}) = r[m]
      BY <1>1, <3>5
    <3>7. impl[k][m] = r[m]
      BY <1>4, <2>1, <3>1, <3>2, <3>6, Zenon
    <3> QED
      BY <1>5, <3>4, <3>7, Zenon
  <2> QED
    BY <2>3, <2>4
<1> QED
  BY <1>8, <1>9, <1>10, Zenon DEF FindsFrom

\* So it finds the first number that is no worse from the first one on.
LEMMA FindsFirst ==
  ASSUME NEW a \in Nat, 0 < a
  PROVE  MinimumK(a) = IF NoWorseFrom(a, 1) = {} THEN MaxPages + 1 ELSE Min(NoWorseFrom(a, 1))
<1>1. MaxPages \in Nat \ {0}
  BY GeometryAssumption
<1>2. PICK impl : Searches(impl, a) /\ MinimumK(a) = impl[1][MaxPages + 1]
  BY SearchEnds
<1> DEFINE Good == {n \in Nat : n < MaxPages => FindsFrom(impl, a, MaxPages - n)}
<1>3. 0 \in Good
  <2>1. MaxPages - 0 = MaxPages
    BY <1>1
  <2> QED
    BY <1>2, <2>1, FindsAtLast, Zenon
<1>4. ASSUME NEW n \in Good PROVE n + 1 \in Good
  <2> SUFFICES ASSUME n + 1 < MaxPages PROVE FindsFrom(impl, a, MaxPages - (n + 1))
    OBVIOUS
  <2> DEFINE k == MaxPages - (n + 1)
  <2>1. n \in Nat /\ n < MaxPages /\ k \in 1 .. MaxPages - 1 /\ k + 1 = MaxPages - n
    BY <1>1
  <2>2. FindsFrom(impl, a, k + 1)
    BY <2>1
  <2> HIDE DEF k
  <2>3. FindsFrom(impl, a, k)
    BY <1>2, <2>1, <2>2, FindsBefore
  <2> QED
    BY <2>3 DEF k
<1>5. Good = Nat
  <2> HIDE DEF Good
  <2>1. Good \in SUBSET Nat
    BY DEF Good
  <2> QED
    BY <1>3, <1>4, <2>1, SetInduction
<1>6. FindsFrom(impl, a, 1)
  <2>1. MaxPages - 1 \in Good /\ MaxPages - 1 < MaxPages /\ MaxPages - (MaxPages - 1) = 1
    <3> HIDE DEF Good
    <3> QED
      BY <1>1, <1>5
  <2> QED
    BY <2>1
<1> QED
  BY <1>2, <1>6, Zenon DEF FindsFrom

-----------------------------------------------------------------------------
\* The sizes gone through are sizes of blocks.
LEMMA SizeType == Spec => [](size \in Nat /\ 0 < size)
<1> DEFINE Type == size \in Nat /\ 0 < size
<1>1. Init => Type
  BY GeometryAssumption DEF Init
<1>2. Type /\ [Next]_size => Type'
  BY DEF Next
<1> QED
  BY <1>1, <1>2, PTL DEF Spec

\* What is searched for is the size of a block, or of NextCount of them.
LEMMA SearchedType ==
  ASSUME NEW s \in Nat, 0 < s
  PROVE  Searched(s) \in Nat /\ 0 < Searched(s)
<1>1. /\ NextCount \in Nat /\ 0 < NextCount /\ Pointer \in Nat /\ MinSize \in Nat
      /\ PageSize \in Nat
  BY GeometryAssumption
<1> DEFINE r == RequestedSize(s)
<1>2. r \in Nat /\ 0 < r
  BY <1>1 DEF RequestedSize
<1> HIDE DEF r
<1>3. NextCount * r \in Nat /\ 0 < NextCount * r
  BY <1>1, <1>2
<1>4. Searched(s) \in {r, NextCount * r}
  BY Zenon DEF Searched, r
<1> QED
  BY <1>2, <1>3, <1>4

\* MinimumK finds, for every size of blocks, pages and headers, the first number of system
\* pages that leaves over no more than MaxPages + 1 of them.
THEOREM FirstNoWorseHolds == Spec => []FirstNoWorse
<1>1. size \in Nat /\ 0 < size => FirstNoWorse
  <2> SUFFICES ASSUME size \in Nat, 0 < size PROVE FirstNoWorse
    OBVIOUS
  <2> DEFINE a == Searched(size)
             noWorse == {k \in 1 .. MaxPages - 1 : Remainder(a, k) <= Remainder(a, MaxPages + 1)}
  <2>1. a \in Nat /\ 0 < a
    BY SearchedType
  <2> HIDE DEF a
  <2>2. MinimumK(a) = IF NoWorseFrom(a, 1) = {} THEN MaxPages + 1 ELSE Min(NoWorseFrom(a, 1))
    BY <2>1, FindsFirst
  <2>3. \A k \in 1 .. MaxPages - 1 : 1 <= k
    BY GeometryAssumption
  <2>4. NoWorseFrom(a, 1) = noWorse
    BY <2>3, Zenon DEF NoWorseFrom
  <2> QED
    BY <2>2, <2>4, Zenon DEF FirstNoWorse, a
<1> QED
  BY <1>1, SizeType, PTL
=============================================================================
