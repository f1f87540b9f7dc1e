---------------------------- MODULE BigPoolProofs ----------------------------
(***************************************************************************)
(* Proofs about BigPool: the inductive invariant BigInv of the pool of     *)
(* large blocks, built up from what its blocks, its regions and its places *)
(* of free blocks look like (Linked, Regioned, Filing), and what each of   *)
(* the operations of hpha's tree allocator does to them.                   *)
(***************************************************************************)
EXTENDS BigPool, InductionLemmas, FiniteSetTheorems

-----------------------------------------------------------------------------
(***************************************************************************)
(* The blocks of a pool, as a function B from addresses to headers.        *)
(***************************************************************************)

Start(k) == k * Page
Addresses == Page .. Start(PageCount + 1)
Block == [prev : {Null} \cup Addresses, size : Nat, used : BOOLEAN]

Heads(B) == {m \in DOMAIN B : B[m].size # 0}
After(B, m) == m + Header + B[m].size
FreeIn(B) == {m \in Heads(B) : ~B[m].used}
UsedIn(B) == {m \in Heads(B) : B[m].used}
FirstsOf(B) == {m \in Heads(B) : B[m].prev = Null}
TailsOf(B) == {m \in DOMAIN B : B[m].size = 0}

\* Blocks follow each other without overlap; one that follows another has a tag, and tails
\* count as used.
Linked(B) ==
  /\ DOMAIN B \subseteq Addresses
  /\ \A m \in DOMAIN B : B[m] \in Block
  /\ \A m \in TailsOf(B) : B[m].used
  /\ \A m \in Heads(B) : After(B, m) \in DOMAIN B
  /\ \A m \in DOMAIN B : \A n \in DOMAIN B : m < n => After(B, m) <= n
  /\ \A m \in Heads(B) : After(B, m) \in Heads(B) => B[After(B, m)].prev # Null

\* The tags are right, but for that of block l.
TaggedBut(B, l) ==
  \A m \in Heads(B) \ {l} : B[m].prev # Null => B[m].prev \in Heads(B) /\ After(B, B[m].prev) = m
Tagged(B) ==
  \A m \in Heads(B) : B[m].prev # Null => B[m].prev \in Heads(B) /\ After(B, B[m].prev) = m

\* The assumptions on sizes, one by one.
LEMMA SizesTyped ==
  /\ Header \in Nat \ {0} /\ FreeSize \in Nat \ {0} /\ SmallSize \in Nat \ {0}
  /\ Page \in Nat \ {0} /\ PageCount \in Nat \ {0} /\ Page > 2 * Header + FreeSize
  /\ Page >= 2 * Header + FreeSize + SmallSize
  BY SizesAssumption

\* Addresses are numbers above Null.
LEMMA AddressTyped ==
  ASSUME NEW a \in Addresses
  PROVE  a \in Nat /\ a > Null
  BY SizesTyped DEF Addresses, Null, Start

\* What a linked pool says about one block.
LEMMA BlockTyped ==
  ASSUME NEW B, Linked(B), NEW m \in DOMAIN B
  PROVE  /\ m \in Nat /\ m > Null /\ m \in Addresses
         /\ B[m] = [prev |-> B[m].prev, size |-> B[m].size, used |-> B[m].used]
         /\ B[m].prev \in Nat /\ B[m].size \in Nat /\ B[m].used \in BOOLEAN
         /\ B[m].prev \in {Null} \cup Addresses
         /\ After(B, m) \in Nat /\ m < After(B, m)
<1>1. m \in Addresses /\ B[m] \in Block
  BY DEF Linked
<1>2. m \in Nat /\ m > Null
  BY <1>1, AddressTyped
<1>3. /\ B[m] = [prev |-> B[m].prev, size |-> B[m].size, used |-> B[m].used]
      /\ B[m].prev \in {Null} \cup Addresses /\ B[m].size \in Nat /\ B[m].used \in BOOLEAN
  BY <1>1 DEF Block
<1>4. B[m].prev \in Nat
  BY <1>3, AddressTyped DEF Null
<1> QED
  BY <1>1, <1>2, <1>3, <1>4, SizesTyped DEF After

\* Two blocks that are followed by the same are the same.
LEMMA BeforeUnique ==
  ASSUME NEW B, Linked(B), NEW m \in Heads(B), NEW n \in Heads(B), After(B, m) = After(B, n)
  PROVE  m = n
<1>1. m \in DOMAIN B /\ n \in DOMAIN B
  BY DEF Heads
<1>2. (m < n => After(B, m) <= n) /\ (n < m => After(B, n) <= m)
  BY <1>1 DEF Linked
<1>3. m < After(B, m) /\ n < After(B, n) /\ m \in Nat /\ n \in Nat /\ After(B, m) \in Nat
  BY <1>1, BlockTyped
<1> QED
  BY <1>2, <1>3

\* With the tags right, the tag of a block that follows another points to that one.
LEMMA TagOfNext ==
  ASSUME NEW B, Linked(B), Tagged(B), NEW m \in Heads(B), After(B, m) \in Heads(B)
  PROVE  B[After(B, m)].prev = m
<1>1. B[After(B, m)].prev # Null
  BY DEF Linked
<1>2. B[After(B, m)].prev \in Heads(B) /\ After(B, B[After(B, m)].prev) = After(B, m)
  BY <1>1 DEF Tagged
<1> QED
  BY <1>2, BeforeUnique

-----------------------------------------------------------------------------
(***************************************************************************)
(* Two blocks become one, one becomes two.                                 *)
(***************************************************************************)
Merges(B, B1, m, n) ==
  /\ DOMAIN B1 = DOMAIN B \ {n}
  /\ \A k \in DOMAIN B \ {n} :
       B1[k] = [prev |-> IF k = After(B, n) THEN m ELSE B[k].prev,
                size |-> IF k = m THEN B[m].size + Header + B[n].size ELSE B[k].size,
                used |-> B[k].used]

\* The blocks after two have been merged.
LEMMA MergedBlocks ==
  ASSUME NEW B, Linked(B), NEW m \in Heads(B), NEW n \in Heads(B), After(B, m) = n,
         NEW B1, Merges(B, B1, m, n)
  PROVE  /\ \A k \in DOMAIN B1 : k \in DOMAIN B /\ B1[k] \in Block /\ k # n
         /\ m \in DOMAIN B1 /\ n \notin DOMAIN B1 /\ After(B, n) \in DOMAIN B1 /\ m < n /\ n < After(B, n)
         /\ Heads(B1) = Heads(B) \ {n} /\ TailsOf(B1) = TailsOf(B)
         /\ After(B1, m) = After(B, n)
         /\ \A k \in DOMAIN B1 : k # m => After(B1, k) = After(B, k)
<1>1. /\ m \in DOMAIN B /\ n \in DOMAIN B /\ m \in Nat /\ n \in Nat /\ m \in Addresses
      /\ B[m].size \in Nat /\ B[n].size \in Nat /\ B[n].size # 0 /\ B[m].size # 0
      /\ m < After(B, m) /\ n < After(B, n)
  BY BlockTyped DEF Heads
<1>2. After(B, n) \in DOMAIN B
  BY DEF Linked
<1>3. m < n /\ n < After(B, n)
  BY <1>1
<1>4. \A k \in DOMAIN B1 : k \in DOMAIN B /\ k # n
  BY DEF Merges
<1>5. ASSUME NEW k \in DOMAIN B1 PROVE B1[k] \in Block /\ (B1[k].size = 0 <=> B[k].size = 0)
  <2>1. k \in DOMAIN B /\ B[k] \in Block
    BY <1>4 DEF Linked
  <2>2. B[m].size + Header + B[n].size \in Nat \ {0}
    BY <1>1, SizesTyped
  <2>3. B1[k] = [prev |-> IF k = After(B, n) THEN m ELSE B[k].prev,
                 size |-> IF k = m THEN B[m].size + Header + B[n].size ELSE B[k].size,
                 used |-> B[k].used]
    BY <1>4 DEF Merges
  <2>4. m \in {Null} \cup Addresses
    BY <1>1
  <2>5. /\ B[k].prev \in {Null} \cup Addresses /\ B[k].size \in Nat /\ B[k].used \in BOOLEAN
    BY <2>1 DEF Block
  <2> QED
    BY <2>2, <2>3, <2>4, <2>5, <1>1 DEF Block
<1>6. m \in DOMAIN B1 /\ n \notin DOMAIN B1 /\ After(B, n) \in DOMAIN B1
  BY <1>1, <1>2, <1>3 DEF Merges
<1>7. After(B1, m) = After(B, n)
  <2>1. B1[m].size = B[m].size + Header + B[n].size
    BY <1>1, <1>3 DEF Merges
  <2>2. n = m + Header + B[m].size
    BY DEF After
  <2> QED
    BY <2>1, <2>2, <1>1, SizesTyped DEF After
<1>8. ASSUME NEW k \in DOMAIN B1, k # m PROVE After(B1, k) = After(B, k)
  <2>1. B1[k].size = B[k].size
    BY <1>8, <1>4 DEF Merges
  <2> QED
    BY <2>1 DEF After
<1>9. Heads(B1) = Heads(B) \ {n} /\ TailsOf(B1) = TailsOf(B)
  <2>1. DOMAIN B1 = DOMAIN B \ {n}
    BY DEF Merges
  <2>2. \A k \in DOMAIN B1 : B1[k].size = 0 <=> B[k].size = 0
    BY <1>5
  <2>3. n \notin TailsOf(B)
    BY <1>1 DEF TailsOf
  <2> QED
    BY <2>1, <2>2, <2>3 DEF Heads, TailsOf
<1> QED
  BY <1>3, <1>4, <1>5, <1>6, <1>7, <1>8, <1>9

\* They are linked as before.
LEMMA MergeLinked ==
  ASSUME NEW B, Linked(B), NEW m \in Heads(B), NEW n \in Heads(B), After(B, m) = n,
         NEW B1, Merges(B, B1, m, n)
  PROVE  Linked(B1) /\ (Tagged(B) => Tagged(B1)) /\ FirstsOf(B1) = FirstsOf(B)
<1>1. /\ \A k \in DOMAIN B1 : k \in DOMAIN B /\ B1[k] \in Block /\ k # n
      /\ m \in DOMAIN B1 /\ n \notin DOMAIN B1 /\ After(B, n) \in DOMAIN B1 /\ m < n /\ n < After(B, n)
      /\ Heads(B1) = Heads(B) \ {n} /\ TailsOf(B1) = TailsOf(B)
      /\ After(B1, m) = After(B, n)
      /\ \A k \in DOMAIN B1 : k # m => After(B1, k) = After(B, k)
  BY MergedBlocks
<1>2. DOMAIN B1 = DOMAIN B \ {n}
  BY DEF Merges
<1>3. \A k \in DOMAIN B1 : /\ B1[k].prev = IF k = After(B, n) THEN m ELSE B[k].prev
                           /\ B1[k].used = B[k].used
  BY <1>2 DEF Merges
<1>4. m \in DOMAIN B /\ n \in DOMAIN B /\ m \in Heads(B1)
  BY <1>1 DEF Heads
<1>5. \A k \in DOMAIN B : k \in Nat /\ k > Null
  BY BlockTyped
<1>6. DOMAIN B1 \subseteq Addresses /\ \A k \in TailsOf(B1) : B1[k].used
  BY <1>1, <1>2, <1>3 DEF Linked, TailsOf
<1>7. ASSUME NEW k \in Heads(B1) PROVE After(B1, k) \in DOMAIN B1
  <2>1. CASE k = m
    BY <1>1, <2>1
  <2>2. CASE k # m
    <3>1. k \in Heads(B) /\ k \in DOMAIN B1
      BY <1>1 DEF Heads
    <3>2. After(B1, k) = After(B, k) /\ After(B, k) \in DOMAIN B
      BY <1>1, <2>2, <3>1 DEF Linked
    <3>3. After(B, k) # n
      BY <2>2, <3>1, BeforeUnique
    <3> QED
      BY <1>2, <3>2, <3>3
  <2> QED
    BY <2>1, <2>2
<1>8. ASSUME NEW k \in DOMAIN B1, NEW l \in DOMAIN B1, k < l PROVE After(B1, k) <= l
  <2>1. k \in DOMAIN B /\ l \in DOMAIN B /\ l # n /\ After(B, k) <= l
    BY <1>1, <1>8 DEF Linked
  <2>2. CASE k # m
    BY <1>1, <2>1, <2>2
  <2>3. CASE k = m
    <3>1. n <= l
      BY <2>1, <2>3
    <3>2. n < l
      BY <2>1, <3>1, <1>4, <1>5
    <3>3. After(B, n) <= l
      BY <1>4, <2>1, <3>2 DEF Linked
    <3> QED
      BY <1>1, <2>3, <3>3
  <2> QED
    BY <2>2, <2>3
<1>9. ASSUME NEW k \in Heads(B1), After(B1, k) \in Heads(B1) PROVE B1[After(B1, k)].prev # Null
  <2>1. After(B1, k) \in DOMAIN B1
    BY <1>7
  <2>2. CASE After(B1, k) = After(B, n)
    BY <1>3, <1>4, <1>5, <2>1, <2>2
  <2>3. CASE After(B1, k) # After(B, n)
    <3>1. k # m /\ k \in Heads(B) /\ k \in DOMAIN B1
      BY <1>1, <2>3 DEF Heads
    <3>2. After(B1, k) = After(B, k) /\ After(B, k) \in Heads(B)
      BY <1>1, <1>9, <3>1
    <3>3. B[After(B, k)].prev # Null
      BY <3>1, <3>2 DEF Linked
    <3> QED
      BY <1>3, <2>1, <2>3, <3>2, <3>3
  <2> QED
    BY <2>2, <2>3
<1>10. Linked(B1)
  BY <1>1, <1>6, <1>7, <1>8, <1>9 DEF Linked
<1>11. ASSUME Tagged(B), NEW k \in Heads(B1), B1[k].prev # Null
       PROVE  B1[k].prev \in Heads(B1) /\ After(B1, B1[k].prev) = k
  <2>1. k \in Heads(B) /\ k \in DOMAIN B1
    BY <1>1 DEF Heads
  <2>2. CASE k = After(B, n)
    BY <1>1, <1>3, <1>4, <2>1, <2>2
  <2>3. CASE k # After(B, n)
    <3>1. B1[k].prev = B[k].prev
      BY <1>3, <2>1, <2>3
    <3>2. B[k].prev \in Heads(B) /\ After(B, B[k].prev) = k
      BY <1>11, <2>1, <3>1 DEF Tagged
    <3>3. B[k].prev # n /\ B[k].prev # m
      BY <1>1, <2>1, <2>3, <3>2
    <3>4. B[k].prev \in Heads(B1) /\ B[k].prev \in DOMAIN B1
      BY <1>1, <3>2, <3>3 DEF Heads
    <3> QED
      BY <1>1, <3>1, <3>2, <3>3, <3>4
  <2> QED
    BY <2>2, <2>3
<1>12. FirstsOf(B1) = FirstsOf(B)
  <2>1. B[n].prev # Null
    BY DEF Linked
  <2>2. After(B, n) \in Heads(B) => B[After(B, n)].prev # Null
    BY DEF Linked
  <2>3. ASSUME NEW k \in Heads(B1) PROVE B1[k].prev = Null <=> B[k].prev = Null
    <3>1. k \in Heads(B) /\ k \in DOMAIN B1
      BY <1>1 DEF Heads
    <3>2. CASE k = After(B, n)
      BY <1>3, <1>4, <1>5, <2>2, <3>1, <3>2
    <3>3. CASE k # After(B, n)
      BY <1>3, <3>1, <3>3
    <3> QED
      BY <3>2, <3>3
  <2> QED
    BY <1>1, <2>1, <2>3 DEF FirstsOf
<1> QED
  BY <1>10, <1>11, <1>12 DEF Tagged

Splits(B, B1, m, sz) ==
  LET rest == m + Header + sz
  IN /\ DOMAIN B1 = DOMAIN B \cup {rest}
     /\ \A k \in DOMAIN B \cup {rest} :
          B1[k] = [prev |-> B1[k].prev, size |-> B1[k].size, used |-> B1[k].used]
     /\ B1[rest].prev = m /\ B1[rest].size = B[m].size - sz - Header /\ B1[rest].used = FALSE
     /\ \A k \in DOMAIN B : k # rest =>
          /\ B1[k].prev = IF k = After(B, m) THEN rest ELSE B[k].prev
          /\ B1[k].size = IF k = m THEN sz ELSE B[k].size
          /\ B1[k].used = B[k].used

\* The blocks after one has been split.
LEMMA SplitBlocks ==
  ASSUME NEW B, Linked(B), NEW m \in Heads(B), NEW sz \in Nat \ {0},
         B[m].size > sz + Header + FreeSize, NEW B1, Splits(B, B1, m, sz)
  PROVE  LET rest == m + Header + sz
         IN /\ rest \notin DOMAIN B /\ rest \in DOMAIN B1 /\ rest \in Addresses
            /\ m < rest /\ rest < After(B, m) /\ After(B, m) \in DOMAIN B
            /\ DOMAIN B1 = DOMAIN B \cup {rest}
            /\ \A k \in DOMAIN B1 : B1[k] \in Block
            /\ Heads(B1) = Heads(B) \cup {rest} /\ TailsOf(B1) = TailsOf(B)
            /\ B1[m].size = sz /\ B1[rest].prev = m /\ ~B1[rest].used
            /\ B1[rest].size = B[m].size - sz - Header
            /\ \A k \in DOMAIN B :
                 /\ k # m => B1[k].size = B[k].size
                 /\ B1[k].used = B[k].used
                 /\ B1[k].prev = IF k = After(B, m) THEN rest ELSE B[k].prev
            /\ After(B1, m) = rest /\ After(B1, rest) = After(B, m)
            /\ \A k \in DOMAIN B : k # m => After(B1, k) = After(B, k)
<1> DEFINE rest == m + Header + sz
<1>1. /\ m \in DOMAIN B /\ m \in Nat /\ m \in Addresses
      /\ B[m].size \in Nat /\ m < After(B, m) /\ After(B, m) = m + Header + B[m].size
      /\ After(B, m) \in Nat
  BY BlockTyped DEF Heads, After
<1>2. After(B, m) \in DOMAIN B /\ After(B, m) \in Addresses
  BY DEF Linked
<1>3. m < rest /\ rest < After(B, m) /\ rest \in Nat
  BY <1>1, SizesTyped
<1>4. rest \in Addresses
  BY <1>1, <1>2, <1>3, SizesTyped DEF Addresses, Start
<1>5. rest \notin DOMAIN B
  <2> SUFFICES ASSUME rest \in DOMAIN B PROVE FALSE
    OBVIOUS
  <2>1. After(B, m) <= rest
    BY <1>1, <1>3 DEF Linked
  <2> QED
    BY <2>1, <1>1, <1>3
<1>6. DOMAIN B1 = DOMAIN B \cup {rest}
  BY DEF Splits
<1>7. /\ B1[rest].prev = m /\ B1[rest].size = B[m].size - sz - Header /\ B1[rest].used = FALSE
      /\ \A k \in DOMAIN B1 :
           B1[k] = [prev |-> B1[k].prev, size |-> B1[k].size, used |-> B1[k].used]
  BY DEF Splits
<1>a. B[m].size - sz - Header \in Nat \ {0}
  BY <1>1, SizesTyped
<1>8. \A k \in DOMAIN B : /\ B1[k].prev = IF k = After(B, m) THEN rest ELSE B[k].prev
                          /\ B1[k].size = IF k = m THEN sz ELSE B[k].size
                          /\ B1[k].used = B[k].used
  BY <1>5 DEF Splits
<1> HIDE DEF rest
<1>9. ASSUME NEW k \in DOMAIN B1 PROVE B1[k] \in Block
  <2>1. CASE k = rest
    <3>1. m \in {Null} \cup Addresses
      BY <1>1
    <3> QED
      <4>1. k \in DOMAIN B1 /\ FALSE \in BOOLEAN
        OBVIOUS
      <4>2. /\ B1[k].prev \in {Null} \cup Addresses /\ B1[k].size \in Nat /\ B1[k].used \in BOOLEAN
        BY <1>7, <1>a, <2>1, <3>1
      <4> QED
        BY <1>7, <4>1, <4>2 DEF Block
  <2>2. CASE k # rest
    <3>1. k \in DOMAIN B /\ B[k] \in Block
      BY <1>6, <2>2 DEF Linked
    <3>2. /\ B[k].prev \in {Null} \cup Addresses /\ B[k].size \in Nat /\ B[k].used \in BOOLEAN
      BY <3>1 DEF Block
    <3> QED
      <4>1. /\ B1[k].prev \in {Null} \cup Addresses /\ B1[k].size \in Nat /\ B1[k].used \in BOOLEAN
        BY <1>4, <1>8, <3>1, <3>2
      <4> QED
        BY <1>7, <4>1 DEF Block
  <2> QED
    BY <2>1, <2>2
<1>10. Heads(B1) = Heads(B) \cup {rest} /\ TailsOf(B1) = TailsOf(B)
  <2>1. \A k \in DOMAIN B : B1[k].size = 0 <=> B[k].size = 0
    BY <1>8 DEF Heads
  <2>2. B1[rest].size # 0
    BY <1>7, <1>a
  <2> QED
    BY <1>5, <1>6, <2>1, <2>2 DEF Heads, TailsOf
<1>11. B1[m].size = sz /\ rest = m + Header + sz
  BY <1>1, <1>8 DEF rest
<1>12. After(B1, m) = rest
  BY <1>11 DEF After
<1>13. After(B1, rest) = After(B, m)
  BY <1>1, <1>7, <1>a, <1>11, SizesTyped DEF After
<1>14. \A k \in DOMAIN B : k # m => B1[k].size = B[k].size /\ After(B1, k) = After(B, k)
  BY <1>8 DEF After
<1>15. \A k \in DOMAIN B : B1[k].used = B[k].used /\ B1[k].prev = IF k = After(B, m) THEN rest ELSE B[k].prev
  BY <1>8
<1> QED
  BY <1>2, <1>3, <1>4, <1>5, <1>6, <1>7, <1>9, <1>10, <1>11, <1>12, <1>13, <1>14, <1>15 DEF rest

\* They are linked as before, and the tag of the block behind is right even if it was not.
LEMMA SplitLinked ==
  ASSUME NEW B, Linked(B), NEW m \in Heads(B), NEW sz \in Nat \ {0},
         B[m].size > sz + Header + FreeSize, NEW B1, Splits(B, B1, m, sz)
  PROVE  Linked(B1) /\ (TaggedBut(B, After(B, m)) => Tagged(B1)) /\ FirstsOf(B1) = FirstsOf(B)
<1> DEFINE rest == m + Header + sz
<1>1. /\ rest \notin DOMAIN B /\ rest \in DOMAIN B1 /\ rest \in Addresses
      /\ m < rest /\ rest < After(B, m) /\ After(B, m) \in DOMAIN B
      /\ DOMAIN B1 = DOMAIN B \cup {rest}
      /\ \A k \in DOMAIN B1 : B1[k] \in Block
      /\ Heads(B1) = Heads(B) \cup {rest} /\ TailsOf(B1) = TailsOf(B)
      /\ B1[rest].prev = m
      /\ \A k \in DOMAIN B :
           /\ B1[k].used = B[k].used
           /\ B1[k].prev = IF k = After(B, m) THEN rest ELSE B[k].prev
      /\ After(B1, m) = rest /\ After(B1, rest) = After(B, m)
      /\ \A k \in DOMAIN B : k # m => After(B1, k) = After(B, k)
  BY SplitBlocks
<1> HIDE DEF rest
<1>2. m \in DOMAIN B /\ \A k \in DOMAIN B : k \in Nat /\ k > Null
  BY BlockTyped DEF Heads
<1>3. rest \in Nat /\ rest > Null
  BY <1>1, AddressTyped
<1>4. DOMAIN B1 \subseteq Addresses /\ \A k \in TailsOf(B1) : B1[k].used
  BY <1>1 DEF Linked, TailsOf
<1>5. \A k \in Heads(B) : k \in DOMAIN B
  BY DEF Heads
<1>6. ASSUME NEW k \in Heads(B1) PROVE After(B1, k) \in DOMAIN B1
  <2>1. CASE k = m \/ k = rest
    BY <1>1, <2>1
  <2>2. CASE k # m /\ k # rest
    <3>1. k \in Heads(B) /\ After(B, k) \in DOMAIN B
      BY <1>1, <2>2 DEF Linked
    <3> QED
      BY <1>1, <1>5, <2>2, <3>1
  <2> QED
    BY <2>1, <2>2
<1>7. ASSUME NEW k \in DOMAIN B1, NEW l \in DOMAIN B1, k < l PROVE After(B1, k) <= l
  <2>1. CASE k \in DOMAIN B /\ l \in DOMAIN B
    <3>1. After(B, k) <= l
      BY <1>7, <2>1 DEF Linked
    <3>2. CASE k # m
      BY <1>1, <2>1, <3>1, <3>2
    <3>3. CASE k = m
      <4>1. After(B, m) \in Nat
        BY <1>1, <1>2
      <4> QED
        BY <1>1, <1>2, <1>3, <2>1, <3>1, <3>3, <4>1
    <3> QED
      BY <3>2, <3>3
  <2>2. CASE k = rest /\ l \in DOMAIN B
    <3>1. m < l
      BY <1>1, <1>2, <1>3, <1>7, <2>2
    <3>2. After(B, m) <= l
      BY <1>2, <2>2, <3>1 DEF Linked
    <3> QED
      BY <1>1, <2>2, <3>2
  <2>3. CASE k \in DOMAIN B /\ l = rest
    <3>1. CASE k = m
      BY <1>1, <1>3, <2>3, <3>1
    <3>2. CASE k < m
      <4>1. After(B, k) <= m
        BY <1>2, <2>3, <3>2 DEF Linked
      <4>2. After(B, k) \in Nat
        BY <2>3, BlockTyped
      <4> QED
        BY <1>1, <1>2, <1>3, <2>3, <3>2, <4>1, <4>2
    <3>3. CASE m < k
      <4>1. After(B, m) <= k
        BY <1>2, <2>3, <3>3 DEF Linked
      <4>2. After(B, m) \in Nat
        BY <1>1, <1>2
      <4> QED
        BY <1>1, <1>2, <1>3, <1>7, <2>3, <4>1, <4>2
    <3> QED
      BY <1>2, <2>3, <3>1, <3>2, <3>3
  <2>4. k # l
    BY <1>1, <1>2, <1>3, <1>7
  <2> QED
    BY <1>1, <2>1, <2>2, <2>3, <2>4
<1>8. ASSUME NEW k \in Heads(B1), After(B1, k) \in Heads(B1) PROVE B1[After(B1, k)].prev # Null
  <2>1. CASE k = m
    BY <1>1, <1>2, <2>1
  <2>2. CASE k = rest
    BY <1>1, <1>3, <2>2
  <2>3. CASE k # m /\ k # rest
    <3>1. k \in Heads(B) /\ After(B1, k) = After(B, k) /\ After(B, k) \in DOMAIN B
      BY <1>1, <1>5, <2>3 DEF Linked
    <3>2. After(B, k) \in Heads(B)
      BY <1>1, <1>8, <3>1
    <3>3. B[After(B, k)].prev # Null
      BY <3>1, <3>2 DEF Linked
    <3> QED
      BY <1>1, <1>3, <3>1, <3>3
  <2> QED
    BY <2>1, <2>2, <2>3
<1>9. Linked(B1)
  BY <1>1, <1>4, <1>6, <1>7, <1>8 DEF Linked
<1>10. ASSUME TaggedBut(B, After(B, m)), NEW k \in Heads(B1), B1[k].prev # Null
       PROVE  B1[k].prev \in Heads(B1) /\ After(B1, B1[k].prev) = k
  <2>1. CASE k = rest
    BY <1>1, <2>1
  <2>2. CASE k = After(B, m)
    BY <1>1, <2>2
  <2>3. CASE k # rest /\ k # After(B, m)
    <3>1. k \in Heads(B) /\ B1[k].prev = B[k].prev
      BY <1>1, <1>5, <2>3
    <3>2. B[k].prev \in Heads(B) /\ After(B, B[k].prev) = k
      BY <1>10, <2>3, <3>1 DEF TaggedBut
    <3>3. B[k].prev # m
      BY <2>3, <3>2
    <3> QED
      BY <1>1, <1>5, <3>1, <3>2, <3>3
  <2> QED
    BY <2>1, <2>2, <2>3
<1>11. FirstsOf(B1) = FirstsOf(B)
  <2>1. After(B, m) \in Heads(B) => B[After(B, m)].prev # Null
    BY DEF Linked
  <2>2. ASSUME NEW k \in Heads(B) PROVE B1[k].prev = Null <=> B[k].prev = Null
    <3>1. CASE k = After(B, m)
      BY <1>1, <1>3, <2>1, <3>1
    <3>2. CASE k # After(B, m)
      BY <1>1, <1>5, <3>2
    <3> QED
      BY <3>1, <3>2
  <2>3. B1[rest].prev # Null
    BY <1>1, <1>2
  <2> QED
    BY <1>1, <2>2, <2>3 DEF FirstsOf
<1> QED
  BY <1>9, <1>10, <1>11 DEF Tagged

-----------------------------------------------------------------------------
(***************************************************************************)
(* The same of pools.                                                      *)
(***************************************************************************)

IsPool(s) ==
  /\ s = [block |-> s.block, cached |-> s.cached, mr |-> s.mr, small |-> s.small,
          tree |-> s.tree, mapped |-> s.mapped]
  /\ s.block = [m \in DOMAIN s.block |-> s.block[m]]

\* Only the blocks of t differ from those of s.
SameLists(s, t) == t.mr = s.mr /\ t.small = s.small /\ t.tree = s.tree /\ t.mapped = s.mapped

\* The operators of BigPool in terms of the blocks.
LEMMA PoolOperators ==
  ASSUME NEW s, NEW m
  PROVE  /\ NextOf(s, m) = After(s.block, m) /\ Size(s, m) = s.block[m].size
         /\ Prev(s, m) = s.block[m].prev /\ IsUsed(s, m) = s.block[m].used
  BY DEF NextOf, After, Size, Prev, IsUsed

\* Merge merges.
LEMMA MergeMerges ==
  ASSUME NEW s, IsPool(s), Linked(s.block), NEW m \in Heads(s.block), NEW n \in Heads(s.block),
         After(s.block, m) = n
  PROVE  LET t == Merge(s, m, n)
         IN IsPool(t) /\ SameLists(s, t) /\ t.cached = s.cached /\ Merges(s.block, t.block, m, n)
<1> DEFINE B == s.block
           l == After(B, n)
           grown == [B EXCEPT ![m].size = @ + Header + B[n].size, ![l].prev = m]
           C == Restrict(grown, DOMAIN grown \ {n})
           t == Merge(s, m, n)
<1>1. t = [s EXCEPT !.block = C]
  BY Zenon, PoolOperators DEF Merge
<1>2. IsPool(t) /\ SameLists(s, t) /\ t.cached = s.cached /\ t.block = C
  <2>1. C = [k \in DOMAIN C |-> C[k]]
    BY DEF Restrict
  <2> HIDE DEF C
  <2> QED
    BY <1>1, <2>1 DEF IsPool, SameLists
<1>3. /\ m \in DOMAIN B /\ n \in DOMAIN B /\ l \in DOMAIN B
      /\ m # n /\ l # m
  BY BlockTyped DEF Linked, Heads
<1>4. \A k \in DOMAIN B : B[k] = [prev |-> B[k].prev, size |-> B[k].size, used |-> B[k].used]
  BY BlockTyped
<1> HIDE DEF B, l
<1>5. DOMAIN grown = DOMAIN B
  OBVIOUS
<1>6. ASSUME NEW k \in DOMAIN B
      PROVE  grown[k] = [prev |-> IF k = l THEN m ELSE B[k].prev,
                         size |-> IF k = m THEN B[m].size + Header + B[n].size ELSE B[k].size,
                         used |-> B[k].used]
  <2>1. CASE k = m
    BY <1>3, <1>4, <2>1
  <2>2. CASE k = l
    BY <1>3, <1>4, <2>2
  <2>3. CASE k # m /\ k # l
    BY <1>3, <1>4, <2>3
  <2> QED
    BY <2>1, <2>2, <2>3
<1> HIDE DEF grown
<1>7. DOMAIN C = DOMAIN B \ {n} /\ \A k \in DOMAIN B \ {n} : C[k] = grown[k]
  BY <1>5 DEF Restrict
<1> HIDE DEF C
<1>8. Merges(B, C, m, n)
  BY <1>6, <1>7 DEF Merges, l
<1> QED
  BY <1>2, <1>8 DEF B

\* Split splits.
LEMMA SplitSplits ==
  ASSUME NEW s, IsPool(s), Linked(s.block), NEW m \in Heads(s.block), NEW sz \in Nat \ {0},
         s.block[m].size > sz + Header + FreeSize
  PROVE  LET t == Split(s, m, sz)
         IN IsPool(t) /\ SameLists(s, t) /\ t.cached = s.cached /\ Splits(s.block, t.block, m, sz)
<1> DEFINE B == s.block
           l == After(B, m)
           rest == m + Header + sz
           old == [B EXCEPT ![m].size = sz, ![l].prev = rest]
           new == [prev |-> m, size |-> B[m].size - sz - Header, used |-> FALSE]
           C == With(old, rest, new)
           t == Split(s, m, sz)
<1>1. t = [s EXCEPT !.block = C]
  BY Zenon, PoolOperators DEF Split, RestOf
<1>2. IsPool(t) /\ SameLists(s, t) /\ t.cached = s.cached /\ t.block = C
  <2>1. C = [k \in DOMAIN C |-> C[k]]
    BY DEF With
  <2> HIDE DEF C
  <2> QED
    BY <1>1, <2>1 DEF IsPool, SameLists
<1>3. m \in DOMAIN B /\ l \in DOMAIN B /\ l # m
  BY BlockTyped DEF Linked, Heads
<1>4. \A k \in DOMAIN B : B[k] = [prev |-> B[k].prev, size |-> B[k].size, used |-> B[k].used]
  BY BlockTyped
<1> HIDE DEF B, l, rest
<1>5. DOMAIN old = DOMAIN B
  OBVIOUS
<1>6. ASSUME NEW k \in DOMAIN B
      PROVE  old[k] = [prev |-> IF k = l THEN rest ELSE B[k].prev,
                       size |-> IF k = m THEN sz ELSE B[k].size, used |-> B[k].used]
  <2>1. CASE k = m
    BY <1>3, <1>4, <2>1
  <2>2. CASE k = l
    BY <1>3, <1>4, <2>2
  <2>3. CASE k # m /\ k # l
    BY <1>3, <1>4, <2>3
  <2> QED
    BY <2>1, <2>2, <2>3
<1> HIDE DEF old, new
<1>7. /\ DOMAIN C = DOMAIN B \cup {rest} /\ C[rest] = new
      /\ \A k \in DOMAIN B : k # rest => C[k] = old[k]
  BY <1>5 DEF With
<1> HIDE DEF C
<1>8. \A k \in DOMAIN B \cup {rest} :
        C[k] = [prev |-> C[k].prev, size |-> C[k].size, used |-> C[k].used]
  BY <1>6, <1>7 DEF new
<1>9. C[rest].prev = m /\ C[rest].size = B[m].size - sz - Header /\ C[rest].used = FALSE
  BY <1>7 DEF new
<1>10. \A k \in DOMAIN B : k # rest =>
          /\ C[k].prev = IF k = l THEN rest ELSE B[k].prev
          /\ C[k].size = IF k = m THEN sz ELSE B[k].size
          /\ C[k].used = B[k].used
  <2> SUFFICES ASSUME NEW k \in DOMAIN B, k # rest
               PROVE  /\ C[k].prev = IF k = l THEN rest ELSE B[k].prev
                      /\ C[k].size = IF k = m THEN sz ELSE B[k].size
                      /\ C[k].used = B[k].used
    OBVIOUS
  <2> DEFINE pk == IF k = l THEN rest ELSE B[k].prev
             sk == IF k = m THEN sz ELSE B[k].size
  <2>1. C[k] = old[k] /\ old[k] = [prev |-> pk, size |-> sk, used |-> B[k].used]
    BY <1>6, <1>7, Zenon
  <2> HIDE DEF pk, sk
  <2>2. C[k].prev = pk /\ C[k].size = sk /\ C[k].used = B[k].used
    BY <2>1
  <2> QED
    BY <2>2 DEF pk, sk
<1>11. Splits(B, C, m, sz)
  BY <1>7, <1>8, <1>9, <1>10 DEF Splits, l, rest
<1> QED
  BY <1>2, <1>11 DEF B

-----------------------------------------------------------------------------
(***************************************************************************)
(* What the blocks are in: regions of pages, and the places of free        *)
(* blocks.                                                                 *)
(***************************************************************************)

\* The region of the pages k to e - 1, with first blocks F and tails T, t being its own.
Region(F, T, k, e, t) ==
  /\ k \in 1 .. PageCount /\ e \in (k + 1) .. (PageCount + 1)
  /\ Start(k) \in F /\ t \in T /\ Start(k) < t
  /\ Start(e) <= t + Header + FreeSize /\ t + Header <= Start(e)
  /\ \A x \in F \cup T : ~(Start(k) < x /\ x < t)

RegionedBy(D, F, T, mapped) ==
  /\ \A m \in D : \E k, e, t : Region(F, T, k, e, t) /\ Start(k) <= m /\ m <= t
  /\ \A p : p \in mapped <=> \E k, e, t : Region(F, T, k, e, t) /\ p \in k .. (e - 1)
Regioned(B, mapped) == RegionedBy(DOMAIN B, FirstsOf(B), TailsOf(B), mapped)

\* The free blocks are those in the places of the pool and those of X.
Filing(B, mr, small, tree, X) ==
  /\ FreeIn(B) = ({mr} \ {Null}) \cup small \cup tree \cup X
  /\ mr \notin small \cup tree \cup X
  /\ X \cap (small \cup tree) = {}
  /\ \A m \in small : B[m].size < SmallSize
  /\ \A m \in tree : B[m].size >= SmallSize

\* Of two free blocks side by side one is in Y.
Apart(B, Y) == \A m \in FreeIn(B) : After(B, m) \in FreeIn(B) => m \in Y \/ After(B, m) \in Y

\* What all operations on a pool keep, with the blocks X taken out of their places, or not
\* put into one yet.
Kept(s, X) ==
  /\ IsPool(s) /\ Linked(s.block) /\ Regioned(s.block, s.mapped)
  /\ Filing(s.block, s.mr, s.small, s.tree, X)

\* The blocks in use, but for those of Z, are the same and have their sizes.
UsedSame(B, B1, Z) ==
  \A k : k \notin Z => /\ k \in UsedIn(B1) <=> k \in UsedIn(B)
                       /\ k \in UsedIn(B) => B1[k].size = B[k].size

\* Null is no block.
LEMMA NullNoBlock ==
  ASSUME NEW B, Linked(B)
  PROVE  Null \notin DOMAIN B /\ Null \notin Heads(B) /\ Null \notin FreeIn(B)
  BY BlockTyped DEF Heads, FreeIn, Null

\* A block is free or used, or a tail.
LEMMA FreeOrUsed ==
  ASSUME NEW B, Linked(B)
  PROVE  /\ FreeIn(B) \cap UsedIn(B) = {} /\ Heads(B) = FreeIn(B) \cup UsedIn(B)
         /\ FreeIn(B) \subseteq Heads(B) /\ UsedIn(B) \subseteq Heads(B) /\ Heads(B) \subseteq DOMAIN B
  BY DEF FreeIn, UsedIn, Heads

\* What it is to merge m with n.
Merged(s, X, t, m, n) ==
  /\ Kept(t, X \ {n}) /\ SameLists(s, t) /\ t.cached = s.cached
  /\ Tagged(s.block) => Tagged(t.block)
  /\ Heads(t.block) = Heads(s.block) \ {n} /\ FreeIn(t.block) = FreeIn(s.block) \ {n}
  /\ UsedIn(t.block) = UsedIn(s.block)
  /\ t.block[m].size = s.block[m].size + Header + s.block[n].size
  /\ \A k \in Heads(t.block) : k # m => t.block[k].size = s.block[k].size
  /\ After(t.block, m) = After(s.block, n)
  /\ \A k \in Heads(t.block) : k # m => After(t.block, k) = After(s.block, k)
  /\ \A k \in Heads(t.block) : k # After(s.block, n) => t.block[k].prev = s.block[k].prev
  /\ After(s.block, n) \in Heads(t.block) => t.block[After(s.block, n)].prev = m
  /\ m < n

\* Two blocks of a pool are merged, of which the second is out of its place and the first
\* too, if it is free.
LEMMA KeptMerge ==
  ASSUME NEW s, NEW X, Kept(s, X), NEW m \in Heads(s.block), NEW n \in X, After(s.block, m) = n,
         s.block[m].used \/ m \in X
  PROVE  Merged(s, X, Merge(s, m, n), m, n)
<1> DEFINE t == Merge(s, m, n)
           B == s.block
           C == t.block
<1>1. IsPool(s) /\ Linked(B) /\ Regioned(B, s.mapped) /\ Filing(B, s.mr, s.small, s.tree, X)
  BY DEF Kept
<1>2. n \in FreeIn(B) /\ n \in Heads(B) /\ n \in DOMAIN B /\ ~B[n].used
  BY <1>1 DEF Filing, FreeIn, Heads
<1>3. IsPool(t) /\ SameLists(s, t) /\ t.cached = s.cached /\ Merges(B, C, m, n)
  BY <1>1, <1>2, MergeMerges
<1>4. Linked(C) /\ (Tagged(B) => Tagged(C)) /\ FirstsOf(C) = FirstsOf(B)
  BY <1>1, <1>2, <1>3, MergeLinked
<1>a. m \in Heads(B) /\ After(B, m) = n
  OBVIOUS
<1> HIDE DEF t, B, C
<1>5. /\ \A k \in DOMAIN C : k \in DOMAIN B /\ C[k] \in Block /\ k # n
      /\ m \in DOMAIN C /\ n \notin DOMAIN C /\ After(B, n) \in DOMAIN C /\ m < n /\ n < After(B, n)
      /\ Heads(C) = Heads(B) \ {n} /\ TailsOf(C) = TailsOf(B)
      /\ After(C, m) = After(B, n)
      /\ \A k \in DOMAIN C : k # m => After(C, k) = After(B, k)
  BY <1>1, <1>2, <1>3, <1>a, MergedBlocks, Zenon
<1>6. Regioned(C, t.mapped)
  BY <1>1, <1>3, <1>4, <1>5 DEF Regioned, RegionedBy, SameLists
<1>7. \A k \in DOMAIN C : C[k] = [prev |-> IF k = After(B, n) THEN m ELSE B[k].prev,
                                  size |-> IF k = m THEN B[m].size + Header + B[n].size ELSE B[k].size,
                                  used |-> B[k].used]
  BY <1>3 DEF Merges
<1>8. \A k \in DOMAIN C : /\ C[k].prev = IF k = After(B, n) THEN m ELSE B[k].prev
                          /\ C[k].size = IF k = m THEN B[m].size + Header + B[n].size ELSE B[k].size
                          /\ C[k].used = B[k].used
  <2> SUFFICES ASSUME NEW k \in DOMAIN C
               PROVE  /\ C[k].prev = IF k = After(B, n) THEN m ELSE B[k].prev
                      /\ C[k].size = IF k = m THEN B[m].size + Header + B[n].size ELSE B[k].size
                      /\ C[k].used = B[k].used
    OBVIOUS
  <2> DEFINE pk == IF k = After(B, n) THEN m ELSE B[k].prev
             sk == IF k = m THEN B[m].size + Header + B[n].size ELSE B[k].size
  <2>1. C[k] = [prev |-> pk, size |-> sk, used |-> B[k].used]
    BY <1>7, Zenon
  <2> HIDE DEF pk, sk
  <2>2. C[k].prev = pk /\ C[k].size = sk /\ C[k].used = B[k].used
    BY <2>1
  <2> QED
    BY <2>2 DEF pk, sk
<1>9. FreeIn(C) = FreeIn(B) \ {n} /\ UsedIn(C) = UsedIn(B)
  <2>1. \A k \in Heads(C) : k \in DOMAIN C
    BY DEF Heads
  <2>2. \A k \in Heads(C) : C[k].used <=> B[k].used
    BY <1>8, <2>1
  <2>3. n \notin UsedIn(B)
    BY <1>2 DEF UsedIn
  <2> QED
    BY <1>5, <2>2, <2>3 DEF FreeIn, UsedIn
<1>10. \A k \in Heads(C) : k # m => C[k].size = B[k].size
  BY <1>8 DEF Heads
<1>11. Filing(C, t.mr, t.small, t.tree, X \ {n})
  <2>1. m \notin s.small \cup s.tree
    <3>1. CASE m \in X
      BY <1>1, <3>1 DEF Filing, B
    <3>2. CASE B[m].used
      BY <1>1, <3>2 DEF Filing, FreeIn, B
    <3> QED
      BY <3>1, <3>2 DEF B
  <2>2. n \notin s.small \cup s.tree \cup {s.mr}
    BY <1>1 DEF Filing
  <2>3. s.small \subseteq Heads(C) /\ s.tree \subseteq Heads(C)
    BY <1>1, <1>5, <2>2 DEF Filing, FreeIn
  <2>4. /\ \A k \in s.small : C[k].size < SmallSize
        /\ \A k \in s.tree : C[k].size >= SmallSize
    BY <1>1, <1>10, <2>1, <2>3 DEF Filing
  <2>5. FreeIn(C) = ({s.mr} \ {Null}) \cup s.small \cup s.tree \cup (X \ {n})
    BY <1>1, <1>9, <2>2 DEF Filing
  <2> QED
    BY <1>1, <1>3, <2>4, <2>5 DEF Filing, SameLists
<1>12. Kept(t, X \ {n})
  BY <1>3, <1>4, <1>6, <1>11 DEF Kept, C
<1>13. Heads(C) \subseteq DOMAIN C
  BY DEF Heads
<1>14. C[m].size = B[m].size + Header + B[n].size
  BY <1>5, <1>8
<1>15. \A k \in Heads(C) : k # m => After(C, k) = After(B, k)
  BY <1>5, <1>13
<1>16. /\ \A k \in Heads(C) : k # After(B, n) => C[k].prev = B[k].prev
       /\ After(B, n) \in Heads(C) => C[After(B, n)].prev = m
  BY <1>8, <1>13
<1> QED
  BY <1>3, <1>4, <1>5, <1>9, <1>10, <1>12, <1>14, <1>15, <1>16 DEF t, B, C, Merged

\* What it is to split m at sz, so that rest is a block.
SplitAt(s, X, t, m, sz, rest) ==
  /\ Kept(t, X \cup {rest}) /\ SameLists(s, t) /\ t.cached = s.cached
  /\ TaggedBut(s.block, After(s.block, m)) => Tagged(t.block)
  /\ Heads(t.block) = Heads(s.block) \cup {rest}
  /\ FreeIn(t.block) = FreeIn(s.block) \cup {rest}
  /\ UsedIn(t.block) = UsedIn(s.block)
  /\ rest \notin DOMAIN s.block /\ rest \in Nat \ {Null}
  /\ t.block[m].size = sz
  /\ \A k \in Heads(s.block) : k # m => t.block[k].size = s.block[k].size
  /\ After(t.block, m) = rest /\ After(t.block, rest) = After(s.block, m)
  /\ \A k \in Heads(s.block) : k # m => After(t.block, k) = After(s.block, k)
  /\ t.block[rest].prev = m /\ ~t.block[rest].used

\* A block in use, or out of its place, is split.
LEMMA KeptSplit ==
  ASSUME NEW s, NEW X, Kept(s, X), NEW m \in Heads(s.block), NEW sz \in Nat \ {0},
         CanSplit(s, m, sz), s.block[m].used \/ m \in X
  PROVE  SplitAt(s, X, Split(s, m, sz), m, sz, RestOf(m, sz))
<1> DEFINE t == Split(s, m, sz)
           B == s.block
           C == t.block
           rest == m + Header + sz
<1>1. IsPool(s) /\ Linked(B) /\ Regioned(B, s.mapped) /\ Filing(B, s.mr, s.small, s.tree, X)
  BY DEF Kept
<1>2. B[m].size > sz + Header + FreeSize /\ RestOf(m, sz) = rest
  BY PoolOperators DEF CanSplit, RestOf
<1>3. IsPool(t) /\ SameLists(s, t) /\ t.cached = s.cached /\ Splits(B, C, m, sz)
  BY <1>1, <1>2, SplitSplits
<1>4. Linked(C) /\ (TaggedBut(B, After(B, m)) => Tagged(C)) /\ FirstsOf(C) = FirstsOf(B)
  BY <1>1, <1>2, <1>3, SplitLinked
<1>a. m \in Heads(B) /\ sz \in Nat \ {0}
  OBVIOUS
<1> HIDE DEF t, B, C
<1>5. /\ rest \notin DOMAIN B /\ rest \in DOMAIN C /\ rest \in Addresses
      /\ m < rest /\ rest < After(B, m) /\ After(B, m) \in DOMAIN B
      /\ DOMAIN C = DOMAIN B \cup {rest}
      /\ \A k \in DOMAIN C : C[k] \in Block
      /\ Heads(C) = Heads(B) \cup {rest} /\ TailsOf(C) = TailsOf(B)
      /\ C[m].size = sz /\ C[rest].prev = m /\ ~C[rest].used
      /\ C[rest].size = B[m].size - sz - Header
      /\ \A k \in DOMAIN B :
           /\ k # m => C[k].size = B[k].size
           /\ C[k].used = B[k].used
           /\ C[k].prev = IF k = After(B, m) THEN rest ELSE B[k].prev
      /\ After(C, m) = rest /\ After(C, rest) = After(B, m)
      /\ \A k \in DOMAIN B : k # m => After(C, k) = After(B, k)
  BY <1>1, <1>2, <1>3, <1>a, SplitBlocks, Zenon
<1> HIDE DEF rest
<1>6. rest \in Nat \ {Null}
  BY <1>5, AddressTyped
<1>7. \A k \in Heads(B) : k \in DOMAIN B
  BY DEF Heads
<1>8. Regioned(C, t.mapped)
  <2>1. \E k, e, l : Region(FirstsOf(B), TailsOf(B), k, e, l) /\ Start(k) <= rest /\ rest <= l
    <3>1. m \in DOMAIN B /\ B[m].size # 0
      BY DEF Heads, B
    <3>2. PICK k, e, l : Region(FirstsOf(B), TailsOf(B), k, e, l) /\ Start(k) <= m /\ m <= l
      BY <1>1, <3>1 DEF Regioned, RegionedBy
    <3>3. l \in DOMAIN B /\ l # m /\ Start(k) \in DOMAIN B
      BY <3>1, <3>2 DEF Region, TailsOf, FirstsOf, Heads
    <3>4. l \in Nat /\ m \in Nat /\ Start(k) \in Nat /\ After(B, m) \in Nat
      BY <1>1, <3>1, <3>3, BlockTyped
    <3>5. m < l
      BY <3>2, <3>3, <3>4
    <3>6. After(B, m) <= l
      BY <1>1, <3>1, <3>3, <3>5 DEF Linked
    <3>7. Start(k) <= rest /\ rest <= l
      BY <1>5, <1>6, <3>2, <3>4, <3>6
    <3> QED
      BY <3>2, <3>7
  <2> QED
    BY <1>1, <1>3, <1>4, <1>5, <2>1 DEF Regioned, RegionedBy, SameLists
<1>9. FreeIn(C) = FreeIn(B) \cup {rest} /\ UsedIn(C) = UsedIn(B)
  <2>1. \A k \in Heads(B) : C[k].used <=> B[k].used
    BY <1>5, <1>7
  <2> QED
    BY <1>5, <2>1 DEF FreeIn, UsedIn
<1>10. Filing(C, t.mr, t.small, t.tree, X \cup {rest})
  <2>1. m \notin s.small \cup s.tree
    <3>1. CASE m \in X
      BY <1>1, <3>1 DEF Filing, B
    <3>2. CASE B[m].used
      BY <1>1, <3>2 DEF Filing, FreeIn, B
    <3> QED
      BY <3>1, <3>2 DEF B
  <2>2. rest \notin s.small \cup s.tree /\ rest # s.mr
    BY <1>1, <1>5, <1>6, <1>7 DEF Filing, FreeIn
  <2>3. s.small \subseteq Heads(B) /\ s.tree \subseteq Heads(B)
    BY <1>1 DEF Filing, FreeIn
  <2>4. /\ \A k \in s.small : C[k].size < SmallSize
        /\ \A k \in s.tree : C[k].size >= SmallSize
    BY <1>1, <1>5, <1>7, <2>1, <2>3 DEF Filing
  <2>5. FreeIn(C) = ({s.mr} \ {Null}) \cup s.small \cup s.tree \cup (X \cup {rest})
    BY <1>1, <1>9 DEF Filing
  <2> QED
    BY <1>1, <1>3, <2>2, <2>4, <2>5 DEF Filing, SameLists
<1>11. Kept(t, X \cup {rest})
  BY <1>3, <1>4, <1>8, <1>10 DEF Kept, C
<1> QED
  BY <1>2, <1>3, <1>4, <1>5, <1>6, <1>7, <1>9, <1>11 DEF t, B, C, SplitAt

-----------------------------------------------------------------------------
\* A free block leaves its place.
LEMMA KeptErase ==
  ASSUME NEW s, NEW X, Kept(s, X), NEW n \in FreeIn(s.block), n \notin X
  PROVE  LET t == EraseFreeBlock(s, n)
         IN Kept(t, X \cup {n}) /\ t.block = s.block /\ t.cached = s.cached /\ t.mapped = s.mapped
<1> DEFINE t == EraseFreeBlock(s, n)
           B == s.block
<1>1. IsPool(s) /\ Linked(B) /\ Regioned(B, s.mapped) /\ Filing(B, s.mr, s.small, s.tree, X)
  BY DEF Kept
<1>2. n # Null
  BY <1>1, NullNoBlock
<1>3. Size(s, n) = B[n].size
  BY DEF Size
<1>a. n \in DOMAIN B /\ B[n].size \in Nat /\ SmallSize \in Nat
  BY <1>1, BlockTyped, SizesTyped DEF FreeIn, Heads
<1>4. CASE n = s.mr
  <2>1. t = [s EXCEPT !.mr = Null]
    BY <1>4 DEF EraseFreeBlock
  <2>2. IsPool(t) /\ t.block = B /\ t.cached = s.cached /\ t.mapped = s.mapped
        /\ t.mr = Null /\ t.small = s.small /\ t.tree = s.tree
    BY <1>1, <2>1 DEF IsPool
  <2> HIDE DEF t, B
  <2>3. Filing(B, Null, s.small, s.tree, X \cup {n})
    <3>1. Null \notin FreeIn(B)
      BY <1>1, NullNoBlock
    <3> QED
      BY <1>1, <1>2, <1>4, <3>1 DEF Filing
  <2> QED
    BY <1>1, <2>2, <2>3 DEF Kept, t, B
<1>5. CASE n # s.mr /\ B[n].size < SmallSize
  <2>1. t = [s EXCEPT !.small = @ \ {n}]
    BY <1>3, <1>5 DEF EraseFreeBlock
  <2>2. IsPool(t) /\ t.block = B /\ t.cached = s.cached /\ t.mapped = s.mapped
        /\ t.mr = s.mr /\ t.small = s.small \ {n} /\ t.tree = s.tree
    BY <1>1, <2>1 DEF IsPool
  <2> HIDE DEF t, B
  <2>3. n \in s.small /\ n \notin s.tree
    BY <1>1, <1>5, <1>a DEF Filing, B
  <2>4. Filing(B, s.mr, s.small \ {n}, s.tree, X \cup {n})
    BY <1>1, <1>5, <2>3 DEF Filing
  <2> QED
    BY <1>1, <2>2, <2>4 DEF Kept, t, B
<1>6. CASE n # s.mr /\ ~(B[n].size < SmallSize)
  <2>1. t = [s EXCEPT !.tree = @ \ {n}]
    BY <1>3, <1>6 DEF EraseFreeBlock
  <2>2. IsPool(t) /\ t.block = B /\ t.cached = s.cached /\ t.mapped = s.mapped
        /\ t.mr = s.mr /\ t.small = s.small /\ t.tree = s.tree \ {n}
    BY <1>1, <2>1 DEF IsPool
  <2> HIDE DEF t, B
  <2>3. n \in s.tree /\ n \notin s.small
    BY <1>1, <1>6, <1>a DEF Filing, B
  <2>4. Filing(B, s.mr, s.small, s.tree \ {n}, X \cup {n})
    BY <1>1, <1>6, <2>3 DEF Filing
  <2> QED
    BY <1>1, <2>2, <2>4 DEF Kept, t, B
<1> QED
  BY <1>4, <1>5, <1>6

\* A block becomes the most recent one.
LEMMA KeptInsert ==
  ASSUME NEW s, NEW X, Kept(s, X), NEW m \in X
  PROVE  LET t == InsertFreeBlock(s, m)
         IN Kept(t, X \ {m}) /\ t.block = s.block /\ t.cached = s.cached /\ t.mapped = s.mapped
<1> DEFINE t == InsertFreeBlock(s, m)
           B == s.block
           old == {s.mr} \ {Null}
           isSmall == \E o \in old : Size(s, o) < SmallSize
           small1 == IF isSmall THEN s.small \cup old ELSE s.small
           tree1 == IF isSmall THEN s.tree ELSE s.tree \cup old
<1>1. IsPool(s) /\ Linked(B) /\ Regioned(B, s.mapped) /\ Filing(B, s.mr, s.small, s.tree, X)
  BY DEF Kept
<1>2. t = [s EXCEPT !.mr = m, !.small = small1, !.tree = tree1]
  BY Zenon DEF InsertFreeBlock
<1> HIDE DEF small1, tree1
<1>3. IsPool(t) /\ t.block = B /\ t.cached = s.cached /\ t.mapped = s.mapped
      /\ t.mr = m /\ t.small = small1 /\ t.tree = tree1
  BY <1>1, <1>2 DEF IsPool
<1> HIDE DEF t, B
<1>4. m \in FreeIn(B) /\ m # Null /\ m # s.mr /\ m \notin s.small \cup s.tree
  BY <1>1, NullNoBlock DEF Filing
<1>5. \A o \in old : Size(s, o) = B[o].size /\ B[o].size \in Nat /\ SmallSize \in Nat
  BY <1>1, BlockTyped, SizesTyped, PoolOperators DEF Filing, FreeIn, Heads, B
<1>6. small1 \cup tree1 = s.small \cup s.tree \cup old
  BY DEF small1, tree1
<1>7. \A k \in small1 : B[k].size < SmallSize
  <2>1. CASE isSmall
    <3>1. \A k \in old : B[k].size < SmallSize
      BY <1>5, <2>1
    <3> QED
      BY <1>1, <2>1, <3>1 DEF Filing, small1
  <2>2. CASE ~isSmall
    BY <1>1, <2>2 DEF Filing, small1
  <2> QED
    BY <2>1, <2>2
<1>8. \A k \in tree1 : B[k].size >= SmallSize
  <2>1. CASE isSmall
    BY <1>1, <2>1 DEF Filing, tree1
  <2>2. CASE ~isSmall
    <3>1. \A k \in old : B[k].size >= SmallSize
      BY <1>5, <2>2
    <3> QED
      BY <1>1, <2>2, <3>1 DEF Filing, tree1
  <2> QED
    BY <2>1, <2>2
<1>9. Filing(B, m, small1, tree1, X \ {m})
  <2>1. FreeIn(B) = ({m} \ {Null}) \cup (small1 \cup tree1) \cup (X \ {m})
    BY <1>1, <1>4, <1>6 DEF Filing
  <2>2. m \notin (small1 \cup tree1) \cup (X \ {m})
    BY <1>4, <1>6
  <2>3. (X \ {m}) \cap (small1 \cup tree1) = {}
    BY <1>1, <1>6 DEF Filing
  <2> HIDE DEF old, isSmall
  <2> QED
    BY <1>7, <1>8, <2>1, <2>2, <2>3 DEF Filing
<1> QED
  BY <1>1, <1>3, <1>9 DEF Kept, t, B

\* Block m is marked used, or free.
Marks(B, C, m) ==
  /\ DOMAIN C = DOMAIN B
  /\ \A k \in DOMAIN B :
       /\ C[k] = [prev |-> B[k].prev, size |-> B[k].size, used |-> C[k].used]
       /\ C[k].prev = B[k].prev /\ C[k].size = B[k].size
       /\ k # m => C[k].used = B[k].used
  /\ C[m].used \in BOOLEAN

\* A mark does not move a block.
LEMMA MarkBlocks ==
  ASSUME NEW B, Linked(B), NEW m \in Heads(B), NEW C, Marks(B, C, m)
  PROVE  /\ Linked(C) /\ (Tagged(B) => Tagged(C))
         /\ Heads(C) = Heads(B) /\ FirstsOf(C) = FirstsOf(B) /\ TailsOf(C) = TailsOf(B)
         /\ \A k \in DOMAIN B : C[k].size = B[k].size /\ C[k].prev = B[k].prev /\ After(C, k) = After(B, k)
<1>1. DOMAIN C = DOMAIN B
  BY DEF Marks
<1>2. \A k \in DOMAIN B : C[k].prev = B[k].prev /\ C[k].size = B[k].size
  BY DEF Marks
<1>c. \A k \in DOMAIN B : k # m => C[k].used = B[k].used
  BY DEF Marks
<1>3. \A k \in DOMAIN B : After(C, k) = After(B, k)
  BY <1>2 DEF After
<1>4. Heads(C) = Heads(B) /\ FirstsOf(C) = FirstsOf(B) /\ TailsOf(C) = TailsOf(B)
  BY <1>1, <1>2 DEF Heads, FirstsOf, TailsOf
<1>5. Heads(B) \subseteq DOMAIN B /\ m \in DOMAIN B /\ TailsOf(B) \subseteq DOMAIN B
  BY DEF Heads, TailsOf
<1>6. \A k \in DOMAIN C : C[k] \in Block
  <2> SUFFICES ASSUME NEW k \in DOMAIN B PROVE C[k] \in Block
    BY <1>1
  <2>1. B[k] \in Block
    BY DEF Linked
  <2>2. B[k].prev \in {Null} \cup Addresses /\ B[k].size \in Nat /\ B[k].used \in BOOLEAN
    BY <2>1 DEF Block
  <2>3. C[k].used \in BOOLEAN
    BY <2>2 DEF Marks
  <2>4. C[k] = [prev |-> B[k].prev, size |-> B[k].size, used |-> C[k].used]
    BY DEF Marks
  <2> QED
    BY <2>2, <2>3, <2>4 DEF Block
<1>7. \A k \in TailsOf(C) : C[k].used
  <2>1. \A k \in TailsOf(B) : B[k].used
    BY DEF Linked
  <2>2. m \notin TailsOf(B)
    BY DEF Heads, TailsOf
  <2> QED
    BY <1>4, <1>5, <1>c, <2>1, <2>2
<1>8. Linked(C)
  <2>1. \A k \in Heads(C) : After(C, k) \in DOMAIN C
    BY <1>1, <1>3, <1>4, <1>5 DEF Linked
  <2>2. \A k \in DOMAIN C : \A n \in DOMAIN C : k < n => After(C, k) <= n
    BY <1>1, <1>3 DEF Linked
  <2>3. \A k \in Heads(C) : After(C, k) \in Heads(C) => C[After(C, k)].prev # Null
    BY <1>2, <1>3, <1>4, <1>5 DEF Linked
  <2>4. DOMAIN C \subseteq Addresses
    BY <1>1 DEF Linked
  <2> QED
    BY <1>6, <1>7, <2>1, <2>2, <2>3, <2>4 DEF Linked
<1>9. Tagged(B) => Tagged(C)
  BY <1>2, <1>3, <1>4, <1>5 DEF Tagged
<1> QED
  BY <1>2, <1>3, <1>4, <1>8, <1>9

\* It changes what is free.
LEMMA MarkFree ==
  ASSUME NEW B, NEW m \in Heads(B), NEW C, Marks(B, C, m)
  PROVE  /\ C[m].used => UsedIn(C) = UsedIn(B) \cup {m} /\ FreeIn(C) = FreeIn(B) \ {m}
         /\ ~C[m].used => UsedIn(C) = UsedIn(B) \ {m} /\ FreeIn(C) = FreeIn(B) \cup {m}
<1>1. DOMAIN C = DOMAIN B /\ m \in DOMAIN B /\ Heads(C) = Heads(B)
  BY DEF Marks, Heads
<1>2. \A k \in Heads(B) : k # m => C[k].used = B[k].used
  BY DEF Marks, Heads
<1> QED
  BY <1>1, <1>2 DEF UsedIn, FreeIn

\* Marking changes one header.
LEMMA MarkMarks ==
  ASSUME NEW s, IsPool(s), Linked(s.block), NEW m \in Heads(s.block), NEW u \in BOOLEAN
  PROVE  LET t == [s EXCEPT !.block[m].used = u]
         IN IsPool(t) /\ SameLists(s, t) /\ t.cached = s.cached /\ Marks(s.block, t.block, m)
            /\ t.block[m].used = u
<1> DEFINE B == s.block
           C == [B EXCEPT ![m].used = u]
           t == [s EXCEPT !.block[m].used = u]
<1>1. t = [s EXCEPT !.block = C]
  BY Zenon
<1>2. IsPool(t) /\ SameLists(s, t) /\ t.cached = s.cached /\ t.block = C
  <2>1. C = [k \in DOMAIN C |-> C[k]]
    OBVIOUS
  <2> HIDE DEF C
  <2> QED
    BY <1>1, <2>1 DEF IsPool, SameLists
<1>3. m \in DOMAIN B
  BY DEF Heads
<1>4. \A k \in DOMAIN B : B[k] = [prev |-> B[k].prev, size |-> B[k].size, used |-> B[k].used]
  BY BlockTyped
<1> HIDE DEF B
<1>5. DOMAIN C = DOMAIN B
  OBVIOUS
<1>6. C[m] = [prev |-> B[m].prev, size |-> B[m].size, used |-> u]
  BY <1>3, <1>4
<1>7. \A k \in DOMAIN B : k # m => C[k] = B[k]
  OBVIOUS
<1> HIDE DEF C
<1>8. C[m].used = u /\ C[m].prev = B[m].prev /\ C[m].size = B[m].size
  BY <1>6
<1>9. Marks(B, C, m)
  <2>1. ASSUME NEW k \in DOMAIN B
        PROVE  /\ C[k] = [prev |-> B[k].prev, size |-> B[k].size, used |-> C[k].used]
               /\ C[k].prev = B[k].prev /\ C[k].size = B[k].size
               /\ k # m => C[k].used = B[k].used
    <3>1. CASE k = m
      BY <1>6, <1>8, <3>1
    <3>2. CASE k # m
      <4>1. C[k] = B[k]
        BY <1>7, <3>2
      <4> QED
        BY <1>4, <3>2, <4>1
    <3> QED
      BY <3>1, <3>2
  <2> QED
    BY <1>5, <1>8, <2>1 DEF Marks
<1> QED
  BY <1>2, <1>8, <1>9 DEF B

\* What it is to take a block.
TakenAt(s, X, t, m) ==
  /\ Kept(t, X \ {m}) /\ SameLists(s, t) /\ t.cached = s.cached
  /\ Tagged(s.block) => Tagged(t.block)
  /\ Heads(t.block) = Heads(s.block)
  /\ FreeIn(t.block) = FreeIn(s.block) \ {m} /\ UsedIn(t.block) = UsedIn(s.block) \cup {m}
  /\ \A k \in DOMAIN s.block : /\ t.block[k].size = s.block[k].size
                               /\ After(t.block, k) = After(s.block, k)

\* A block that is out of its place is taken.
LEMMA KeptTake ==
  ASSUME NEW s, NEW X, Kept(s, X), NEW m \in X
  PROVE  TakenAt(s, X, Taken(s, m), m)
<1> DEFINE t == Taken(s, m)
           B == s.block
           C == t.block
<1>1. IsPool(s) /\ Linked(B) /\ Regioned(B, s.mapped) /\ Filing(B, s.mr, s.small, s.tree, X)
  BY DEF Kept
<1>2. m \in Heads(B) /\ m \notin s.small \cup s.tree \cup {s.mr}
  BY <1>1 DEF Filing, FreeIn
<1>3. IsPool(t) /\ SameLists(s, t) /\ t.cached = s.cached /\ Marks(B, C, m) /\ C[m].used
  BY <1>1, <1>2, MarkMarks DEF Taken
<1> HIDE DEF t, B, C
<1>4. /\ Linked(C) /\ (Tagged(B) => Tagged(C))
      /\ Heads(C) = Heads(B) /\ FirstsOf(C) = FirstsOf(B) /\ TailsOf(C) = TailsOf(B)
      /\ \A k \in DOMAIN B : C[k].size = B[k].size /\ C[k].prev = B[k].prev /\ After(C, k) = After(B, k)
  BY <1>1, <1>2, <1>3, MarkBlocks, Zenon
<1>a. UsedIn(C) = UsedIn(B) \cup {m} /\ FreeIn(C) = FreeIn(B) \ {m}
  BY <1>2, <1>3, MarkFree
<1>5. Regioned(C, t.mapped)
  BY <1>1, <1>3, <1>4 DEF Regioned, RegionedBy, SameLists, Marks
<1>6. Filing(C, t.mr, t.small, t.tree, X \ {m})
  <2>1. s.small \subseteq DOMAIN B /\ s.tree \subseteq DOMAIN B
    BY <1>1 DEF Filing, FreeIn, Heads
  <2>2. /\ \A k \in s.small : C[k].size < SmallSize
        /\ \A k \in s.tree : C[k].size >= SmallSize
    BY <1>1, <1>4, <2>1 DEF Filing
  <2>3. FreeIn(C) = ({s.mr} \ {Null}) \cup s.small \cup s.tree \cup (X \ {m})
    BY <1>1, <1>2, <1>4, <1>a DEF Filing
  <2> QED
    BY <1>1, <1>3, <2>2, <2>3 DEF Filing, SameLists
<1>7. Kept(t, X \ {m})
  BY <1>3, <1>4, <1>5, <1>6 DEF Kept, C
<1> QED
  BY <1>3, <1>4, <1>a, <1>7 DEF t, B, C, TakenAt

\* A block in use is freed, and is not yet in a place; one that is free stays so.
LEMMA KeptFree ==
  ASSUME NEW s, NEW X, Kept(s, X), NEW m \in Heads(s.block), s.block[m].used \/ m \in X
  PROVE  LET t == [s EXCEPT !.block[m].used = FALSE]
         IN /\ Kept(t, X \cup {m}) /\ SameLists(s, t) /\ t.cached = s.cached
            /\ Tagged(s.block) => Tagged(t.block)
            /\ Heads(t.block) = Heads(s.block)
            /\ FreeIn(t.block) = FreeIn(s.block) \cup {m} /\ UsedIn(t.block) = UsedIn(s.block) \ {m}
            /\ \A k \in DOMAIN s.block : /\ t.block[k].size = s.block[k].size
                                         /\ After(t.block, k) = After(s.block, k)
<1> DEFINE t == [s EXCEPT !.block[m].used = FALSE]
           B == s.block
           C == t.block
<1>1. IsPool(s) /\ Linked(B) /\ Regioned(B, s.mapped) /\ Filing(B, s.mr, s.small, s.tree, X)
  BY DEF Kept
<1>2. m \in Heads(B) /\ m \notin s.small \cup s.tree \cup {s.mr}
  <2>1. CASE m \in X
    BY <1>1, <2>1 DEF Filing
  <2>2. CASE B[m].used
    <3>1. m # Null
      BY <1>1, NullNoBlock
    <3> QED
      BY <1>1, <2>2, <3>1 DEF Filing, FreeIn
  <2> QED
    BY <2>1, <2>2
<1>3. IsPool(t) /\ SameLists(s, t) /\ t.cached = s.cached /\ Marks(B, C, m) /\ ~C[m].used
  BY <1>1, <1>2, MarkMarks
<1> HIDE DEF t, B, C
<1>4. /\ Linked(C) /\ (Tagged(B) => Tagged(C))
      /\ Heads(C) = Heads(B) /\ FirstsOf(C) = FirstsOf(B) /\ TailsOf(C) = TailsOf(B)
      /\ \A k \in DOMAIN B : C[k].size = B[k].size /\ C[k].prev = B[k].prev /\ After(C, k) = After(B, k)
  BY <1>1, <1>2, <1>3, MarkBlocks, Zenon
<1>a. UsedIn(C) = UsedIn(B) \ {m} /\ FreeIn(C) = FreeIn(B) \cup {m}
  BY <1>2, <1>3, MarkFree
<1>5. Regioned(C, t.mapped)
  BY <1>1, <1>3, <1>4 DEF Regioned, RegionedBy, SameLists, Marks
<1>6. Filing(C, t.mr, t.small, t.tree, X \cup {m})
  <2>1. s.small \subseteq DOMAIN B /\ s.tree \subseteq DOMAIN B
    BY <1>1 DEF Filing, FreeIn, Heads
  <2>2. /\ \A k \in s.small : C[k].size < SmallSize
        /\ \A k \in s.tree : C[k].size >= SmallSize
    BY <1>1, <1>4, <2>1 DEF Filing
  <2>3. FreeIn(C) = ({s.mr} \ {Null}) \cup s.small \cup s.tree \cup (X \cup {m})
    BY <1>1, <1>4, <1>a DEF Filing
  <2> QED
    BY <1>1, <1>2, <1>3, <2>2, <2>3 DEF Filing, SameLists
<1>7. Kept(t, X \cup {m})
  BY <1>3, <1>4, <1>5, <1>6 DEF Kept, C
<1> QED
  BY <1>3, <1>4, <1>a, <1>7 DEF t, B, C

-----------------------------------------------------------------------------
\* Free blocks of a pool are headers, in use is the contrary.
LEMMA KeptBlocks ==
  ASSUME NEW s, NEW X, Kept(s, X)
  PROVE  /\ IsPool(s) /\ Linked(s.block) /\ X \subseteq FreeIn(s.block)
         /\ FreeIn(s.block) \cap UsedIn(s.block) = {}
         /\ Heads(s.block) = FreeIn(s.block) \cup UsedIn(s.block)
         /\ Heads(s.block) \subseteq DOMAIN s.block /\ Null \notin DOMAIN s.block
         /\ \A m \in FreeIn(s.block) : ~s.block[m].used
         /\ \A m \in UsedIn(s.block) : s.block[m].used
         /\ \A m \in DOMAIN s.block : m \notin FreeIn(s.block) => s.block[m].used
         /\ \A m \in Heads(s.block) : /\ After(s.block, m) \in DOMAIN s.block
                                      /\ m < After(s.block, m) /\ m # After(s.block, m)
         /\ \A m \in DOMAIN s.block : m \in Nat
<1>1. IsPool(s) /\ Linked(s.block) /\ X \subseteq FreeIn(s.block)
  BY DEF Kept, Filing
<1>2. /\ FreeIn(s.block) \cap UsedIn(s.block) = {}
      /\ Heads(s.block) = FreeIn(s.block) \cup UsedIn(s.block)
      /\ Heads(s.block) \subseteq DOMAIN s.block
  BY <1>1, FreeOrUsed
<1>3. \A m \in DOMAIN s.block : m \notin FreeIn(s.block) => s.block[m].used
  BY <1>1 DEF Linked, FreeIn, Heads, TailsOf
<1>4. /\ \A m \in Heads(s.block) : /\ After(s.block, m) \in DOMAIN s.block
                                   /\ m < After(s.block, m) /\ m # After(s.block, m)
      /\ \A m \in DOMAIN s.block : m \in Nat
  BY <1>1, <1>2, BlockTyped DEF Linked
<1>5. Null \notin DOMAIN s.block
  BY <1>1, NullNoBlock
<1> QED
  BY <1>1, <1>2, <1>3, <1>4, <1>5 DEF FreeIn, UsedIn

\* The cached block is in no other place.
Loose(s) == {s.cached} \ {Null}

\* What cached_block_ is does not matter to the rest.
LEMMA KeptCached ==
  ASSUME NEW s, NEW X, Kept(s, X), NEW c
  PROVE  LET t == [s EXCEPT !.cached = c]
         IN Kept(t, X) /\ SameLists(s, t) /\ t.block = s.block /\ t.cached = c
<1> DEFINE t == [s EXCEPT !.cached = c]
<1>1. IsPool(t) /\ SameLists(s, t) /\ t.block = s.block /\ t.cached = c
  BY DEF Kept, IsPool, SameLists
<1> HIDE DEF t
<1>2. Kept(t, X)
  BY <1>1 DEF Kept, SameLists
<1> QED
  BY <1>1, <1>2 DEF t

-----------------------------------------------------------------------------
(***************************************************************************)
(* The steps of which add_free_block and the others are made.              *)
(***************************************************************************)

\* What it is to join m with n, both free and out of their places.
JoinedAt(s, X, t, m, n) ==
  /\ Kept(t, X \ {n}) /\ Tagged(t.block) /\ Apart(t.block, {m})
  /\ SameLists(s, t) /\ t.cached = s.cached
  /\ UsedSame(s.block, t.block, {}) /\ UsedIn(t.block) = UsedIn(s.block)
  /\ FreeIn(t.block) = FreeIn(s.block) \ {n}
  /\ After(t.block, m) = After(s.block, n)
  /\ m # After(s.block, n) /\ t.block[m].prev = s.block[m].prev

\* Two free neighbours that are out of their places become one.
LEMMA JoinKeeps ==
  ASSUME NEW s, NEW X, Kept(s, X), Tagged(s.block), NEW m \in X, NEW n \in X,
         After(s.block, m) = n, Apart(s.block, {m, n})
  PROVE  JoinedAt(s, X, Merge(s, m, n), m, n)
<1> DEFINE t == Merge(s, m, n)
<1>1. /\ m \in FreeIn(s.block) /\ n \in FreeIn(s.block) /\ m \in Heads(s.block) /\ n \in Heads(s.block)
      /\ m \notin UsedIn(s.block) /\ m < n /\ n < After(s.block, n)
      /\ m \in Nat /\ n \in Nat /\ After(s.block, n) \in Nat /\ m # n
  BY KeptBlocks
<1>2. Merged(s, X, t, m, n)
  <2>1. s.block[m].used \/ m \in X
    OBVIOUS
  <2> QED
    BY <1>1, <2>1, KeptMerge
<1> HIDE DEF t
<1>3. /\ FreeIn(t.block) \subseteq Heads(t.block) /\ UsedIn(t.block) \subseteq Heads(t.block)
  <2>1. Kept(t, X \ {n})
    BY <1>2 DEF Merged
  <2> QED
    BY <2>1, KeptBlocks
<1>4. Apart(t.block, {m})
  <2> SUFFICES ASSUME NEW k \in FreeIn(t.block), After(t.block, k) \in FreeIn(t.block), k # m
               PROVE  After(t.block, k) = m
    BY DEF Apart
  <2>1. After(t.block, k) = After(s.block, k)
    BY <1>2, <1>3 DEF Merged
  <2>2. k \in FreeIn(s.block) /\ After(s.block, k) \in FreeIn(s.block) /\ k # n /\ After(s.block, k) # n
    BY <1>2, <2>1 DEF Merged
  <2> QED
    BY <2>1, <2>2 DEF Apart
<1>5. UsedSame(s.block, t.block, {})
  BY <1>1, <1>2, <1>3 DEF UsedSame, Merged
<1>6. m # After(s.block, n)
  BY <1>1
<1>7. t.block[m].prev = s.block[m].prev
  BY <1>1, <1>2, <1>3, <1>6 DEF Merged
<1> QED
  BY <1>2, <1>4, <1>5, <1>6, <1>7 DEF t, Merged, JoinedAt

\* A block takes in the one behind it, if that is free.
LEMMA WithNextKeeps ==
  ASSUME NEW s, NEW X, Kept(s, X), Tagged(s.block), NEW m \in X, Apart(s.block, {m}),
         After(s.block, m) \notin X
  PROVE  LET t == WithNext(s, m)
         IN /\ Kept(t, X) /\ Tagged(t.block) /\ Apart(t.block, {m})
            /\ t.cached = s.cached /\ t.mapped = s.mapped
            /\ UsedSame(s.block, t.block, {}) /\ UsedIn(t.block) = UsedIn(s.block)
            /\ After(t.block, m) \notin FreeIn(t.block)
            /\ t.block[m].prev = s.block[m].prev
<1> DEFINE t == WithNext(s, m)
           n == After(s.block, m)
<1>1. NextOf(s, m) = n /\ IsUsed(s, n) = s.block[n].used
  BY PoolOperators
<1>2. /\ m \in FreeIn(s.block) /\ m \in Heads(s.block) /\ n \in DOMAIN s.block /\ m # n
      /\ m \in DOMAIN s.block
  BY KeptBlocks
<1>3. CASE s.block[n].used
  <2>1. t = s
    BY <1>1, <1>3 DEF WithNext
  <2>2. n \notin FreeIn(s.block)
    BY <1>3 DEF FreeIn
  <2>3. UsedSame(s.block, s.block, {})
    BY DEF UsedSame
  <2> QED
    BY <2>1, <2>2, <2>3
<1>4. CASE ~s.block[n].used
  <2> DEFINE u == EraseFreeBlock(s, n)
  <2>1. t = Merge(u, m, n)
    BY <1>1, <1>4 DEF WithNext
  <2>2. n \in FreeIn(s.block) /\ n \notin X
    BY <1>2, <1>4, KeptBlocks
  <2>3. Kept(u, X \cup {n}) /\ u.block = s.block /\ u.cached = s.cached /\ u.mapped = s.mapped
    BY <2>2, KeptErase
  <2> HIDE DEF u, t, n
  <2>4. /\ Tagged(u.block) /\ m \in X \cup {n} /\ n \in X \cup {n}
        /\ After(u.block, m) = n
    BY <2>3 DEF n
  <2>5. Apart(u.block, {m, n})
    BY <2>3 DEF Apart
  <2>6. JoinedAt(u, X \cup {n}, t, m, n)
    <3>1. Kept(u, X \cup {n})
      BY <2>3
    <3> QED
      BY <2>1, <3>1, <2>4, <2>5, JoinKeeps
  <2>7. (X \cup {n}) \ {n} = X
    BY <2>2
  <2>8. After(s.block, n) \notin FreeIn(s.block)
    BY <1>2, <2>2, <2>3, <2>6 DEF Apart, JoinedAt
  <2> QED
    BY <2>3, <2>6, <2>7, <2>8 DEF SameLists, JoinedAt, t
<1> QED
  BY <1>3, <1>4

\* What it is to reorganize s around m.
Reorganized(s, X, r, m) ==
  /\ Kept(r.pool, (X \ {m}) \cup {r.at}) /\ Tagged(r.pool.block) /\ Apart(r.pool.block, {})
  /\ r.at \notin X \ {m} /\ r.pool.cached = s.cached /\ r.pool.mapped = s.mapped
  /\ UsedSame(s.block, r.pool.block, {}) /\ UsedIn(r.pool.block) = UsedIn(s.block)

\* A block takes in its free neighbours, and then has none.
LEMMA ReorganizeKeeps ==
  ASSUME NEW s, NEW X, Kept(s, X), Tagged(s.block), NEW m \in X, Apart(s.block, {m}),
         After(s.block, m) \notin X, s.block[m].prev \notin X
  PROVE  Reorganized(s, X, Reorganize(s, m), m)
<1> DEFINE r == Reorganize(s, m)
           s1 == WithNext(s, m)
           p == s1.block[m].prev
<1>1. /\ Kept(s1, X) /\ Tagged(s1.block) /\ Apart(s1.block, {m})
      /\ s1.cached = s.cached /\ s1.mapped = s.mapped
      /\ UsedSame(s.block, s1.block, {}) /\ UsedIn(s1.block) = UsedIn(s.block)
      /\ After(s1.block, m) \notin FreeIn(s1.block)
      /\ p = s.block[m].prev
  BY WithNextKeeps
<1>2. r = IF p = Null \/ s1.block[p].used THEN [pool |-> s1, at |-> m]
          ELSE [pool |-> Merge(EraseFreeBlock(s1, p), p, m), at |-> p]
  BY PoolOperators, Zenon DEF Reorganize
<1> HIDE DEF r, s1, p
<1>3. m \in FreeIn(s1.block) /\ m \in Heads(s1.block) /\ m \in DOMAIN s1.block
  BY <1>1, KeptBlocks
<1>a. Linked(s1.block)
  BY <1>1 DEF Kept
<1>4. CASE p = Null \/ s1.block[p].used
  <2>1. r.pool = s1 /\ r.at = m
    BY <1>2, <1>4
  <2>2. Apart(s1.block, {})
    <3> SUFFICES ASSUME NEW k \in FreeIn(s1.block), After(s1.block, k) \in FreeIn(s1.block)
                 PROVE  FALSE
      BY DEF Apart
    <3>1. k \in Heads(s1.block) /\ After(s1.block, k) \in Heads(s1.block) /\ k # Null /\ ~s1.block[k].used
      BY <1>1, KeptBlocks
    <3>2. k = m \/ After(s1.block, k) = m
      BY <1>1 DEF Apart
    <3>3. After(s1.block, k) = m
      BY <1>1, <3>2
    <3>4. p = k
      BY <1>1, <1>a, <3>1, <3>3, TagOfNext DEF p
    <3> QED
      BY <1>4, <3>1, <3>4
  <2>3. (X \ {m}) \cup {m} = X
    OBVIOUS
  <2> QED
    BY <1>1, <2>1, <2>2, <2>3 DEF r, Reorganized
<1>5. CASE ~(p = Null \/ s1.block[p].used)
  <2> DEFINE u == EraseFreeBlock(s1, p)
  <2>1. r.pool = Merge(u, p, m) /\ r.at = p
    BY <1>2, <1>5
  <2>2. p \in Heads(s1.block) /\ After(s1.block, p) = m
    BY <1>1, <1>3, <1>5 DEF Tagged, p
  <2>3. p \in FreeIn(s1.block) /\ p \notin X
    BY <1>1, <1>5, <2>2 DEF FreeIn
  <2>4. Kept(u, X \cup {p}) /\ u.block = s1.block /\ u.cached = s1.cached /\ u.mapped = s1.mapped
    BY <1>1, <2>3, KeptErase
  <2> HIDE DEF u
  <2> DEFINE t == Merge(u, p, m)
  <2>5. Tagged(u.block) /\ Apart(u.block, {p, m}) /\ After(u.block, p) = m
    BY <1>1, <2>2, <2>4 DEF Apart
  <2>a. p \in X \cup {p} /\ m \in X \cup {p} /\ Kept(u, X \cup {p})
    BY <2>4
  <2>6. JoinedAt(u, X \cup {p}, t, p, m)
    BY <2>5, <2>a, JoinKeeps
  <2> HIDE DEF t
  <2>7. (X \cup {p}) \ {m} = (X \ {m}) \cup {p}
    BY <1>3, <2>3
  <2>8. Apart(t.block, {})
    <3> SUFFICES ASSUME NEW k \in FreeIn(t.block), After(t.block, k) \in FreeIn(t.block)
                 PROVE  FALSE
      BY DEF Apart
    <3>1. k = p \/ After(t.block, k) = p
      BY <2>6 DEF Apart, JoinedAt
    <3>2. k # p
      BY <1>1, <2>4, <2>6 DEF JoinedAt
    <3>3. After(t.block, k) = p
      BY <3>1, <3>2
    <3>4. /\ k \in Heads(t.block) /\ p \in Heads(t.block)
      <4>1. Kept(t, (X \cup {p}) \ {m})
        BY <2>6 DEF JoinedAt
      <4> QED
        BY <4>1, <3>3, KeptBlocks
    <3>5. Linked(t.block) /\ Tagged(t.block) /\ k # Null
      <4>1. Kept(t, (X \cup {p}) \ {m})
        BY <2>6 DEF JoinedAt
      <4>2. k \in DOMAIN t.block /\ Null \notin DOMAIN t.block
        BY <4>1, <3>4, KeptBlocks
      <4> QED
        BY <2>6, <4>2 DEF Kept, JoinedAt
    <3>6. t.block[p].prev = k
      BY <3>3, <3>4, <3>5, TagOfNext
    <3>7. t.block[p].prev = s1.block[p].prev
      BY <2>4, <2>6 DEF JoinedAt
    <3>8. s1.block[p].prev = k /\ After(s1.block, k) = p
      BY <1>1, <2>2, <3>5, <3>6, <3>7 DEF Tagged
    <3>9. k \in FreeIn(s1.block) /\ k # m
      BY <2>4, <2>6 DEF JoinedAt
    <3> QED
      BY <1>1, <1>3, <2>3, <3>8, <3>9, <2>6, <2>4, <3>3 DEF Apart, JoinedAt
  <2>9. /\ Kept(t, (X \cup {p}) \ {m}) /\ Tagged(t.block) /\ t.mapped = s.mapped /\ t.cached = s.cached
        /\ UsedIn(t.block) = UsedIn(s.block)
    BY <1>1, <2>4, <2>6 DEF SameLists, JoinedAt
  <2>10. UsedSame(s.block, t.block, {})
    BY <1>1, <2>4, <2>6 DEF UsedSame, JoinedAt
  <2>11. r.pool = t /\ r.at = p
    BY <2>1 DEF t
  <2>12. Reorganized(s, X, r, m)
    BY <2>3, <2>7, <2>8, <2>9, <2>10, <2>11 DEF Reorganized
  <2> QED
    BY <2>12 DEF r
<1> QED
  BY <1>4, <1>5

-----------------------------------------------------------------------------
\* The pool between two operations, with right tags: t after s, with the same blocks in use.
Settled(s, t) ==
  /\ Kept(t, Loose(t)) /\ Tagged(t.block) /\ Apart(t.block, {}) /\ t.mapped = s.mapped
  /\ UsedSame(s.block, t.block, {}) /\ UsedIn(t.block) = UsedIn(s.block)

\* A block is not its own neighbour.
LEMMA NotBesideItself ==
  ASSUME NEW s, NEW X, Kept(s, X), Tagged(s.block), NEW m \in X
  PROVE  After(s.block, m) # m /\ s.block[m].prev # m
<1>1. m \in Heads(s.block) /\ After(s.block, m) # m /\ m # Null
  BY KeptBlocks
<1> QED
  BY <1>1 DEF Tagged

\* Of neighbours in a pool the tag of the second is the first.
LEMMA NextOfTag ==
  ASSUME NEW s, NEW X, Kept(s, X), Tagged(s.block), NEW m \in X, NEW n \in X
  PROVE  s.block[n].prev = m <=> After(s.block, m) = n
<1>1. m \in Heads(s.block) /\ n \in Heads(s.block) /\ m # Null /\ Linked(s.block)
  BY KeptBlocks
<1> QED
  BY <1>1, TagOfNext DEF Tagged

\* Around a block that is alone out of its place, which becomes the cached one.
LEMMA CachedSettles ==
  ASSUME NEW s, NEW m, NEW r, Reorganized(s, {m}, r, m)
  PROVE  Settled(s, Cached(r))
<1> DEFINE t == Cached(r)
<1>1. Kept(r.pool, {r.at})
  <2>1. ({m} \ {m}) \cup {r.at} = {r.at}
    OBVIOUS
  <2> QED
    BY <2>1 DEF Reorganized
<1>2. Kept(t, {r.at}) /\ SameLists(r.pool, t) /\ t.block = r.pool.block /\ t.cached = r.at
  BY <1>1, KeptCached DEF Cached
<1>3. r.at # Null
  BY <1>1, KeptBlocks DEF FreeIn, Heads
<1>4. Loose(t) = {r.at}
  BY <1>2, <1>3 DEF Loose
<1> HIDE DEF t
<1>5. Settled(s, t)
  BY <1>2, <1>4 DEF Settled, Reorganized, SameLists
<1> QED
  BY <1>5 DEF t

\* A block alone out of its place takes in its neighbours and becomes the cached one.
LEMMA AloneSettles ==
  ASSUME NEW s, NEW m, Kept(s, {m}), Tagged(s.block), Apart(s.block, {m})
  PROVE  Settled(s, Cached(Reorganize(s, m)))
<1>1. After(s.block, m) \notin {m} /\ s.block[m].prev \notin {m} /\ m \in {m}
  BY NotBesideItself
<1>2. Reorganized(s, {m}, Reorganize(s, m), m)
  BY <1>1, ReorganizeKeeps
<1> QED
  BY <1>2, CachedSettles

\* c goes to its place, and d is the cached one.
Placed(s, c, d) == [InsertFreeBlock(s, c) EXCEPT !.cached = d]

\* One of the two blocks out of their places goes to its place, and the other is the cached one.
LEMMA PlacedSettles ==
  ASSUME NEW s, NEW c, NEW d, Kept(s, {c, d}), c # d, Tagged(s.block), Apart(s.block, {})
  PROVE  Settled(s, Placed(s, c, d))
<1> DEFINE u == InsertFreeBlock(s, c)
           t == [u EXCEPT !.cached = d]
<1>1. Kept(u, {c, d} \ {c}) /\ u.block = s.block /\ u.mapped = s.mapped
  <2>1. c \in {c, d}
    OBVIOUS
  <2> QED
    BY <2>1, KeptInsert
<1>2. {c, d} \ {c} = {d}
  OBVIOUS
<1> HIDE DEF u
<1>a. Kept(u, {d})
  BY <1>1, <1>2
<1>3. Kept(t, {d}) /\ SameLists(u, t) /\ t.block = u.block /\ t.cached = d
  BY <1>a, KeptCached
<1>4. d # Null
  BY <1>a, KeptBlocks DEF FreeIn, Heads
<1> HIDE DEF t
<1>5. Loose(t) = {d}
  BY <1>3, <1>4 DEF Loose
<1>6. UsedSame(s.block, t.block, {})
  BY <1>1, <1>3 DEF UsedSame
<1>7. Settled(s, t)
  BY <1>1, <1>3, <1>5, <1>6 DEF Settled, SameLists
<1> QED
  BY <1>7 DEF u, t, Placed

\* If that was the cached one before, it stays so.
LEMMA InsertedSettles ==
  ASSUME NEW s, NEW m, Kept(s, {s.cached, m}), s.cached # m, Tagged(s.block), Apart(s.block, {})
  PROVE  Settled(s, InsertFreeBlock(s, m))
<1> DEFINE t == InsertFreeBlock(s, m)
<1>1. Kept(t, {s.cached, m} \ {m}) /\ t.block = s.block /\ t.mapped = s.mapped /\ t.cached = s.cached
  <2>1. m \in {s.cached, m}
    OBVIOUS
  <2> QED
    BY <2>1, KeptInsert
<1>2. s.cached # Null
  BY KeptBlocks DEF FreeIn, Heads
<1> HIDE DEF t
<1>3. {s.cached, m} \ {m} = Loose(t)
  BY <1>1, <1>2 DEF Loose
<1>4. UsedSame(s.block, t.block, {})
  BY <1>1 DEF UsedSame
<1>5. Settled(s, t)
  BY <1>1, <1>3, <1>4 DEF Settled
<1> QED
  BY <1>5 DEF t

\* Two neighbours out of their places become one, with tags right and, around it, blocks that
\* may be free.
LEMMA JoinedKeeps ==
  ASSUME NEW s, NEW m, NEW c, Kept(s, {m, c}), m # c, Tagged(s.block), Apart(s.block, {m, c}),
         Adjacent(s, m, c)
  PROVE  LET j == Joined(s, m, c)
         IN /\ Kept(j.pool, {j.at}) /\ Tagged(j.pool.block) /\ Apart(j.pool.block, {j.at})
            /\ j.pool.mapped = s.mapped
            /\ UsedSame(s.block, j.pool.block, {}) /\ UsedIn(j.pool.block) = UsedIn(s.block)
<1> DEFINE j == Joined(s, m, c)
           X == {m, c}
<1>1. m \in X /\ c \in X /\ Kept(s, X)
  OBVIOUS
<1>2. Prev(s, m) = s.block[m].prev /\ Prev(s, c) = s.block[c].prev
  BY PoolOperators
<1>3. CASE Prev(s, m) = c
  <2> DEFINE t == Merge(s, c, m)
  <2>1. j.pool = t /\ j.at = c
    BY <1>3 DEF Joined
  <2>2. After(s.block, c) = m
    <3>1. s.block[m].prev = c
      BY <1>2, <1>3
    <3> HIDE DEF X, j, t
    <3> QED
      BY <1>1, <3>1, NextOfTag
  <2>3. Apart(s.block, {c, m})
    BY DEF Apart
  <2>4. JoinedAt(s, X, t, c, m)
    BY <1>1, <2>2, <2>3, JoinKeeps
  <2>5. X \ {m} = {c}
    OBVIOUS
  <2> HIDE DEF t, j
  <2> QED
    BY <2>1, <2>4, <2>5 DEF JoinedAt, SameLists, j
<1>4. CASE Prev(s, m) # c
  <2> DEFINE t == Merge(s, m, c)
  <2>1. j.pool = t /\ j.at = m
    BY <1>4 DEF Joined
  <2>2. After(s.block, m) = c
    BY <1>1, <1>2, <1>4, NextOfTag DEF Adjacent
  <2>4. JoinedAt(s, X, t, m, c)
    BY <1>1, <2>2, JoinKeeps
  <2>5. X \ {c} = {m}
    OBVIOUS
  <2> HIDE DEF t, j
  <2> QED
    BY <2>1, <2>4, <2>5 DEF JoinedAt, SameLists, j
<1> QED
  BY <1>3, <1>4

\* Settled is relative to blocks in use only.
LEMMA SettledAfter ==
  ASSUME NEW s, NEW u, NEW t, Settled(u, t), u.mapped = s.mapped, UsedSame(s.block, u.block, {}),
         UsedIn(u.block) = UsedIn(s.block)
  PROVE  Settled(s, t)
  BY DEF Settled, UsedSame

-----------------------------------------------------------------------------
\* AddFreed once the block is marked.
Freeing(s, m) ==
  LET c == s.cached
      join(t, b) == LET j == Joined(t, b, c) IN Cached(Reorganize(j.pool, j.at))
      r == Reorganize(s, m)
  IN IF c = Null THEN Cached(r)
     ELSE IF IsWhole(s, c) THEN Cached(Reorganize(InsertFreeBlock(s, c), m))
     ELSE IF Adjacent(s, m, c) THEN join(s, m)
     ELSE IF Adjacent(r.pool, r.at, c) THEN join(r.pool, r.at)
     ELSE LargerCached(r.pool, r.at)

\* A block that has been marked free finds its place.
LEMMA FreeingSettles ==
  ASSUME NEW s, NEW m, Kept(s, Loose(s) \cup {m}), m \notin Loose(s), Tagged(s.block),
         Apart(s.block, {m})
  PROVE  Settled(s, Freeing(s, m))
<1> DEFINE c == s.cached
           t == Freeing(s, m)
           r == Reorganize(s, m)
<1>1. CASE c = Null
  <2>1. Loose(s) \cup {m} = {m}
    BY <1>1 DEF Loose
  <2>2. Settled(s, Cached(Reorganize(s, m)))
    BY <2>1, AloneSettles
  <2> QED
    BY <1>1, <2>2 DEF Freeing
<1>2. CASE c # Null
  <2>1. Loose(s) \cup {m} = {m, c} /\ Loose(s) = {c} /\ m # c
    BY <1>2 DEF Loose
  <2> DEFINE X == {m, c}
  <2>a. Kept(s, X) /\ m \in X /\ c \in X
    BY <2>1
  <2>2. CASE IsWhole(s, c)
    <3> DEFINE u == InsertFreeBlock(s, c)
    <3>1. t = Cached(Reorganize(u, m))
      BY <1>2, <2>2 DEF Freeing
    <3>2. Kept(u, X \ {c}) /\ u.block = s.block /\ u.mapped = s.mapped
      BY <2>a, KeptInsert
    <3>3. X \ {c} = {m}
      BY <2>1
    <3> HIDE DEF u, X, t
    <3>4. Settled(u, Cached(Reorganize(u, m)))
      BY <3>2, <3>3, AloneSettles
    <3>5. UsedSame(s.block, u.block, {}) /\ UsedIn(u.block) = UsedIn(s.block)
      BY <3>2 DEF UsedSame
    <3>6. Settled(s, t)
      BY <3>1, <3>2, <3>4, <3>5, SettledAfter
    <3> QED
      BY <3>6 DEF t
  <2>3. CASE ~IsWhole(s, c) /\ Adjacent(s, m, c)
    <3> DEFINE j == Joined(s, m, c)
    <3>1. t = Cached(Reorganize(j.pool, j.at))
      BY <1>2, <2>3 DEF Freeing
    <3>2. Apart(s.block, {m, c})
      BY DEF Apart
    <3>3. /\ Kept(j.pool, {j.at}) /\ Tagged(j.pool.block) /\ Apart(j.pool.block, {j.at})
          /\ j.pool.mapped = s.mapped
          /\ UsedSame(s.block, j.pool.block, {}) /\ UsedIn(j.pool.block) = UsedIn(s.block)
      BY <2>1, <2>3, <2>a, <3>2, JoinedKeeps
    <3> HIDE DEF j, t, X
    <3>4. Settled(j.pool, Cached(Reorganize(j.pool, j.at)))
      BY <3>3, AloneSettles
    <3>5. Settled(s, t)
      BY <3>1, <3>3, <3>4, SettledAfter
    <3> QED
      BY <3>5 DEF t
  <2>4. CASE ~IsWhole(s, c) /\ ~Adjacent(s, m, c)
    <3>1. Prev(s, m) = s.block[m].prev /\ Prev(s, c) = s.block[c].prev
      BY PoolOperators
    <3>2. s.block[m].prev # c /\ s.block[c].prev # m
      BY <2>4, <3>1 DEF Adjacent
    <3>3. After(s.block, m) # c /\ After(s.block, m) # m /\ s.block[m].prev # m
      <4> HIDE DEF X, c
      <4>1. After(s.block, m) # c
        BY <2>a, <3>2, NextOfTag
      <4> QED
        BY <2>a, <4>1, NotBesideItself
    <3>4. After(s.block, m) \notin X /\ s.block[m].prev \notin X
      BY <3>2, <3>3
    <3>5. Reorganized(s, X, r, m)
      BY <2>a, <3>4, ReorganizeKeeps
    <3> DEFINE u == r.pool
               d == r.at
    <3>6. X \ {m} = {c}
      BY <2>1
    <3> HIDE DEF X, t, r
    <3>7. Kept(u, {c} \cup {d}) /\ d # c /\ Tagged(u.block) /\ Apart(u.block, {}) /\ u.cached = c
          /\ u.mapped = s.mapped /\ UsedSame(s.block, u.block, {}) /\ UsedIn(u.block) = UsedIn(s.block)
      BY <3>5, <3>6 DEF Reorganized
    <3> HIDE DEF u, d, c
    <3> DEFINE Y == {c} \cup {d}
    <3>8. Kept(u, Y) /\ c \in Y /\ d \in Y
      BY <3>7
    <3> HIDE DEF Y
    <3>9. c \in FreeIn(u.block) /\ d \in FreeIn(u.block)
      BY <3>8, KeptBlocks
    <3>10. After(u.block, c) # d /\ After(u.block, d) # c
      BY <3>7, <3>9 DEF Apart
    <3>11. ~Adjacent(u, d, c)
      <4>1. u.block[d].prev # c /\ u.block[c].prev # d
        BY <3>7, <3>8, <3>10, NextOfTag
      <4> QED
        BY <4>1, PoolOperators DEF Adjacent
    <3>12. t = LargerCached(u, d)
      BY <1>2, <2>4, <3>11 DEF Freeing, t, u, d, c, r
    <3>13. Settled(u, LargerCached(u, d))
      <4>1. {c} \cup {d} = {u.cached, d} /\ {c} \cup {d} = {c, d}
        BY <3>7
      <4>2. Kept(u, {u.cached, d}) /\ Kept(u, {c, d}) /\ c # d /\ u.cached # d
        BY <3>7, <4>1
      <4>3. CASE Size(u, d) > Size(u, u.cached)
        <5>1. LargerCached(u, d) = Placed(u, c, d)
          BY <3>7, <4>3 DEF LargerCached, Replaced, Placed
        <5> QED
          BY <3>7, <4>2, <5>1, PlacedSettles
      <4>4. CASE ~(Size(u, d) > Size(u, u.cached))
        <5>1. LargerCached(u, d) = InsertFreeBlock(u, d)
          BY <4>4 DEF LargerCached
        <5> QED
          BY <3>7, <4>2, <5>1, InsertedSettles
      <4> QED
        BY <4>3, <4>4
    <3>14. Settled(s, t)
      BY <3>7, <3>12, <3>13, SettledAfter
    <3> QED
      BY <3>14 DEF t
  <2> QED
    BY <2>2, <2>3, <2>4
<1> QED
  BY <1>1, <1>2

\* What freeing a block leaves: the blocks in use without it.
Freed(s, t, m) ==
  /\ Kept(t, Loose(t)) /\ Tagged(t.block) /\ Apart(t.block, {}) /\ t.mapped = s.mapped
  /\ UsedSame(s.block, t.block, {m}) /\ UsedIn(t.block) = UsedIn(s.block) \ {m}

\* A block that is used, or free and in no place, is freed.
LEMMA AddFreedKeeps ==
  ASSUME NEW s, NEW X, Kept(s, X), NEW m \in Heads(s.block), s.block[m].used \/ m \in X,
         X \cup {m} = Loose(s) \cup {m}, m \notin Loose(s), Tagged(s.block), Apart(s.block, {m})
  PROVE  Freed(s, AddFreed(s, m), m)
<1> DEFINE u == [s EXCEPT !.block[m].used = FALSE]
           t == AddFreed(s, m)
<1>1. t = Freeing(u, m)
  BY DEF AddFreed, Freeing
<1>2. /\ Kept(u, X \cup {m}) /\ SameLists(s, u) /\ u.cached = s.cached
      /\ Tagged(s.block) => Tagged(u.block)
      /\ Heads(u.block) = Heads(s.block)
      /\ FreeIn(u.block) = FreeIn(s.block) \cup {m} /\ UsedIn(u.block) = UsedIn(s.block) \ {m}
      /\ \A k \in DOMAIN s.block : /\ u.block[k].size = s.block[k].size
                                   /\ After(u.block, k) = After(s.block, k)
  BY KeptFree
<1> HIDE DEF u, t
<1>3. Loose(u) = Loose(s) /\ Kept(u, Loose(u) \cup {m}) /\ m \notin Loose(u)
  BY <1>2 DEF Loose
<1>a. Heads(s.block) \subseteq DOMAIN s.block /\ FreeIn(u.block) \subseteq Heads(u.block)
  BY DEF Heads, FreeIn
<1>4. Apart(u.block, {m})
  BY <1>2, <1>a DEF Apart
<1>5. Settled(u, t)
  BY <1>1, <1>2, <1>3, <1>4, FreeingSettles
<1>6. UsedSame(s.block, t.block, {m})
  <2>1. ASSUME NEW k, k # m
        PROVE  /\ k \in UsedIn(t.block) <=> k \in UsedIn(s.block)
               /\ k \in UsedIn(s.block) => t.block[k].size = s.block[k].size
    <3>1. UsedIn(s.block) \subseteq DOMAIN s.block
      BY DEF UsedIn, Heads
    <3>2. k \in UsedIn(u.block) => t.block[k].size = u.block[k].size
      BY <1>5 DEF Settled, UsedSame
    <3> QED
      BY <1>2, <1>5, <2>1, <3>1, <3>2 DEF Settled
  <2> QED
    BY <2>1 DEF UsedSame
<1>7. Freed(s, t, m)
  BY <1>2, <1>5, <1>6 DEF Settled, Freed, SameLists
<1> QED
  BY <1>7 DEF t

-----------------------------------------------------------------------------
\* A block split off finds its place: no free block is beside it.
LEMMA AddSplitSettles ==
  ASSUME NEW s, NEW m, Kept(s, Loose(s) \cup {m}), m \notin Loose(s), Tagged(s.block),
         Apart(s.block, {})
  PROVE  Settled(s, AddSplit(s, m))
<1> DEFINE c == s.cached
           t == AddSplit(s, m)
<1>1. CASE c = Null
  <2>1. t = [s EXCEPT !.cached = m]
    BY <1>1 DEF AddSplit
  <2>2. Loose(s) \cup {m} = {m}
    BY <1>1 DEF Loose
  <2>3. Kept(t, {m}) /\ SameLists(s, t) /\ t.block = s.block /\ t.cached = m
    BY <2>1, <2>2, KeptCached
  <2> HIDE DEF t
  <2>4. m # Null
    BY <2>3, KeptBlocks DEF FreeIn, Heads
  <2>5. Loose(t) = {m}
    BY <2>3, <2>4 DEF Loose
  <2>6. UsedSame(s.block, t.block, {})
    BY <2>3 DEF UsedSame
  <2>7. Settled(s, t)
    BY <2>3, <2>5, <2>6 DEF Settled, SameLists
  <2> QED
    BY <2>7 DEF t
<1>2. CASE c # Null
  <2>1. Loose(s) \cup {m} = {c, m} /\ Loose(s) = {c} /\ m # c
    BY <1>2 DEF Loose
  <2>2. Kept(s, {c, m}) /\ Kept(s, {s.cached, m}) /\ s.cached # m /\ c # m
    BY <2>1
  <2>3. ~Adjacent(s, m, c)
    <3> DEFINE X == {c, m}
    <3>1. Kept(s, X) /\ c \in X /\ m \in X
      BY <2>2
    <3> HIDE DEF X, c
    <3>2. c \in FreeIn(s.block) /\ m \in FreeIn(s.block)
      BY <3>1, KeptBlocks
    <3>3. After(s.block, c) # m /\ After(s.block, m) # c
      BY <3>2 DEF Apart
    <3>4. s.block[m].prev # c /\ s.block[c].prev # m
      BY <3>1, <3>3, NextOfTag
    <3> QED
      BY <3>4, PoolOperators DEF Adjacent
  <2>4. CASE t = Placed(s, c, m)
    BY <2>2, <2>4, PlacedSettles
  <2>5. CASE t = InsertFreeBlock(s, m)
    BY <2>2, <2>5, InsertedSettles
  <2>6. t = Placed(s, c, m) \/ t = InsertFreeBlock(s, m)
    BY <1>2, <2>3 DEF AddSplit, Placed, Replaced
  <2> QED
    BY <2>4, <2>5, <2>6
<1> QED
  BY <1>1, <1>2

\* A free block that has been split, or the rest of one that is used, has no free neighbour,
\* when the block behind it is used.
LEMMA SplitApart ==
  ASSUME NEW s, NEW X, Kept(s, X), Apart(s.block, {}), NEW t, NEW m \in Heads(s.block), NEW sz, NEW rest,
         SplitAt(s, X, t, m, sz, rest), After(s.block, m) \notin FreeIn(s.block)
  PROVE  Apart(t.block, {m}) /\ (m \notin FreeIn(s.block) => Apart(t.block, {}))
<1>1. ASSUME NEW k \in FreeIn(t.block), After(t.block, k) \in FreeIn(t.block), k # m
      PROVE  FALSE
  <2>1. FreeIn(t.block) = FreeIn(s.block) \cup {rest} /\ rest \notin DOMAIN s.block
    BY DEF SplitAt
  <2>2. CASE k = rest
    <3>1. After(t.block, k) = After(s.block, m)
      BY <2>2 DEF SplitAt
    <3>2. After(s.block, m) \in DOMAIN s.block
      BY KeptBlocks
    <3> QED
      BY <1>1, <2>1, <3>1, <3>2
  <2>3. CASE k # rest
    <3>1. k \in FreeIn(s.block) /\ k \in Heads(s.block)
      BY <2>1, <2>3 DEF FreeIn
    <3>2. After(t.block, k) = After(s.block, k) /\ After(s.block, k) \in DOMAIN s.block
      BY <1>1, <3>1, KeptBlocks DEF SplitAt
    <3> QED
      BY <1>1, <2>1, <3>1, <3>2 DEF Apart
  <2> QED
    BY <2>2, <2>3
<1>2. m \notin FreeIn(s.block) => m \notin FreeIn(t.block)
  BY KeptBlocks DEF SplitAt
<1> QED
  BY <1>1, <1>2 DEF Apart

\* Right tags are right but for one.
LEMMA TaggedAll ==
  ASSUME NEW B, NEW l, Tagged(B)
  PROVE  TaggedBut(B, l)
  BY DEF Tagged, TaggedBut

\* The rest is split off a used block, if it is worth it: then the tag behind it is right
\* whatever it was before.
SplitOffed(s, t, m, sz) ==
  /\ Kept(t, Loose(t)) /\ Apart(t.block, {}) /\ t.mapped = s.mapped
  /\ UsedSame(s.block, t.block, {m}) /\ UsedIn(t.block) = UsedIn(s.block)
  /\ t.block[m].size >= sz
  /\ CanSplit(s, m, sz) \/ Tagged(s.block) => Tagged(t.block)

\* split_off_free leaves a pool that operations keep, with the block in use cut to its size.
LEMMA SplitOffKeeps ==
  ASSUME NEW s, Kept(s, Loose(s)), NEW m \in UsedIn(s.block), NEW sz \in Nat \ {0},
         s.block[m].size >= sz, Apart(s.block, {}), After(s.block, m) \notin FreeIn(s.block),
         TaggedBut(s.block, After(s.block, m))
  PROVE  SplitOffed(s, SplitOff(s, m, sz), m, sz)
<1> DEFINE rest == RestOf(m, sz)
           u == Split(s, m, sz)
           t == SplitOff(s, m, sz)
<1>1. m \in Heads(s.block) /\ s.block[m].used /\ m \notin FreeIn(s.block)
  BY KeptBlocks
<1>2. CASE CanSplit(s, m, sz)
  <2>1. t = AddSplit(u, rest)
    BY <1>2 DEF SplitOff
  <2> HIDE DEF rest, t, u
  <2>2. SplitAt(s, Loose(s), u, m, sz, rest)
    BY <1>1, <1>2, KeptSplit DEF rest, u
  <2>3. Loose(u) = Loose(s) /\ rest \notin Loose(s)
    <3>1. Loose(s) \subseteq FreeIn(s.block)
      BY KeptBlocks
    <3> QED
      BY <2>2, <3>1 DEF SplitAt, Loose, FreeIn, Heads
  <2>4. Apart(u.block, {})
    BY <1>1, <2>2, SplitApart
  <2>5. Kept(u, Loose(u) \cup {rest}) /\ Tagged(u.block)
    BY <2>2, <2>3 DEF SplitAt
  <2>6. Settled(u, t)
    BY <2>1, <2>3, <2>4, <2>5, AddSplitSettles
  <2>7. UsedSame(s.block, t.block, {m})
    <3>1. ASSUME NEW k, k # m
          PROVE  /\ k \in UsedIn(t.block) <=> k \in UsedIn(s.block)
                 /\ k \in UsedIn(s.block) => t.block[k].size = s.block[k].size
      <4>1. k \in UsedIn(s.block) => k \in Heads(s.block)
        BY DEF UsedIn
      <4>2. k \in UsedIn(u.block) => t.block[k].size = u.block[k].size
        BY <2>6 DEF Settled, UsedSame
      <4> QED
        BY <2>2, <2>6, <3>1, <4>1, <4>2 DEF Settled, SplitAt
    <3> QED
      BY <3>1 DEF UsedSame
  <2>8. t.block[m].size = sz
    <3>1. m \in UsedIn(u.block)
      BY <2>2 DEF SplitAt
    <3>2. t.block[m].size = u.block[m].size
      BY <2>6, <3>1 DEF Settled, UsedSame
    <3> QED
      BY <2>2, <3>2 DEF SplitAt
  <2>9. SplitOffed(s, t, m, sz)
    BY <2>2, <2>6, <2>7, <2>8 DEF SplitOffed, Settled, SplitAt, SameLists
  <2> QED
    BY <2>9 DEF t
<1>3. CASE ~CanSplit(s, m, sz)
  <2>1. t = s
    BY <1>3 DEF SplitOff
  <2>2. SplitOffed(s, s, m, sz)
    BY <1>3 DEF SplitOffed, UsedSame
  <2> QED
    BY <2>1, <2>2
<1> QED
  BY <1>2, <1>3

-----------------------------------------------------------------------------
\* A block of sz bytes at the begin of the free block m is taken, and rest stays free.
CutFrom(s, X, t, m, sz, rest) ==
  /\ Kept(t, (X \ {m}) \cup {rest}) /\ SameLists(s, t) /\ t.cached = s.cached
  /\ Tagged(t.block) /\ Apart(t.block, {})
  /\ UsedIn(t.block) = UsedIn(s.block) \cup {m} /\ UsedSame(s.block, t.block, {m})
  /\ t.block[m].size = sz
  /\ rest \notin DOMAIN s.block /\ rest # Null /\ rest # m

\* Splitting a free block that is out of its place, and taking the first part.
LEMMA CutKeeps ==
  ASSUME NEW s, NEW X, Kept(s, X), Tagged(s.block), Apart(s.block, {}), NEW m \in X, NEW sz \in Nat \ {0},
         CanSplit(s, m, sz)
  PROVE  CutFrom(s, X, Taken(Split(s, m, sz), m), m, sz, RestOf(m, sz))
<1> DEFINE rest == RestOf(m, sz)
           u == Split(s, m, sz)
           t == Taken(u, m)
<1>1. m \in FreeIn(s.block) /\ m \in Heads(s.block) /\ m \in DOMAIN s.block /\ X \subseteq FreeIn(s.block)
      /\ FreeIn(s.block) \subseteq DOMAIN s.block /\ FreeIn(s.block) \cap UsedIn(s.block) = {}
  BY KeptBlocks
<1>a. TaggedBut(s.block, After(s.block, m))
  BY TaggedAll
<1>2. SplitAt(s, X, u, m, sz, rest)
  BY <1>1, KeptSplit
<1> HIDE DEF rest, u, t
<1>3. Kept(u, X \cup {rest}) /\ Tagged(u.block) /\ m \in X \cup {rest}
  BY <1>2, <1>a DEF SplitAt
<1>b. TakenAt(u, X \cup {rest}, t, m)
  BY <1>3, KeptTake DEF t
<1>4. /\ Kept(t, (X \cup {rest}) \ {m}) /\ SameLists(u, t) /\ t.cached = u.cached
      /\ Tagged(u.block) => Tagged(t.block)
      /\ Heads(t.block) = Heads(u.block)
      /\ FreeIn(t.block) = FreeIn(u.block) \ {m} /\ UsedIn(t.block) = UsedIn(u.block) \cup {m}
      /\ \A k \in DOMAIN u.block : /\ t.block[k].size = u.block[k].size
                                   /\ After(t.block, k) = After(u.block, k)
  BY <1>b DEF TakenAt
<1>5. rest \notin DOMAIN s.block /\ rest # Null /\ rest # m
  BY <1>1, <1>2 DEF SplitAt
<1>6. (X \cup {rest}) \ {m} = (X \ {m}) \cup {rest}
  BY <1>5
<1>7. Apart(t.block, {})
  <2>1. After(s.block, m) \notin FreeIn(s.block)
    BY <1>1 DEF Apart
  <2>2. Apart(u.block, {m})
    BY <1>1, <1>2, <2>1, SplitApart
  <2>3. FreeIn(t.block) \subseteq DOMAIN u.block
    BY <1>4 DEF FreeIn, Heads
  <2> QED
    BY <1>4, <2>2, <2>3 DEF Apart
<1>8. Heads(u.block) \subseteq DOMAIN u.block /\ Heads(s.block) \subseteq Heads(u.block)
  BY <1>2 DEF Heads, SplitAt
<1>9. UsedSame(s.block, t.block, {m})
  <2>1. ASSUME NEW k, k # m
        PROVE  /\ k \in UsedIn(t.block) <=> k \in UsedIn(s.block)
               /\ k \in UsedIn(s.block) => t.block[k].size = s.block[k].size
    <3>1. k \in UsedIn(s.block) => k \in Heads(s.block)
      BY DEF UsedIn
    <3> QED
      BY <1>2, <1>4, <1>8, <2>1, <3>1 DEF SplitAt
  <2> QED
    BY <2>1 DEF UsedSame
<1>10. t.block[m].size = sz
  BY <1>1, <1>2, <1>4, <1>8 DEF SplitAt
<1>11. SameLists(s, t) /\ t.cached = s.cached /\ UsedIn(t.block) = UsedIn(s.block) \cup {m}
  BY <1>2, <1>4 DEF SplitAt, SameLists
<1>12. CutFrom(s, X, t, m, sz, rest)
  BY <1>3, <1>4, <1>5, <1>6, <1>7, <1>9, <1>10, <1>11 DEF CutFrom
<1> QED
  BY <1>12 DEF rest, u, t

\* What it is to allocate: block a, which was not in use, is.
Allocated(s, t, a, sz) ==
  /\ Kept(t, Loose(t)) /\ Tagged(t.block) /\ Apart(t.block, {})
  /\ a \notin UsedIn(s.block) /\ UsedIn(t.block) = UsedIn(s.block) \cup {a}
  /\ UsedSame(s.block, t.block, {a}) /\ t.block[a].size >= sz /\ a # Null

\* The first part of the cached block.
LEMMA FromCached ==
  ASSUME NEW s, Kept(s, Loose(s)), Tagged(s.block), Apart(s.block, {}), NEW sz \in Nat \ {0},
         s.cached # Null, CanSplit(s, s.cached, sz)
  PROVE  Allocated(s, [Taken(Split(s, s.cached, sz), s.cached) EXCEPT !.cached = RestOf(@, sz)],
                   s.cached, sz)
<1> DEFINE c == s.cached
           rest == RestOf(c, sz)
           u == Taken(Split(s, c, sz), c)
           t == [u EXCEPT !.cached = rest]
<1>1. Loose(s) = {c} /\ c \in Loose(s)
  BY DEF Loose
<1>2. CutFrom(s, Loose(s), u, c, sz, rest)
  BY <1>1, CutKeeps
<1>3. c \in FreeIn(s.block) /\ c \notin UsedIn(s.block)
  BY <1>1, KeptBlocks
<1> HIDE DEF u, rest
<1>a. (Loose(s) \ {c}) \cup {rest} = {rest}
  BY <1>1
<1>b. Kept(u, {rest}) /\ rest # Null /\ u.cached = c
  BY <1>2, <1>a DEF CutFrom
<1>c. Kept(t, {rest}) /\ SameLists(u, t) /\ t.block = u.block /\ t.cached = rest
  BY <1>b, KeptCached
<1>4. t = [u EXCEPT !.cached = RestOf(@, sz)]
  BY <1>b DEF rest
<1> HIDE DEF t
<1>5. Loose(t) = {rest}
  BY <1>b, <1>c DEF Loose
<1>6. Allocated(s, t, c, sz)
  <2>1. t.block[c].size >= sz
    BY <1>2, <1>c DEF CutFrom
  <2> QED
    BY <1>2, <1>3, <1>c, <1>5, <2>1 DEF Allocated, CutFrom
<1> QED
  BY <1>4, <1>6 DEF u

\* A block out of its place becomes the recent one, where there is none.
LEMMA KeptRecent ==
  ASSUME NEW s, NEW X, Kept(s, X), NEW m \in X, s.mr = Null
  PROVE  LET t == [s EXCEPT !.mr = m]
         IN Kept(t, X \ {m}) /\ t.block = s.block /\ t.cached = s.cached /\ t.mapped = s.mapped
<1> DEFINE t == [s EXCEPT !.mr = m]
<1>1. IsPool(t) /\ t.block = s.block /\ t.cached = s.cached /\ t.mapped = s.mapped
      /\ t.mr = m /\ t.small = s.small /\ t.tree = s.tree
  BY DEF Kept, IsPool
<1> HIDE DEF t
<1>2. m # Null
  BY KeptBlocks DEF FreeIn, Heads
<1>3. Filing(t.block, t.mr, t.small, t.tree, X \ {m})
  BY <1>1, <1>2 DEF Kept, Filing
<1>4. Kept(t, X \ {m})
  BY <1>1, <1>3 DEF Kept
<1> QED
  BY <1>1, <1>4 DEF t

WithoutRecent(s) == [s EXCEPT !.mr = Null]
SameChange(s, v, w, u) == \E C : w = [s EXCEPT !.block = C] /\ u = [v EXCEPT !.block = C]

\* Split and Taken change the headers only, and do not look at the recent block.
LEMMA CutBlock ==
  ASSUME NEW s, IsPool(s), NEW m, NEW sz
  PROVE  SameChange(s, WithoutRecent(s), Taken(Split(s, m, sz), m), Taken(Split(WithoutRecent(s), m, sz), m))
<1> DEFINE v == WithoutRecent(s)
           SplitBlock(B) == With([B EXCEPT ![m].size = sz, ![m + Header + B[m].size].prev = m + Header + sz],
                             m + Header + sz,
                             [prev |-> m, size |-> B[m].size - sz - Header, used |-> FALSE])
           D == SplitBlock(s.block)
           C == [D EXCEPT ![m].used = TRUE]
<1>1. v.block = s.block
  BY DEF IsPool, WithoutRecent
<1> HIDE DEF v
<1>2. Split(s, m, sz) = [s EXCEPT !.block = D]
  BY Zenon DEF Split, NextOf, Size, RestOf
<1>3. Split(v, m, sz) = [v EXCEPT !.block = D]
  BY <1>1, Zenon DEF Split, NextOf, Size, RestOf
<1>4. IsPool(v)
  BY DEF v, IsPool, WithoutRecent
<1> HIDE DEF D
<1>5. \A w : IsPool(w) => [[w EXCEPT !.block = D] EXCEPT !.block[m].used = TRUE] = [w EXCEPT !.block = C]
  BY DEF IsPool
<1>6. Taken(Split(s, m, sz), m) = [s EXCEPT !.block = C]
  BY <1>2, <1>5 DEF Taken
<1>7. Taken(Split(v, m, sz), m) = [v EXCEPT !.block = C]
  BY <1>3, <1>4, <1>5 DEF Taken
<1> QED
  BY <1>6, <1>7 DEF v, SameChange


\* The first part of the recent block.
LEMMA FromRecent ==
  ASSUME NEW s, Kept(s, Loose(s)), Tagged(s.block), Apart(s.block, {}), NEW sz \in Nat \ {0},
         s.mr # Null, CanSplit(s, s.mr, sz)
  PROVE  Allocated(s, [Taken(Split(s, s.mr, sz), s.mr) EXCEPT !.mr = RestOf(@, sz)], s.mr, sz)
<1> DEFINE m == s.mr
           rest == RestOf(m, sz)
           v == WithoutRecent(s)
           u == Taken(Split(v, m, sz), m)
           w == Taken(Split(s, m, sz), m)
           t == [u EXCEPT !.mr = rest]
           X == Loose(s)
<1>1. IsPool(s) /\ m \in FreeIn(s.block) /\ m \notin X /\ m \notin UsedIn(s.block) /\ X \subseteq FreeIn(s.block)
  BY KeptBlocks DEF Kept, Filing
<1>2. v = EraseFreeBlock(s, m)
  BY DEF EraseFreeBlock, WithoutRecent
<1>3. Kept(v, X \cup {m}) /\ v.block = s.block /\ v.cached = s.cached /\ v.mapped = s.mapped
  BY <1>1, <1>2, KeptErase
<1>4. v.mr = Null
  BY <1>1 DEF IsPool, WithoutRecent
<1>5. [w EXCEPT !.mr = RestOf(@, sz)] = t
  <2>a. SameChange(s, v, w, u)
    BY <1>1, CutBlock
  <2>1. PICK C : w = [s EXCEPT !.block = C] /\ u = [v EXCEPT !.block = C]
    BY <2>a DEF SameChange
  <2> HIDE DEF u, w, rest, m
  <2>2. w.mr = m
    BY <1>1, <2>1 DEF IsPool, m
  <2>3. [w EXCEPT !.mr = rest] = [s EXCEPT !.block = C, !.mr = rest]
    BY <1>1, <2>1 DEF IsPool
  <2>4. [u EXCEPT !.mr = rest] = [s EXCEPT !.block = C, !.mr = rest]
    BY <1>1, <2>1 DEF IsPool, WithoutRecent
  <2> QED
    BY <2>2, <2>3, <2>4 DEF rest
<1> HIDE DEF v, X, m, rest
<1>6. CutFrom(v, X \cup {m}, u, m, sz, rest)
  <2>1. CanSplit(v, m, sz)
    BY <1>3 DEF CanSplit, Size, m
  <2>2. Tagged(v.block) /\ Apart(v.block, {}) /\ m \in X \cup {m}
    BY <1>3
  <2> QED
    BY <1>3, <2>1, <2>2, CutKeeps DEF rest
<1> HIDE DEF u
<1>7. ((X \cup {m}) \ {m}) \cup {rest} = X \cup {rest} /\ rest \notin X
  <2>1. rest \notin DOMAIN s.block
    BY <1>3, <1>6 DEF CutFrom
  <2>2. rest \notin X
    BY <1>1, <2>1 DEF FreeIn, Heads
  <2> QED
    BY <1>1, <2>2
<1>8. Kept(u, X \cup {rest}) /\ u.mr = Null /\ u.cached = s.cached
  BY <1>3, <1>4, <1>6, <1>7 DEF CutFrom, SameLists
<1>9. Kept(t, (X \cup {rest}) \ {rest}) /\ t.block = u.block /\ t.cached = u.cached
  <2>1. rest \in X \cup {rest}
    OBVIOUS
  <2> QED
    BY <1>8, <2>1, KeptRecent
<1>10. (X \cup {rest}) \ {rest} = Loose(t)
  BY <1>7, <1>8, <1>9 DEF Loose, X
<1> HIDE DEF t
<1>11. Allocated(s, t, m, sz)
  <2>1. t.block[m].size >= sz
    BY <1>6, <1>9 DEF CutFrom
  <2> QED
    BY <1>1, <1>3, <1>6, <1>9, <1>10, <2>1 DEF Allocated, CutFrom, m
<1> QED
  BY <1>5, <1>11 DEF w, t, m

\* A block of the tree that is large enough, and what remains of it is split off.
LEMMA FromTree ==
  ASSUME NEW s, Kept(s, Loose(s)), Tagged(s.block), Apart(s.block, {}), NEW sz \in Nat \ {0},
         NEW m \in s.tree, s.block[m].size >= sz
  PROVE  Allocated(s, SplitOff(Taken([s EXCEPT !.tree = @ \ {m}], m), m, sz), m, sz)
<1> DEFINE v == [s EXCEPT !.tree = @ \ {m}]
           u == Taken(v, m)
           t == SplitOff(u, m, sz)
           X == Loose(s)
<1>1. m \in FreeIn(s.block) /\ m \notin X /\ m \notin UsedIn(s.block) /\ m # s.mr
      /\ ~(s.block[m].size < SmallSize) /\ m # Null /\ m \in DOMAIN s.block
  <2>1. m \in FreeIn(s.block) /\ m \notin X /\ m # s.mr /\ s.block[m].size >= SmallSize
    BY DEF Kept, Filing
  <2>2. m \notin UsedIn(s.block) /\ m # Null /\ m \in DOMAIN s.block /\ Linked(s.block)
    BY <2>1, KeptBlocks
  <2>3. s.block[m].size \in Nat /\ SmallSize \in Nat
    BY <2>2, BlockTyped, SizesTyped
  <2> QED
    BY <2>1, <2>2, <2>3
<1>2. v = EraseFreeBlock(s, m)
  BY <1>1, PoolOperators DEF EraseFreeBlock
<1>3. Kept(v, X \cup {m}) /\ v.block = s.block /\ v.cached = s.cached /\ v.mapped = s.mapped
  BY <1>1, <1>2, KeptErase
<1> HIDE DEF v, u, t, X
<1>4. TakenAt(v, X \cup {m}, u, m)
  <2>1. m \in X \cup {m}
    OBVIOUS
  <2> QED
    BY <1>3, <2>1, KeptTake DEF u
<1>5. (X \cup {m}) \ {m} = X
  BY <1>1
<1>6. Kept(u, Loose(u)) /\ Tagged(u.block) /\ m \in UsedIn(u.block) /\ u.block[m].size >= sz
  BY <1>1, <1>3, <1>4, <1>5 DEF TakenAt, Loose, X
<1>7. Apart(u.block, {}) /\ After(u.block, m) \notin FreeIn(u.block)
  <2>1. FreeIn(u.block) \subseteq DOMAIN s.block
    BY <1>3, <1>4 DEF TakenAt, FreeIn, Heads
  <2> QED
    BY <1>1, <1>3, <1>4, <2>1 DEF TakenAt, Apart
<1>8. TaggedBut(u.block, After(u.block, m))
  BY <1>6, TaggedAll
<1>9. SplitOffed(u, t, m, sz)
  BY <1>6, <1>7, <1>8, SplitOffKeeps DEF t
<1>10. UsedSame(s.block, t.block, {m})
  <2>1. ASSUME NEW k, k # m
        PROVE  /\ k \in UsedIn(t.block) <=> k \in UsedIn(s.block)
               /\ k \in UsedIn(s.block) => t.block[k].size = s.block[k].size
    <3>1. k \in UsedIn(s.block) => k \in DOMAIN s.block
      BY DEF UsedIn, Heads
    <3>2. k \in UsedIn(u.block) => t.block[k].size = u.block[k].size
      BY <1>9, <2>1 DEF SplitOffed, UsedSame
    <3> QED
      BY <1>3, <1>4, <1>9, <2>1, <3>1, <3>2 DEF SplitOffed, TakenAt
  <2> QED
    BY <2>1 DEF UsedSame
<1>11. Allocated(s, t, m, sz)
  BY <1>1, <1>3, <1>4, <1>6, <1>9, <1>10 DEF SplitOffed, Allocated, TakenAt
<1> QED
  BY <1>11 DEF t, u, v

\* Whatever the pool has for sz bytes is so.
LEMMA FromPoolAllocates ==
  ASSUME NEW s, Kept(s, Loose(s)), Tagged(s.block), Apart(s.block, {}), NEW sz \in Nat \ {0},
         NEW o \in FromPool(s, sz)
  PROVE  Allocated(s, o.pool, o.at, sz)
<1>1. CASE Splittable(s, sz) = "cached"
  <2>1. s.cached # Null /\ CanSplit(s, s.cached, sz)
    BY <1>1 DEF Splittable
  <2>2. o = [pool |-> [Taken(Split(s, s.cached, sz), s.cached) EXCEPT !.cached = RestOf(@, sz)],
             at |-> s.cached]
    BY <1>1, Zenon DEF FromPool
  <2>3. /\ o.pool = [Taken(Split(s, s.cached, sz), s.cached) EXCEPT !.cached = RestOf(@, sz)]
        /\ o.at = s.cached
    BY <2>2
  <2> QED
    BY <2>1, <2>3, FromCached
<1>2. CASE Splittable(s, sz) = "mr"
  <2>1. s.mr # Null /\ CanSplit(s, s.mr, sz)
    BY <1>2 DEF Splittable
  <2>2. o = [pool |-> [Taken(Split(s, s.mr, sz), s.mr) EXCEPT !.mr = RestOf(@, sz)], at |-> s.mr]
    BY <1>2 DEF FromPool
  <2>3. /\ o.pool = [Taken(Split(s, s.mr, sz), s.mr) EXCEPT !.mr = RestOf(@, sz)]
        /\ o.at = s.mr
    BY <2>2
  <2> QED
    BY <2>1, <2>3, FromRecent
<1>3. CASE Splittable(s, sz) # "cached" /\ Splittable(s, sz) # "mr"
  <2>1. PICK m \in BestFits(s, sz) :
          o = [pool |-> SplitOff(Taken([s EXCEPT !.tree = @ \ {m}], m), m, sz), at |-> m]
    BY <1>3 DEF FromPool
  <2>2. m \in s.tree /\ s.block[m].size >= sz
    BY <2>1, PoolOperators DEF BestFits, Fitting
  <2>3. o.pool = SplitOff(Taken([s EXCEPT !.tree = @ \ {m}], m), m, sz) /\ o.at = m
    BY <2>1
  <2> QED
    BY <2>2, <2>3, FromTree
<1> QED
  BY <1>1, <1>2, <1>3

-----------------------------------------------------------------------------
(***************************************************************************)
(* A new region.                                                           *)
(***************************************************************************)

\* C is B with the blocks of D, which are elsewhere.
Adds(B, D, C) ==
  /\ DOMAIN C = DOMAIN B \cup DOMAIN D /\ DOMAIN B \cap DOMAIN D = {}
  /\ \A m \in DOMAIN B : C[m] = B[m]
  /\ \A m \in DOMAIN D : C[m] = D[m]
Between(B, D) ==
  \A m \in DOMAIN B, n \in DOMAIN D : (m < n => After(B, m) <= n) /\ (n < m => After(D, n) <= m)

\* What there is then.
LEMMA AddsBlocks ==
  ASSUME NEW B, NEW D, NEW C, Adds(B, D, C)
  PROVE  /\ Heads(C) = Heads(B) \cup Heads(D) /\ FreeIn(C) = FreeIn(B) \cup FreeIn(D)
         /\ UsedIn(C) = UsedIn(B) \cup UsedIn(D) /\ FirstsOf(C) = FirstsOf(B) \cup FirstsOf(D)
         /\ TailsOf(C) = TailsOf(B) \cup TailsOf(D)
         /\ \A m \in DOMAIN B : After(C, m) = After(B, m)
         /\ \A m \in DOMAIN D : After(C, m) = After(D, m)
<1>1. /\ DOMAIN C = DOMAIN B \cup DOMAIN D
      /\ \A m \in DOMAIN B : C[m] = B[m]
      /\ \A m \in DOMAIN D : C[m] = D[m]
  BY DEF Adds
<1>2. Heads(C) = Heads(B) \cup Heads(D)
  BY <1>1 DEF Heads
<1>3. Heads(B) \subseteq DOMAIN B /\ Heads(D) \subseteq DOMAIN D
  BY DEF Heads
<1>4. FreeIn(C) = FreeIn(B) \cup FreeIn(D)
  BY <1>1, <1>2, <1>3 DEF FreeIn
<1>5. UsedIn(C) = UsedIn(B) \cup UsedIn(D)
  BY <1>1, <1>2, <1>3 DEF UsedIn
<1>6. FirstsOf(C) = FirstsOf(B) \cup FirstsOf(D)
  BY <1>1, <1>2, <1>3 DEF FirstsOf
<1>7. TailsOf(C) = TailsOf(B) \cup TailsOf(D)
  BY <1>1 DEF TailsOf
<1>8. /\ \A m \in DOMAIN B : After(C, m) = After(B, m)
      /\ \A m \in DOMAIN D : After(C, m) = After(D, m)
  BY <1>1 DEF After
<1> QED
  BY <1>2, <1>4, <1>5, <1>6, <1>7, <1>8

\* Both are linked, both are tagged, in both free blocks are apart: then together too.
LEMMA AddsLinked ==
  ASSUME NEW B, NEW D, NEW C, Adds(B, D, C), Between(B, D), Linked(B), Linked(D)
  PROVE  /\ Linked(C)
         /\ Tagged(B) /\ Tagged(D) => Tagged(C)
         /\ Apart(B, {}) /\ Apart(D, {}) => Apart(C, {})
<1>1. /\ DOMAIN C = DOMAIN B \cup DOMAIN D /\ DOMAIN B \cap DOMAIN D = {}
      /\ \A m \in DOMAIN B : C[m] = B[m]
      /\ \A m \in DOMAIN D : C[m] = D[m]
  BY DEF Adds
<1>2. /\ Heads(C) = Heads(B) \cup Heads(D) /\ FreeIn(C) = FreeIn(B) \cup FreeIn(D)
      /\ UsedIn(C) = UsedIn(B) \cup UsedIn(D) /\ FirstsOf(C) = FirstsOf(B) \cup FirstsOf(D)
      /\ TailsOf(C) = TailsOf(B) \cup TailsOf(D)
      /\ \A m \in DOMAIN B : After(C, m) = After(B, m)
      /\ \A m \in DOMAIN D : After(C, m) = After(D, m)
  BY AddsBlocks
<1>3. /\ Heads(B) \subseteq DOMAIN B /\ Heads(D) \subseteq DOMAIN D
      /\ FreeIn(B) \subseteq Heads(B) /\ FreeIn(D) \subseteq Heads(D)
      /\ TailsOf(B) \subseteq DOMAIN B /\ TailsOf(D) \subseteq DOMAIN D
  BY DEF Heads, FreeIn, TailsOf
<1>4. /\ \A m \in Heads(B) : After(B, m) \in DOMAIN B
      /\ \A m \in Heads(D) : After(D, m) \in DOMAIN D
  BY DEF Linked
<1>5. DOMAIN C \subseteq Addresses /\ \A m \in DOMAIN C : C[m] \in Block
  BY <1>1 DEF Linked
<1>6. \A m \in TailsOf(C) : C[m].used
  BY <1>1, <1>2, <1>3 DEF Linked
<1>7. \A m \in Heads(C) : After(C, m) \in DOMAIN C
  BY <1>1, <1>2, <1>3, <1>4
<1>8. ASSUME NEW m \in DOMAIN C, NEW n \in DOMAIN C, m < n
      PROVE  After(C, m) <= n
  <2>1. CASE m \in DOMAIN B /\ n \in DOMAIN B
    BY <1>2, <1>8, <2>1 DEF Linked
  <2>2. CASE m \in DOMAIN D /\ n \in DOMAIN D
    BY <1>2, <1>8, <2>2 DEF Linked
  <2>3. CASE m \in DOMAIN B /\ n \in DOMAIN D
    BY <1>2, <1>8, <2>3 DEF Between
  <2>4. CASE m \in DOMAIN D /\ n \in DOMAIN B
    BY <1>2, <1>8, <2>4 DEF Between
  <2> QED
    BY <1>1, <2>1, <2>2, <2>3, <2>4
<1>9. ASSUME NEW m \in Heads(C), After(C, m) \in Heads(C)
      PROVE  C[After(C, m)].prev # Null
  <2>1. CASE m \in Heads(B)
    <3>1. After(C, m) = After(B, m) /\ After(B, m) \in DOMAIN B
      BY <1>2, <1>3, <1>4, <2>1
    <3>2. After(B, m) \in Heads(B)
      BY <1>1, <1>2, <1>3, <1>9, <3>1
    <3> QED
      BY <1>1, <2>1, <3>1, <3>2 DEF Linked
  <2>2. CASE m \in Heads(D)
    <3>1. After(C, m) = After(D, m) /\ After(D, m) \in DOMAIN D
      BY <1>2, <1>3, <1>4, <2>2
    <3>2. After(D, m) \in Heads(D)
      BY <1>1, <1>2, <1>3, <1>9, <3>1
    <3> QED
      BY <1>1, <2>2, <3>1, <3>2 DEF Linked
  <2> QED
    BY <1>2, <2>1, <2>2
<1>10. Linked(C)
  BY <1>5, <1>6, <1>7, <1>8, <1>9 DEF Linked
<1>11. Tagged(B) /\ Tagged(D) => Tagged(C)
  BY <1>1, <1>2, <1>3 DEF Tagged
<1>12. ASSUME Apart(B, {}), Apart(D, {}) PROVE Apart(C, {})
  <2> SUFFICES ASSUME NEW m \in FreeIn(C), After(C, m) \in FreeIn(C) PROVE FALSE
    BY DEF Apart
  <2>1. CASE m \in FreeIn(B)
    <3>1. After(C, m) = After(B, m) /\ After(B, m) \in DOMAIN B
      BY <1>2, <1>3, <1>4, <2>1
    <3> QED
      BY <1>1, <1>2, <1>3, <1>12, <2>1, <3>1 DEF Apart
  <2>2. CASE m \in FreeIn(D)
    <3>1. After(C, m) = After(D, m) /\ After(D, m) \in DOMAIN D
      BY <1>2, <1>3, <1>4, <2>2
    <3> QED
      BY <1>1, <1>2, <1>3, <1>12, <2>2, <3>1 DEF Apart
  <2> QED
    BY <1>2, <2>1, <2>2
<1> QED
  BY <1>10, <1>11, <1>12

\* Addresses of pages.
LEMMA Starts ==
  ASSUME NEW i \in Nat, NEW j \in Nat
  PROVE  /\ Start(i) \in Nat /\ (i < j => Start(i) + Page <= Start(j)) /\ (i <= j => Start(i) <= Start(j))
         /\ (Start(i) < Start(j) => i < j) /\ (Start(i) = Start(j) => i = j)
<1>1. Page \in Nat \ {0}
  BY SizesTyped
<1>2. i * Page \in Nat /\ j * Page \in Nat
  BY <1>1
<1>3. i < j => i * Page + Page <= j * Page
  BY <1>1
<1>4. i <= j => i * Page <= j * Page
  BY <1>1
<1>5. j <= i => j * Page <= i * Page
  BY <1>1
<1>6. j < i => j * Page + Page <= i * Page
  BY <1>1
<1> QED
  BY <1>1, <1>2, <1>3, <1>4, <1>5, <1>6 DEF Start

\* Pages that the pool has not got have none of its blocks.
LEMMA RegionApart ==
  ASSUME NEW B, NEW mapped, Linked(B), Regioned(B, mapped), NEW k \in 1 .. PageCount,
         NEW e \in (k + 1) .. (PageCount + 1), \A p \in k .. (e - 1) : p \notin mapped,
         NEW m \in DOMAIN B
  PROVE  (m < Start(k) /\ After(B, m) <= Start(k)) \/ Start(e) <= m
<1>1. PICK i, j, t : Region(FirstsOf(B), TailsOf(B), i, j, t) /\ Start(i) <= m /\ m <= t
  BY DEF Regioned, RegionedBy
<1>2. i \in 1 .. PageCount /\ j \in (i + 1) .. (PageCount + 1) /\ t \in TailsOf(B)
      /\ t + Header <= Start(j)
  BY <1>1 DEF Region
<1>3. \A p \in i .. (j - 1) : p \in mapped
  BY <1>1 DEF Regioned, RegionedBy
<1>4. PageCount \in Nat /\ Header \in Nat \ {0}
  BY SizesTyped
<1>5. i \in Nat /\ j \in Nat /\ k \in Nat /\ e \in Nat /\ i < j /\ k < e
  BY <1>2, <1>4
<1>6. j <= k \/ e <= i
  <2>1. i \in i .. (j - 1) /\ k \in k .. (e - 1)
    BY <1>5
  <2>2. ~(i <= k /\ k < j)
    <3>1. SUFFICES ASSUME i <= k, k < j PROVE FALSE
      OBVIOUS
    <3>2. k \in i .. (j - 1)
      BY <1>5, <3>1
    <3> QED
      BY <1>3, <2>1, <3>2
  <2>3. ~(k <= i /\ i < e)
    <3>1. SUFFICES ASSUME k <= i, i < e PROVE FALSE
      OBVIOUS
    <3>2. i \in k .. (e - 1)
      BY <1>5, <3>1
    <3> QED
      BY <1>3, <2>1, <3>2
  <2> QED
    BY <1>5, <2>2, <2>3
<1>7. t \in DOMAIN B /\ B[t].size = 0 /\ t \in Nat /\ m \in Nat /\ After(B, m) \in Nat
      /\ After(B, t) = t + Header
  <2>1. t \in DOMAIN B /\ B[t].size = 0
    BY <1>2 DEF TailsOf
  <2>2. t \in Nat /\ m \in Nat /\ After(B, m) \in Nat
    BY <2>1, BlockTyped
  <2> QED
    BY <1>4, <2>1, <2>2 DEF After
<1>8. After(B, m) <= Start(j) /\ m < After(B, m)
  <2>1. m < After(B, m)
    BY BlockTyped
  <2>2. Start(j) \in Nat
    BY <1>5, Starts
  <2>3. m < t => After(B, m) <= t
    BY <1>7 DEF Linked
  <2> QED
    BY <1>1, <1>2, <1>4, <1>7, <2>1, <2>2, <2>3
<1>9. Start(j) \in Nat /\ Start(i) \in Nat /\ Start(k) \in Nat /\ Start(e) \in Nat
      /\ (j <= k => Start(j) <= Start(k)) /\ (e <= i => Start(e) <= Start(i))
  BY <1>5, Starts
<1> QED
  BY <1>1, <1>6, <1>7, <1>8, <1>9

-----------------------------------------------------------------------------
\* D is a region of its own: the pages k to e - 1, with the tail l.
OwnRegion(D, k, e, l) ==
  /\ Linked(D) /\ Tagged(D) /\ Apart(D, {})
  /\ FirstsOf(D) = {Start(k)} /\ TailsOf(D) = {l} /\ \A m \in DOMAIN D : Start(k) <= m /\ m <= l
  /\ k \in 1 .. PageCount /\ e \in (k + 1) .. (PageCount + 1)
  /\ Start(e) <= l + Header + FreeSize /\ l + Header <= Start(e)

\* The regions are then the old ones and the new one.
LEMMA RegionsAdded ==
  ASSUME NEW B, NEW mapped, Linked(B), Regioned(B, mapped), NEW k, NEW e, NEW l, NEW D,
         OwnRegion(D, k, e, l), \A p \in k .. (e - 1) : p \notin mapped, NEW C, Adds(B, D, C)
  PROVE  Regioned(C, mapped \cup k .. (e - 1)) /\ Between(B, D)
<1> DEFINE F == FirstsOf(B)
           T == TailsOf(B)
           F1 == FirstsOf(C)
           T1 == TailsOf(C)
<1>1. /\ Linked(D) /\ FirstsOf(D) = {Start(k)} /\ TailsOf(D) = {l}
      /\ \A m \in DOMAIN D : Start(k) <= m /\ m <= l
      /\ k \in 1 .. PageCount /\ e \in (k + 1) .. (PageCount + 1)
      /\ Start(e) <= l + Header + FreeSize /\ l + Header <= Start(e)
  BY DEF OwnRegion
<1>2. F1 = F \cup {Start(k)} /\ T1 = T \cup {l} /\ DOMAIN C = DOMAIN B \cup DOMAIN D
  BY <1>1, AddsBlocks DEF Adds
<1>3. \A m \in DOMAIN B : (m < Start(k) /\ After(B, m) <= Start(k)) \/ Start(e) <= m
  BY <1>1, RegionApart
<1>4. F \subseteq DOMAIN B /\ T \subseteq DOMAIN B /\ F \cap T = {}
      /\ l \in DOMAIN D /\ Start(k) \in DOMAIN D /\ l # Start(k)
  BY <1>1 DEF FirstsOf, TailsOf, Heads
<1>5. l \in Nat /\ Start(k) \in Nat /\ Start(e) \in Nat /\ k \in Nat /\ e \in Nat /\ Start(k) < l
      /\ l < Start(e)
  <2>1. l \in Nat /\ Start(k) \in Nat
    BY <1>1, <1>4, BlockTyped
  <2>2. k \in Nat /\ e \in Nat /\ Header \in Nat \ {0}
    BY <1>1, SizesTyped
  <2>3. Start(e) \in Nat
    BY <2>2, Starts
  <2>4. Start(k) <= l
    BY <1>1, <1>4
  <2> QED
    BY <1>1, <1>4, <2>1, <2>2, <2>3, <2>4
<1>6. \A m \in DOMAIN B : m \in Nat /\ After(B, m) \in Nat
  BY BlockTyped
<1>7. \A m \in DOMAIN D : m \in Nat /\ After(D, m) \in Nat /\ After(D, m) <= Start(e)
  <2> SUFFICES ASSUME NEW m \in DOMAIN D
               PROVE  m \in Nat /\ After(D, m) \in Nat /\ After(D, m) <= Start(e)
    OBVIOUS
  <2>1. m \in Nat /\ After(D, m) \in Nat
    BY <1>1, BlockTyped
  <2>2. m < l => After(D, m) <= l
    BY <1>1, <1>4 DEF Linked
  <2>3. m = l => After(D, m) = l + Header
    <3>1. D[l].size = 0
      BY <1>1 DEF TailsOf
    <3> QED
      BY <1>5, <3>1, SizesTyped DEF After
  <2> QED
    BY <1>1, <1>5, <2>1, <2>2, <2>3, SizesTyped
<1>8. Between(B, D)
  <2> SUFFICES ASSUME NEW m \in DOMAIN B, NEW n \in DOMAIN D
               PROVE  (m < n => After(B, m) <= n) /\ (n < m => After(D, n) <= m)
    BY DEF Between
  <2>1. Start(k) <= n /\ n <= l
    BY <1>1
  <2>2. (m < Start(k) /\ After(B, m) <= Start(k)) \/ Start(e) <= m
    BY <1>3
  <2> QED
    BY <1>5, <1>6, <1>7, <2>1, <2>2
<1> HIDE DEF F, T, F1, T1
<1>9. Region(F1, T1, k, e, l)
  <2>1. \A x \in F1 \cup T1 : ~(Start(k) < x /\ x < l)
    BY <1>2, <1>3, <1>4, <1>5, <1>6
  <2> QED
    BY <1>1, <1>2, <1>5, <2>1 DEF Region
<1>10. ASSUME NEW i, NEW j, NEW t, Region(F, T, i, j, t)
       PROVE  Region(F1, T1, i, j, t)
  <2>1. Start(i) \in F /\ t \in T /\ Start(i) < t
    BY <1>10 DEF Region
  <2>2. ~(Start(i) < Start(k) /\ Start(k) < t) /\ ~(Start(i) < l /\ l < t)
    <3>1. i \in 1 .. PageCount /\ j \in (i + 1) .. (PageCount + 1) /\ t + Header <= Start(j)
          /\ \A p \in i .. (j - 1) : p \in mapped
      BY <1>10 DEF Region, Regioned, RegionedBy, F, T
    <3>2. i \in Nat /\ j \in Nat /\ Header \in Nat
      BY <3>1, SizesTyped
    <3>3. ~(i < k /\ k < j)
      <4>1. SUFFICES ASSUME i < k, k < j PROVE FALSE
        OBVIOUS
      <4>2. k \in i .. (j - 1) /\ k \in k .. (e - 1)
        BY <1>1, <1>5, <3>2, <4>1
      <4> QED
        BY <3>1, <4>2
    <3>4. /\ Start(j) \in Nat /\ Start(i) \in Nat
          /\ Start(i) < Start(k) => i < k
          /\ j <= k => Start(j) <= Start(k)
      BY <1>5, <3>2, Starts
    <3>5. t \in Nat /\ Start(i) \in Nat
      BY <1>4, <1>6, <2>1
    <3>6. ~(Start(i) < Start(k) /\ Start(k) < t)
      BY <1>5, <3>1, <3>2, <3>3, <3>4, <3>5
    <3>7. (t < Start(k) \/ Start(e) <= t) /\ (Start(i) < Start(k) \/ Start(e) <= Start(i))
      BY <1>3, <1>4, <2>1
    <3> QED
      BY <1>5, <3>5, <3>6, <3>7
  <2> QED
    BY <1>2, <1>10, <2>2 DEF Region
<1>11. ASSUME NEW i, NEW j, NEW t, Region(F1, T1, i, j, t)
       PROVE  Region(F, T, i, j, t) \/ (i = k /\ j = e)
  <2>1. /\ Start(i) \in F \cup {Start(k)} /\ t \in T \cup {l} /\ Start(i) < t
        /\ i \in 1 .. PageCount /\ j \in (i + 1) .. (PageCount + 1)
        /\ Start(j) <= t + Header + FreeSize /\ t + Header <= Start(j)
        /\ \A x \in F1 \cup T1 : ~(Start(i) < x /\ x < t)
    BY <1>2, <1>11 DEF Region
  <2>2. i \in Nat /\ j \in Nat /\ Start(i) \in Nat /\ Start(j) \in Nat
    <3>1. i \in Nat /\ j \in Nat
      BY <2>1
    <3> QED
      BY <3>1, Starts
  <2>3. ~(Start(i) < Start(k) /\ Start(k) < t) /\ ~(Start(i) < l /\ l < t)
    BY <1>2, <2>1
  <2>4. CASE Start(i) = Start(k)
    <3>1. i = k
      BY <1>5, <2>2, <2>4, Starts
    <3>2. t = l
      <4>1. SUFFICES ASSUME t \in T PROVE FALSE
        BY <2>1
      <4>2. t \in Nat /\ (t < Start(k) \/ Start(e) <= t)
        BY <1>3, <1>4, <1>6, <4>1
      <4> QED
        BY <1>5, <2>1, <2>3, <2>4, <4>2
    <3>3. j = e
      <4>1. Start(j) <= l + Header + FreeSize /\ l + Header <= Start(j)
        BY <2>1, <3>2
      <4>2. Header \in Nat /\ FreeSize \in Nat /\ Page \in Nat /\ FreeSize < Page
        BY SizesTyped
      <4>3. Start(j) < Start(e) + Page /\ Start(e) < Start(j) + Page
        BY <1>1, <1>5, <2>2, <4>1, <4>2
      <4>4. (j < e => Start(j) + Page <= Start(e)) /\ (e < j => Start(e) + Page <= Start(j))
        BY <1>5, <2>2, Starts
      <4> QED
        BY <1>5, <2>2, <4>2, <4>3, <4>4
    <3> QED
      BY <3>1, <3>3
  <2>5. CASE Start(i) # Start(k)
    <3>1. Start(i) \in F
      BY <2>1, <2>5
    <3>2. t # l
      <4>1. SUFFICES ASSUME t = l PROVE FALSE
        OBVIOUS
      <4>2. Start(i) < Start(k) \/ Start(e) <= Start(i)
        BY <1>3, <1>4, <3>1
      <4> QED
        BY <1>5, <2>1, <2>2, <2>3, <4>1, <4>2
    <3> QED
      BY <1>2, <2>1, <3>1, <3>2 DEF Region
  <2> QED
    BY <2>4, <2>5
<1>12. \A m \in DOMAIN C : \E i, j, t : Region(F1, T1, i, j, t) /\ Start(i) <= m /\ m <= t
  <2> SUFFICES ASSUME NEW m \in DOMAIN C
               PROVE  \E i, j, t : Region(F1, T1, i, j, t) /\ Start(i) <= m /\ m <= t
    OBVIOUS
  <2>1. CASE m \in DOMAIN B
    <3>1. PICK i, j, t : Region(F, T, i, j, t) /\ Start(i) <= m /\ m <= t
      BY <2>1 DEF Regioned, RegionedBy, F, T
    <3> QED
      BY <1>10, <3>1
  <2>2. CASE m \in DOMAIN D
    BY <1>1, <1>9, <2>2
  <2> QED
    BY <1>2, <2>1, <2>2
<1>13. ASSUME NEW p
       PROVE  p \in mapped \cup k .. (e - 1) <=> \E i, j, t : Region(F1, T1, i, j, t) /\ p \in i .. (j - 1)
  <2>1. p \in mapped <=> \E i, j, t : Region(F, T, i, j, t) /\ p \in i .. (j - 1)
    BY DEF Regioned, RegionedBy, F, T
  <2>2. ASSUME p \in mapped \cup k .. (e - 1)
        PROVE  \E i, j, t : Region(F1, T1, i, j, t) /\ p \in i .. (j - 1)
    <3>1. CASE p \in mapped
      BY <1>10, <2>1, <3>1
    <3>2. CASE p \in k .. (e - 1)
      BY <1>9, <3>2
    <3> QED
      BY <2>2, <3>1, <3>2
  <2>3. ASSUME NEW i, NEW j, NEW t, Region(F1, T1, i, j, t), p \in i .. (j - 1)
        PROVE  p \in mapped \cup k .. (e - 1)
    BY <1>11, <2>1, <2>3
  <2> QED
    BY <2>2, <2>3
<1> QED
  BY <1>8, <1>12, <1>13 DEF Regioned, RegionedBy, F1, T1

\* A pool with one more region.
WithRegion(s, t, D, k, e) ==
  /\ IsPool(t) /\ Adds(s.block, D, t.block) /\ t.cached = s.cached /\ t.mr = s.mr
  /\ t.small = s.small /\ t.tree = s.tree /\ t.mapped = s.mapped \cup k .. (e - 1)

\* A region of its own in free pages joins the pool: its free blocks are not in a place yet.
LEMMA KeptRegion ==
  ASSUME NEW s, NEW X, Kept(s, X), NEW k, NEW e, NEW l, NEW D, OwnRegion(D, k, e, l),
         \A p \in k .. (e - 1) : p \notin s.mapped, NEW t, WithRegion(s, t, D, k, e)
  PROVE  /\ Kept(t, X \cup FreeIn(D))
         /\ Tagged(s.block) => Tagged(t.block)
         /\ Apart(s.block, {}) => Apart(t.block, {})
         /\ UsedIn(t.block) = UsedIn(s.block) \cup UsedIn(D)
         /\ UsedSame(s.block, t.block, UsedIn(D))
<1>1. IsPool(s) /\ Linked(s.block) /\ Regioned(s.block, s.mapped) /\ Filing(s.block, s.mr, s.small, s.tree, X)
  BY DEF Kept
<1>2. /\ IsPool(t) /\ Adds(s.block, D, t.block) /\ t.cached = s.cached /\ t.mr = s.mr
      /\ t.small = s.small /\ t.tree = s.tree /\ t.mapped = s.mapped \cup k .. (e - 1)
  BY DEF WithRegion
<1>3. Regioned(t.block, t.mapped) /\ Between(s.block, D)
  BY <1>1, <1>2, RegionsAdded
<1>4. Linked(D) /\ Tagged(D) /\ Apart(D, {})
  BY DEF OwnRegion
<1>5. /\ Linked(t.block)
      /\ Tagged(s.block) => Tagged(t.block)
      /\ Apart(s.block, {}) => Apart(t.block, {})
  BY <1>1, <1>2, <1>3, <1>4, AddsLinked
<1>6. /\ Heads(t.block) = Heads(s.block) \cup Heads(D) /\ FreeIn(t.block) = FreeIn(s.block) \cup FreeIn(D)
      /\ UsedIn(t.block) = UsedIn(s.block) \cup UsedIn(D)
  BY <1>2, AddsBlocks
<1>7. /\ DOMAIN s.block \cap DOMAIN D = {} /\ \A m \in DOMAIN s.block : t.block[m] = s.block[m]
  BY <1>2 DEF Adds
<1>8. FreeIn(D) \subseteq DOMAIN D /\ UsedIn(D) \subseteq DOMAIN D
      /\ FreeIn(s.block) \subseteq DOMAIN s.block /\ UsedIn(s.block) \subseteq DOMAIN s.block
  BY DEF FreeIn, UsedIn, Heads
<1>9. Null \notin FreeIn(D)
  BY <1>4, NullNoBlock
<1>10. Filing(t.block, t.mr, t.small, t.tree, X \cup FreeIn(D))
  <2>1. s.small \subseteq FreeIn(s.block) /\ s.tree \subseteq FreeIn(s.block) /\ (s.mr = Null \/ s.mr \in FreeIn(s.block))
    BY <1>1 DEF Filing
  <2>2. FreeIn(D) \cap FreeIn(s.block) = {}
    BY <1>7, <1>8
  <2>3. s.mr \notin FreeIn(D)
    BY <1>9, <2>1, <2>2
  <2>4. /\ \A m \in s.small : t.block[m].size < SmallSize
        /\ \A m \in s.tree : t.block[m].size >= SmallSize
    BY <1>1, <1>7, <1>8, <2>1 DEF Filing
  <2>5. FreeIn(t.block) = ({s.mr} \ {Null}) \cup s.small \cup s.tree \cup (X \cup FreeIn(D))
    BY <1>1, <1>6 DEF Filing
  <2>6. (X \cup FreeIn(D)) \cap (s.small \cup s.tree) = {} /\ s.mr \notin s.small \cup s.tree \cup (X \cup FreeIn(D))
    BY <1>1, <2>1, <2>2, <2>3 DEF Filing
  <2> QED
    BY <1>2, <2>4, <2>5, <2>6 DEF Filing
<1>11. Kept(t, X \cup FreeIn(D))
  BY <1>2, <1>3, <1>5, <1>10 DEF Kept
<1>12. UsedSame(s.block, t.block, UsedIn(D))
  BY <1>6, <1>7, <1>8 DEF UsedSame
<1> QED
  BY <1>5, <1>6, <1>11, <1>12

-----------------------------------------------------------------------------
\* Rounding up to a multiple.
LEMMA RoundUpTyped ==
  ASSUME NEW x \in Nat, NEW p \in Nat \ {0}
  PROVE  LET q == (x + p - 1) \div p
         IN q \in Nat /\ RoundUp(x, p) = q * p /\ x <= q * p /\ q * p < x + p
<1> DEFINE q == (x + p - 1) \div p
<1>1. x + p - 1 \in Nat
  OBVIOUS
<1>2. q \in Nat /\ p * q <= x + p - 1 /\ x + p - 1 < p * q + p
  BY <1>1
<1>3. p * q = q * p /\ q * p \in Nat
  BY <1>2
<1> HIDE DEF q
<1>4. x <= q * p /\ q * p < x + p
  BY <1>2, <1>3
<1> QED
  BY <1>2, <1>4 DEF RoundUp, q

\* The pages at a multiple of Page.
LEMMA PagesTyped ==
  ASSUME NEW k \in Nat, NEW q \in Nat
  PROVE  PagesAt(Start(k), q * Page) = k .. ((k + q) - 1) /\ Start(k + q) = Start(k) + q * Page
<1>1. Page \in Nat \ {0}
  BY SizesTyped
<1>2. k * Page \in Nat /\ q * Page \in Nat /\ (k + q) * Page = k * Page + q * Page
  BY <1>1
<1>3. (k * Page) \div Page = k
  BY <1>1
<1>4. RoundUp(q * Page, Page) = q * Page
  <2> DEFINE r == (q * Page + Page - 1) \div Page
  <2>1. r \in Nat /\ RoundUp(q * Page, Page) = r * Page /\ q * Page <= r * Page /\ r * Page < q * Page + Page
    BY <1>1, <1>2, RoundUpTyped
  <2> HIDE DEF r
  <2>2. q < r => q * Page + Page <= r * Page
    BY <1>1, <2>1
  <2>3. r < q => r * Page + Page <= q * Page
    BY <1>1, <2>1
  <2>4. r * Page \in Nat
    BY <1>1, <2>1
  <2>5. r = q
    BY <1>1, <1>2, <2>1, <2>2, <2>3, <2>4
  <2> QED
    BY <2>1, <2>5
<1>5. (k * Page + q * Page) \div Page = k + q
  <2>1. ((k + q) * Page) \div Page = k + q
    BY <1>1
  <2> QED
    BY <1>2, <2>1
<1>6. PagesAt(Start(k), q * Page) = k .. ((k + q) - 1)
  BY <1>3, <1>4, <1>5 DEF PagesAt, Start
<1>7. Start(k + q) = Start(k) + q * Page
  BY <1>2 DEF Start
<1> QED
  BY <1>6, <1>7

\* What the system gives: whole pages, free ones.
Room(s, sz, base, n, k, e) ==
  /\ k \in 1 .. PageCount /\ e \in (k + 1) .. (PageCount + 1)
  /\ base = Start(k) /\ Start(e) = base + n /\ PagesAt(base, n) = k .. (e - 1)
  /\ n \in Nat /\ n >= sz + 2 * Header
  /\ \A p \in k .. (e - 1) : p \notin s.mapped

\* Where the system finds room it gives whole pages that nobody has, with room for the headers.
LEMMA FreeBaseRoom ==
  ASSUME NEW s, NEW sz \in Nat \ {0}, NEW base \in FreeBases(s, RegionSize(sz))
  PROVE  \E k, e : Room(s, sz, base, RegionSize(sz), k, e)
<1>1. PICK k \in 1 .. PageCount : base = k * Page
  BY DEF FreeBases
<1>2. PagesAt(base, RegionSize(sz)) \subseteq (1 .. PageCount) \ s.mapped
  BY DEF FreeBases
<1>3. Page \in Nat \ {0} /\ Header \in Nat \ {0} /\ PageCount \in Nat
  BY SizesTyped
<1> DEFINE x == sz + 2 * Header
           q == (x + Page - 1) \div Page
           n == RegionSize(sz)
<1>4. x \in Nat /\ x > 0
  BY <1>3
<1> HIDE DEF x
<1>5. q \in Nat /\ RoundUp(x, Page) = q * Page /\ x <= q * Page
  BY <1>3, <1>4, RoundUpTyped
<1> HIDE DEF q
<1>6. n = q * Page
  BY <1>5 DEF RegionSize, x
<1>7. k \in Nat /\ base = Start(k)
  BY <1>1, <1>3 DEF Start
<1>8. PagesAt(base, n) = k .. ((k + q) - 1) /\ Start(k + q) = base + n
  BY <1>5, <1>6, <1>7, PagesTyped
<1> HIDE DEF n
<1>9. q # 0
  BY <1>3, <1>4, <1>5
<1>10. (k + q) - 1 \in 1 .. PageCount
  <2>1. (k + q) - 1 \in k .. ((k + q) - 1)
    BY <1>5, <1>7, <1>9
  <2> QED
    BY <1>2, <1>8, <2>1 DEF n
<1>11. k + q \in (k + 1) .. (PageCount + 1)
  BY <1>3, <1>5, <1>7, <1>9, <1>10
<1>12. n \in Nat /\ n >= sz + 2 * Header
  <2>1. q * Page \in Nat
    BY <1>3, <1>5
  <2> QED
    BY <1>5, <1>6, <2>1 DEF x
<1>13. \A p \in k .. ((k + q) - 1) : p \notin s.mapped
  BY <1>2, <1>8 DEF n
<1>14. Room(s, sz, base, n, k, k + q)
  <2> DEFINE e == k + q
  <2>1. /\ k \in 1 .. PageCount /\ e \in (k + 1) .. (PageCount + 1)
        /\ base = Start(k) /\ Start(e) = base + n
        /\ n \in Nat /\ n >= sz + 2 * Header
    BY <1>1, <1>7, <1>8, <1>11, <1>12
  <2>2. PagesAt(base, n) = k .. (e - 1) /\ \A p \in k .. (e - 1) : p \notin s.mapped
    BY <1>8, <1>13
  <2> HIDE DEF e
  <2>3. Room(s, sz, base, n, k, e)
    BY <2>1, <2>2 DEF Room
  <2> QED
    BY <2>3 DEF e
<1> QED
  BY <1>14 DEF n

-----------------------------------------------------------------------------
\* A region that is one used block of size z, and one with a free block of size z behind it.
WholeRegion(b, z) ==
  [m \in {b, b + Header + z} |->
     IF m = b THEN [prev |-> Null, size |-> z, used |-> TRUE] ELSE [prev |-> b, size |-> 0, used |-> TRUE]]
CutRegion(b, sz, z) ==
  [m \in {b, b + Header + sz, b + Header + sz + Header + z} |->
     IF m = b THEN [prev |-> Null, size |-> sz, used |-> TRUE]
     ELSE IF m = b + Header + sz THEN [prev |-> b, size |-> z, used |-> FALSE]
     ELSE [prev |-> b + Header + sz, size |-> 0, used |-> TRUE]]

\* Such a region is one.
LEMMA WholeOwn ==
  ASSUME NEW k \in 1 .. PageCount, NEW e \in (k + 1) .. (PageCount + 1), NEW z \in Nat \ {0},
         Start(e) = Start(k) + z + 2 * Header
  PROVE  LET D == WholeRegion(Start(k), z)
         IN /\ OwnRegion(D, k, e, Start(k) + Header + z)
            /\ FreeIn(D) = {} /\ UsedIn(D) = {Start(k)} /\ D[Start(k)].size = z
<1> DEFINE b == Start(k)
           l == b + Header + z
           D == WholeRegion(b, z)
<1>1. Header \in Nat \ {0} /\ FreeSize \in Nat \ {0} /\ PageCount \in Nat /\ Page \in Nat \ {0}
  BY SizesTyped
<1>2. b \in Nat /\ Page <= b /\ Start(e) <= Start(PageCount + 1) /\ Start(PageCount + 1) \in Nat
  <2>1. k \in Nat /\ e \in Nat /\ 1 <= k /\ e <= PageCount + 1 /\ PageCount + 1 \in Nat
    BY <1>1
  <2>2. Start(1) = Page
    BY <1>1 DEF Start
  <2>3. Start(1) <= Start(k) /\ Start(k) \in Nat
    BY <2>1, Starts
  <2>4. Start(e) <= Start(PageCount + 1) /\ Start(PageCount + 1) \in Nat
    BY <2>1, Starts
  <2> QED
    BY <2>2, <2>3, <2>4
<1>a. Start(e) = b + z + 2 * Header
  OBVIOUS
<1>3. DOMAIN D = {b, l} /\ l # b /\ b < l /\ l \in Nat
  BY <1>1, <1>2 DEF WholeRegion
<1>4. D[b] = [prev |-> Null, size |-> z, used |-> TRUE] /\ D[l] = [prev |-> b, size |-> 0, used |-> TRUE]
  BY <1>3 DEF WholeRegion
<1> HIDE DEF D
<1>5. /\ D[b].prev = Null /\ D[b].size = z /\ D[b].used
      /\ D[l].prev = b /\ D[l].size = 0 /\ D[l].used
  BY <1>4
<1>6. Heads(D) = {b} /\ TailsOf(D) = {l}
  BY <1>3, <1>5 DEF Heads, TailsOf
<1>7. FreeIn(D) = {} /\ UsedIn(D) = {b} /\ FirstsOf(D) = {b}
  BY <1>5, <1>6 DEF FreeIn, UsedIn, FirstsOf
<1>8. After(D, b) = l /\ After(D, l) = l + Header
  BY <1>1, <1>3, <1>5 DEF After
<1>9. b \in Addresses /\ l \in Addresses
  BY <1>1, <1>2, <1>3, <1>a DEF Addresses
<1>10. D[b] \in Block /\ D[l] \in Block
  BY <1>4, <1>9 DEF Block
<1>11. Linked(D)
  <2>1. \A m \in DOMAIN D : \A n \in DOMAIN D : m < n => After(D, m) <= n
    BY <1>3, <1>2, <1>8
  <2> QED
    BY <1>3, <1>5, <1>6, <1>8, <1>9, <1>10, <2>1 DEF Linked
<1>12. Tagged(D) /\ Apart(D, {})
  BY <1>5, <1>6, <1>7 DEF Tagged, Apart
<1>13. Start(e) <= l + Header + FreeSize /\ l + Header <= Start(e)
  BY <1>1, <1>2, <1>a
<1>14. \A m \in DOMAIN D : b <= m /\ m <= l
  BY <1>2, <1>3
<1>15. OwnRegion(D, k, e, l)
  BY <1>6, <1>7, <1>11, <1>12, <1>13, <1>14 DEF OwnRegion
<1> QED
  BY <1>5, <1>7, <1>15 DEF D

\* A new region cut in a used block, a free one and a tail is a region of its own.
LEMMA CutOwn ==
  ASSUME NEW k \in 1 .. PageCount, NEW e \in (k + 1) .. (PageCount + 1), NEW sz \in Nat \ {0},
         NEW z \in Nat \ {0}, Start(e) = Start(k) + sz + z + 3 * Header + FreeSize
  PROVE  LET D == CutRegion(Start(k), sz, z)
             rest == Start(k) + Header + sz
         IN /\ OwnRegion(D, k, e, rest + Header + z)
            /\ FreeIn(D) = {rest} /\ UsedIn(D) = {Start(k)} /\ D[Start(k)].size = sz
<1> DEFINE b == Start(k)
           r == b + Header + sz
           l == r + Header + z
           D == CutRegion(b, sz, z)
<1>1. Header \in Nat \ {0} /\ FreeSize \in Nat \ {0} /\ PageCount \in Nat /\ Page \in Nat \ {0}
  BY SizesTyped
<1>2. b \in Nat /\ Page <= b /\ Start(e) <= Start(PageCount + 1) /\ Start(PageCount + 1) \in Nat
  <2>1. k \in Nat /\ e \in Nat /\ 1 <= k /\ e <= PageCount + 1 /\ PageCount + 1 \in Nat
    BY <1>1
  <2>2. Start(1) = Page
    BY <1>1 DEF Start
  <2>3. Start(1) <= Start(k) /\ Start(k) \in Nat
    BY <2>1, Starts
  <2>4. Start(e) <= Start(PageCount + 1) /\ Start(PageCount + 1) \in Nat
    BY <2>1, Starts
  <2> QED
    BY <2>2, <2>3, <2>4
<1>a. Start(e) = b + sz + z + 3 * Header + FreeSize
  OBVIOUS
<1>3. r \in Nat /\ l \in Nat /\ b < r /\ r < l /\ b # r /\ r # l /\ b # l
  BY <1>1, <1>2
<1>b. DOMAIN D = {b, r, l}
  BY DEF CutRegion
<1>4. D[b] = [prev |-> Null, size |-> sz, used |-> TRUE] /\ D[r] = [prev |-> b, size |-> z, used |-> FALSE]
      /\ D[l] = [prev |-> r, size |-> 0, used |-> TRUE]
  BY <1>3 DEF CutRegion
<1> HIDE DEF D
<1>5. /\ D[b].prev = Null /\ D[b].size = sz /\ D[b].used
      /\ D[r].prev = b /\ D[r].size = z /\ ~D[r].used
      /\ D[l].prev = r /\ D[l].size = 0 /\ D[l].used
  BY <1>4
<1>8. After(D, b) = r /\ After(D, r) = l /\ After(D, l) = l + Header
  BY <1>1, <1>3, <1>5 DEF After
<1>c. Start(e) = l + Header + FreeSize
  BY <1>1, <1>2, <1>a
<1>9. b \in Addresses /\ r \in Addresses /\ l \in Addresses
  BY <1>1, <1>2, <1>3, <1>c DEF Addresses
<1>d. b # Null /\ Null \in Nat
  BY <1>1, <1>2 DEF Null
<1> HIDE DEF r, l, b
<1>6. Heads(D) = {b, r} /\ TailsOf(D) = {l}
  BY <1>b, <1>3, <1>5 DEF Heads, TailsOf
<1>7. FreeIn(D) = {r} /\ UsedIn(D) = {b} /\ FirstsOf(D) = {b}
  BY <1>5, <1>6, <1>d DEF FreeIn, UsedIn, FirstsOf
<1>10. D[b] \in Block /\ D[l] \in Block /\ D[r] \in Block
  BY <1>4, <1>9 DEF Block
<1>11. Linked(D)
  <2>1. \A m \in DOMAIN D : \A n \in DOMAIN D : m < n => After(D, m) <= n
    BY <1>b, <1>3, <1>2, <1>8
  <2>2. \A m \in Heads(D) : After(D, m) \in DOMAIN D /\ (After(D, m) \in Heads(D) => D[After(D, m)].prev # Null)
    BY <1>b, <1>3, <1>5, <1>6, <1>8, <1>d
  <2>3. \A m \in TailsOf(D) : D[m].used
    BY <1>5, <1>6
  <2>4. DOMAIN D \subseteq Addresses /\ \A m \in DOMAIN D : D[m] \in Block
    BY <1>b, <1>9, <1>10
  <2> QED
    BY <2>1, <2>2, <2>3, <2>4 DEF Linked
<1>12. Tagged(D) /\ Apart(D, {})
  BY <1>3, <1>5, <1>6, <1>7, <1>8 DEF Tagged, Apart
<1>13. Start(e) <= l + Header + FreeSize /\ l + Header <= Start(e)
  BY <1>1, <1>3, <1>c
<1>14. \A m \in DOMAIN D : b <= m /\ m <= l
  BY <1>2, <1>3, <1>b
<1>15. OwnRegion(D, k, e, l)
  BY <1>6, <1>7, <1>11, <1>12, <1>13, <1>14 DEF OwnRegion, b
<1> QED
  BY <1>5, <1>7, <1>15 DEF D, r, l, b

-----------------------------------------------------------------------------
\* g is f but for v at k.
Puts(f, g, k, v) ==
  /\ DOMAIN g = DOMAIN f \cup {k} /\ g[k] = v
  /\ \A i \in DOMAIN f : i # k => g[i] = f[i]
  /\ g = [i \in DOMAIN g |-> g[i]]

\* With puts one block.
LEMMA WithTyped ==
  ASSUME NEW f, NEW k, NEW v
  PROVE  Puts(f, With(f, k, v), k, v)
  BY DEF With, Puts

\* A region in free pages has no header of the pool.
LEMMA AddsFresh ==
  ASSUME NEW s, NEW X, Kept(s, X), NEW k, NEW e, NEW l, NEW D, OwnRegion(D, k, e, l),
         \A p \in k .. (e - 1) : p \notin s.mapped
  PROVE  DOMAIN s.block \cap DOMAIN D = {}
<1>1. Linked(s.block) /\ Regioned(s.block, s.mapped)
  BY DEF Kept
<1>2. /\ k \in 1 .. PageCount /\ e \in (k + 1) .. (PageCount + 1) /\ Linked(D) /\ l \in DOMAIN D
      /\ l + Header <= Start(e) /\ \A m \in DOMAIN D : Start(k) <= m /\ m <= l
  BY DEF OwnRegion, TailsOf
<1>3. \A m \in DOMAIN s.block : (m < Start(k) /\ After(s.block, m) <= Start(k)) \/ Start(e) <= m
  BY <1>1, <1>2, RegionApart
<1>4. Header \in Nat \ {0} /\ PageCount \in Nat
  BY SizesTyped
<1>5. k \in Nat /\ e \in Nat /\ Start(k) \in Nat /\ Start(e) \in Nat
  <2>1. k \in Nat /\ e \in Nat
    BY <1>2, <1>4
  <2> QED
    BY <2>1, Starts
<1>6. (\A m \in DOMAIN D : m \in Nat) /\ (\A m \in DOMAIN s.block : m \in Nat) /\ l \in Nat
  BY <1>1, <1>2, BlockTyped
<1> SUFFICES ASSUME NEW m \in DOMAIN s.block, m \in DOMAIN D PROVE FALSE
  OBVIOUS
<1>7. Start(k) <= m /\ m <= l /\ (m < Start(k) \/ Start(e) <= m) /\ m \in Nat
  BY <1>2, <1>3, <1>6
<1> QED
  BY <1>2, <1>4, <1>5, <1>6, <1>7

\* The pool with the block function C and the new pages.
Grows(s, n, base, C) == [[s EXCEPT !.mapped = @ \cup PagesAt(base, n)] EXCEPT !.block = C]

\* Growing changes the blocks and the pages, and nothing else.
LEMMA GrowsTyped ==
  ASSUME NEW s, IsPool(s), NEW n, NEW base, NEW C, C = [m \in DOMAIN C |-> C[m]]
  PROVE  LET t == Grows(s, n, base, C)
         IN /\ IsPool(t) /\ t.block = C /\ t.cached = s.cached /\ t.mr = s.mr /\ t.small = s.small
            /\ t.tree = s.tree /\ t.mapped = s.mapped \cup PagesAt(base, n)
<1> DEFINE u == [s EXCEPT !.mapped = @ \cup PagesAt(base, n)]
<1>1. /\ u = [block |-> u.block, cached |-> u.cached, mr |-> u.mr, small |-> u.small,
               tree |-> u.tree, mapped |-> u.mapped]
      /\ u.cached = s.cached /\ u.mr = s.mr /\ u.small = s.small /\ u.tree = s.tree
      /\ u.mapped = s.mapped \cup PagesAt(base, n)
  BY DEF IsPool
<1> HIDE DEF u
<1> DEFINE t == [u EXCEPT !.block = C]
<1>2. /\ t = [block |-> t.block, cached |-> t.cached, mr |-> t.mr, small |-> t.small,
               tree |-> t.tree, mapped |-> t.mapped]
      /\ t.block = C /\ t.cached = u.cached /\ t.mr = u.mr /\ t.small = u.small /\ t.tree = u.tree
      /\ t.mapped = u.mapped
  BY <1>1
<1>3. Grows(s, n, base, C) = t
  BY Zenon DEF Grows, u
<1> HIDE DEF t
<1>4. t.block = [m \in DOMAIN t.block |-> t.block[m]]
  BY <1>2, Zenon
<1> QED
  BY <1>1, <1>2, <1>3, <1>4 DEF IsPool

\* A pool with a new region, of which the first block is handed out and the rest, if there is
\* one, has found a place.
LEMMA NewRegionAllocates ==
  ASSUME NEW s, Kept(s, Loose(s)), Tagged(s.block), Apart(s.block, {}), NEW sz \in Nat \ {0},
         NEW base \in FreeBases(s, RegionSize(sz))
  PROVE  Allocated(s, NewRegion(s, sz, base), base, sz)
<1> DEFINE n == RegionSize(sz)
           rest == RestOf(base, sz)
           left == n - sz - 3 * Header - FreeSize
           t == [s EXCEPT !.mapped = @ \cup PagesAt(base, n)]
           block(prev, size, used) == [prev |-> prev, size |-> size, used |-> used]
           C3 == With(With(With(s.block, base, block(Null, sz, TRUE)), rest, block(base, left, FALSE)),
                      rest + Header + left, block(rest, 0, TRUE))
           C2 == With(With(s.block, base, block(Null, n - 2 * Header, TRUE)),
                      base + n - Header, block(base, 0, TRUE))
<1>1. PICK k, e : Room(s, sz, base, n, k, e)
  BY FreeBaseRoom
<1>2. /\ k \in 1 .. PageCount /\ e \in (k + 1) .. (PageCount + 1)
      /\ base = Start(k) /\ Start(e) = base + n /\ PagesAt(base, n) = k .. (e - 1)
      /\ n \in Nat /\ n >= sz + 2 * Header
      /\ \A p \in k .. (e - 1) : p \notin s.mapped
  BY <1>1 DEF Room
<1>3. Header \in Nat \ {0} /\ FreeSize \in Nat \ {0} /\ PageCount \in Nat
  BY SizesTyped
<1>4. base \in Nat
  BY <1>2, <1>3, Starts
<1>5. IsPool(s)
  BY DEF Kept
<1>6. t.block = s.block
  BY <1>5 DEF IsPool
<1>7. CASE left > 0
  <2> DEFINE D == CutRegion(base, sz, left)
             u == Grows(s, n, base, C3)
  <2>1. NewRegion(s, sz, base) = AddSplit(u, rest)
    <3>1. NewRegion(s, sz, base) = AddSplit([t EXCEPT !.block =
             With(With(With(@, base, block(Null, sz, TRUE)), rest, block(base, left, FALSE)),
                  rest + Header + left, block(rest, 0, TRUE))], rest)
      BY <1>7, Zenon DEF NewRegion
    <3> HIDE DEF left, n, rest
    <3> QED
      BY <1>6, <3>1, Zenon DEF Grows
  <2>2. rest = base + Header + sz
    BY DEF RestOf
  <2> HIDE DEF n, rest
  <2>3. left \in Nat \ {0} /\ Start(e) = Start(k) + sz + left + 3 * Header + FreeSize
    <3>1. n \in Nat /\ left = n - sz - 3 * Header - FreeSize /\ left > 0
      BY <1>2, <1>7
    <3>2. left \in Nat \ {0} /\ base + n = base + sz + left + 3 * Header + FreeSize
      <4> HIDE DEF left
      <4> QED
        BY <1>3, <1>4, <3>1
    <3> QED
      BY <1>2, <3>2
  <2> HIDE DEF left, D
  <2>4. /\ OwnRegion(D, k, e, rest + Header + left)
        /\ FreeIn(D) = {rest} /\ UsedIn(D) = {base} /\ D[base].size = sz
    BY <1>2, <2>2, <2>3, CutOwn DEF D
  <2>5. DOMAIN s.block \cap DOMAIN D = {}
    BY <1>2, <2>4, AddsFresh
  <2>6. DOMAIN D = {base, rest, rest + Header + left} /\ base # rest /\ rest # rest + Header + left
        /\ base # rest + Header + left
    <3>1. DOMAIN D = {base, rest, rest + Header + left}
      BY <2>2 DEF D, CutRegion
    <3> QED
      BY <1>3, <1>4, <2>2, <2>3, <3>1
  <2>7. D[base] = block(Null, sz, TRUE) /\ D[rest] = block(base, left, FALSE)
        /\ D[rest + Header + left] = block(rest, 0, TRUE)
    BY <2>2, <2>6 DEF D, CutRegion
  <2> HIDE DEF block
  <2>8. /\ DOMAIN C3 = DOMAIN s.block \cup DOMAIN D
        /\ C3[base] = block(Null, sz, TRUE) /\ C3[rest] = block(base, left, FALSE)
        /\ C3[rest + Header + left] = block(rest, 0, TRUE)
        /\ \A m \in DOMAIN s.block : C3[m] = s.block[m]
        /\ C3 = [m \in DOMAIN C3 |-> C3[m]]
    <3> DEFINE f == With(s.block, base, block(Null, sz, TRUE))
               g == With(f, rest, block(base, left, FALSE))
    <3>1. /\ DOMAIN f = DOMAIN s.block \cup {base} /\ f[base] = block(Null, sz, TRUE)
          /\ \A i \in DOMAIN s.block : i # base => f[i] = s.block[i]
      <4>1. Puts(s.block, f, base, block(Null, sz, TRUE))
        BY WithTyped, Zenon
      <4> HIDE DEF f
      <4> QED
        BY <4>1 DEF Puts
    <3> HIDE DEF f
    <3>2. /\ DOMAIN g = DOMAIN f \cup {rest} /\ g[rest] = block(base, left, FALSE)
          /\ \A i \in DOMAIN f : i # rest => g[i] = f[i]
      <4>1. Puts(f, g, rest, block(base, left, FALSE))
        BY WithTyped, Zenon
      <4> HIDE DEF g
      <4> QED
        BY <4>1 DEF Puts
    <3> HIDE DEF g
    <3>3. C3 = With(g, rest + Header + left, block(rest, 0, TRUE))
      BY DEF f, g
    <3> HIDE DEF C3
    <3>4. /\ DOMAIN C3 = DOMAIN g \cup {rest + Header + left}
          /\ C3[rest + Header + left] = block(rest, 0, TRUE)
          /\ \A i \in DOMAIN g : i # rest + Header + left => C3[i] = g[i]
          /\ C3 = [m \in DOMAIN C3 |-> C3[m]]
      <4>1. Puts(g, C3, rest + Header + left, block(rest, 0, TRUE))
        BY <3>3, WithTyped, Zenon
      <4> QED
        BY <4>1 DEF Puts
    <3>5. base \notin DOMAIN s.block /\ rest \notin DOMAIN s.block /\ rest + Header + left \notin DOMAIN s.block
      BY <2>5, <2>6
    <3> QED
      BY <2>6, <3>1, <3>2, <3>4, <3>5
  <2> HIDE DEF C3, u
  <2>9. Adds(s.block, D, C3)
    BY <2>5, <2>6, <2>7, <2>8 DEF Adds
  <2>10. /\ IsPool(u) /\ u.block = C3 /\ u.cached = s.cached /\ u.mr = s.mr /\ u.small = s.small
         /\ u.tree = s.tree /\ u.mapped = s.mapped \cup PagesAt(base, n)
    BY <1>5, <2>8, GrowsTyped DEF u
  <2>11. WithRegion(s, u, D, k, e)
    BY <1>2, <2>9, <2>10 DEF WithRegion
  <2>12. /\ Kept(u, Loose(s) \cup FreeIn(D))
         /\ Tagged(s.block) => Tagged(u.block)
         /\ Apart(s.block, {}) => Apart(u.block, {})
         /\ UsedIn(u.block) = UsedIn(s.block) \cup UsedIn(D)
         /\ UsedSame(s.block, u.block, UsedIn(D))
    BY <1>2, <2>4, <2>11, KeptRegion
  <2>13. Loose(u) = Loose(s) /\ rest \notin Loose(u)
    <3>1. Loose(s) \subseteq DOMAIN s.block
      BY KeptBlocks DEF FreeIn, Heads
    <3> QED
      BY <2>5, <2>6, <2>10, <3>1 DEF Loose
  <2>14. Kept(u, Loose(u) \cup {rest}) /\ Tagged(u.block) /\ Apart(u.block, {})
    BY <2>4, <2>12, <2>13
  <2>15. Settled(u, AddSplit(u, rest))
    BY <2>13, <2>14, AddSplitSettles
  <2> DEFINE v == AddSplit(u, rest)
  <2> HIDE DEF v
  <2>16. base \in UsedIn(u.block) /\ u.block[base].size = sz /\ base \notin UsedIn(s.block) /\ base # Null
    <3>1. u.block[base].size = sz
      BY <2>4, <2>6, <2>9, <2>10 DEF Adds
    <3>2. base \in UsedIn(u.block) /\ base \notin UsedIn(s.block)
      BY <2>4, <2>5, <2>6, <2>12 DEF UsedIn, Heads
    <3>3. base # Null
      BY <2>14, <3>2, KeptBlocks DEF UsedIn, Heads
    <3> QED
      BY <3>1, <3>2, <3>3
  <2>17. v.block[base].size >= sz
    <3>1. v.block[base].size = u.block[base].size
      BY <2>15, <2>16 DEF Settled, UsedSame, v
    <3> QED
      BY <2>16, <3>1
  <2>18. UsedSame(s.block, v.block, {base})
    <3>1. ASSUME NEW m, m # base
          PROVE  /\ m \in UsedIn(v.block) <=> m \in UsedIn(s.block)
                 /\ m \in UsedIn(s.block) => v.block[m].size = s.block[m].size
      <4>1. (m \in UsedIn(u.block) <=> m \in UsedIn(s.block)) /\ (m \in UsedIn(s.block) => u.block[m].size = s.block[m].size)
        BY <2>4, <2>12, <3>1 DEF UsedSame
      <4>2. (m \in UsedIn(v.block) <=> m \in UsedIn(u.block)) /\ (m \in UsedIn(u.block) => v.block[m].size = u.block[m].size)
        BY <2>15 DEF Settled, UsedSame, v
      <4> QED
        BY <4>1, <4>2
    <3> QED
      BY <3>1 DEF UsedSame
  <2>19. Allocated(s, v, base, sz)
    <3>1. UsedIn(v.block) = UsedIn(s.block) \cup {base}
      BY <2>4, <2>12, <2>15 DEF Settled, v
    <3> QED
      BY <2>15, <2>16, <2>17, <2>18, <3>1 DEF Allocated, Settled, v
  <2> QED
    BY <2>1, <2>19 DEF v
<1>8. CASE ~(left > 0)
  <2> DEFINE z == n - 2 * Header
             D == WholeRegion(base, z)
             u == Grows(s, n, base, C2)
  <2>1. NewRegion(s, sz, base) = u
    <3>1. NewRegion(s, sz, base) = [t EXCEPT !.block =
             With(With(@, base, block(Null, n - 2 * Header, TRUE)), base + n - Header, block(base, 0, TRUE))]
      BY <1>8, Zenon DEF NewRegion
    <3> HIDE DEF n
    <3> QED
      BY <1>6, <3>1, Zenon DEF Grows
  <2> HIDE DEF n, rest, left
  <2>2. z \in Nat \ {0} /\ Start(e) = Start(k) + z + 2 * Header /\ z >= sz
    BY <1>2, <1>3, <1>4
  <2>3. base + Header + z = base + n - Header
    BY <1>2, <1>3, <1>4
  <2> DEFINE l == base + n - Header
  <2> HIDE DEF z, D, l
  <2>4. OwnRegion(D, k, e, l) /\ FreeIn(D) = {} /\ UsedIn(D) = {base} /\ D[base].size = z
    BY <1>2, <2>2, <2>3, WholeOwn DEF D, l
  <2>5. DOMAIN s.block \cap DOMAIN D = {}
    BY <1>2, <2>4, AddsFresh
  <2>6. DOMAIN D = {base, l} /\ base # l
    <3>1. DOMAIN D = {base, l}
      BY <2>3 DEF D, WholeRegion, l
    <3> QED
      BY <1>3, <1>4, <2>2, <2>3, <3>1 DEF l
  <2>7. D[base] = block(Null, z, TRUE) /\ D[l] = block(base, 0, TRUE)
    BY <2>3, <2>6 DEF D, WholeRegion, l
  <2> HIDE DEF block
  <2>8. /\ DOMAIN C2 = DOMAIN s.block \cup DOMAIN D
        /\ C2[base] = block(Null, z, TRUE) /\ C2[l] = block(base, 0, TRUE)
        /\ \A m \in DOMAIN s.block : C2[m] = s.block[m]
        /\ C2 = [m \in DOMAIN C2 |-> C2[m]]
    <3> DEFINE f == With(s.block, base, block(Null, z, TRUE))
    <3>1. /\ DOMAIN f = DOMAIN s.block \cup {base} /\ f[base] = block(Null, z, TRUE)
          /\ \A i \in DOMAIN s.block : i # base => f[i] = s.block[i]
      <4>1. Puts(s.block, f, base, block(Null, z, TRUE))
        BY WithTyped, Zenon
      <4> HIDE DEF f
      <4> QED
        BY <4>1 DEF Puts
    <3> HIDE DEF f
    <3>3. C2 = With(f, l, block(base, 0, TRUE))
      BY DEF f, l, z
    <3> HIDE DEF C2
    <3>4. /\ DOMAIN C2 = DOMAIN f \cup {l}
          /\ C2[l] = block(base, 0, TRUE)
          /\ \A i \in DOMAIN f : i # l => C2[i] = f[i]
          /\ C2 = [m \in DOMAIN C2 |-> C2[m]]
      <4>1. Puts(f, C2, l, block(base, 0, TRUE))
        BY <3>3, WithTyped, Zenon
      <4> QED
        BY <4>1 DEF Puts
    <3>5. base \notin DOMAIN s.block /\ l \notin DOMAIN s.block
      BY <2>5, <2>6
    <3> QED
      BY <2>6, <3>1, <3>4, <3>5
  <2> HIDE DEF C2, u
  <2>9. Adds(s.block, D, C2)
    BY <2>5, <2>6, <2>7, <2>8 DEF Adds
  <2>10. /\ IsPool(u) /\ u.block = C2 /\ u.cached = s.cached /\ u.mr = s.mr /\ u.small = s.small
         /\ u.tree = s.tree /\ u.mapped = s.mapped \cup PagesAt(base, n)
    BY <1>5, <2>8, GrowsTyped DEF u
  <2>11. WithRegion(s, u, D, k, e)
    BY <1>2, <2>9, <2>10 DEF WithRegion
  <2>12. /\ Kept(u, Loose(s) \cup FreeIn(D))
         /\ Tagged(s.block) => Tagged(u.block)
         /\ Apart(s.block, {}) => Apart(u.block, {})
         /\ UsedIn(u.block) = UsedIn(s.block) \cup UsedIn(D)
         /\ UsedSame(s.block, u.block, UsedIn(D))
    BY <1>2, <2>4, <2>11, KeptRegion
  <2>13. Kept(u, Loose(u)) /\ Tagged(u.block) /\ Apart(u.block, {})
    BY <2>4, <2>10, <2>12 DEF Loose
  <2>14. base \in UsedIn(u.block) /\ u.block[base].size = z /\ base \notin UsedIn(s.block) /\ base # Null
    <3>1. u.block[base].size = z
      BY <2>4, <2>6, <2>9, <2>10 DEF Adds
    <3>2. base \in UsedIn(u.block) /\ base \notin UsedIn(s.block)
      BY <2>4, <2>5, <2>6, <2>12 DEF UsedIn, Heads
    <3>3. base # Null
      BY <2>13, <3>2, KeptBlocks DEF UsedIn, Heads
    <3> QED
      BY <3>1, <3>2, <3>3
  <2>15. Allocated(s, u, base, sz)
    BY <2>2, <2>4, <2>12, <2>13, <2>14 DEF Allocated
  <2> QED
    BY <2>1, <2>15
<1> QED
  BY <1>7, <1>8

-----------------------------------------------------------------------------
(***************************************************************************)
(* Regions go back.                                                        *)
(***************************************************************************)
RegionOf(B, k, e, t) == Region(FirstsOf(B), TailsOf(B), k, e, t)

\* What a region of linked blocks is.
LEMMA RegionTyped ==
  ASSUME NEW B, Linked(B), NEW k, NEW e, NEW t, RegionOf(B, k, e, t)
  PROVE  /\ k \in Nat /\ e \in Nat /\ k < e /\ Start(k) \in Nat /\ Start(e) \in Nat /\ t \in Nat
         /\ Start(k) \in FirstsOf(B) /\ Start(k) \in Heads(B) /\ Start(k) \in DOMAIN B /\ Start(k) < t
         /\ t \in TailsOf(B) /\ t \in DOMAIN B /\ t \notin Heads(B) /\ After(B, t) = t + Header
         /\ Start(e) <= t + Header + FreeSize /\ t + Header <= Start(e)
         /\ \A x \in FirstsOf(B) \cup TailsOf(B) : ~(Start(k) < x /\ x < t)
<1>1. /\ k \in 1 .. PageCount /\ e \in (k + 1) .. (PageCount + 1)
      /\ Start(k) \in FirstsOf(B) /\ t \in TailsOf(B) /\ Start(k) < t
      /\ Start(e) <= t + Header + FreeSize /\ t + Header <= Start(e)
      /\ \A x \in FirstsOf(B) \cup TailsOf(B) : ~(Start(k) < x /\ x < t)
  BY DEF RegionOf, Region
<1>2. k \in Nat /\ e \in Nat /\ k < e
  BY <1>1, SizesTyped
<1>3. Start(k) \in Nat /\ Start(e) \in Nat
  BY <1>2, Starts
<1>4. Start(k) \in Heads(B) /\ Start(k) \in DOMAIN B
  BY <1>1 DEF FirstsOf, Heads
<1>5. t \in DOMAIN B /\ t \notin Heads(B) /\ B[t].size = 0
  BY <1>1 DEF TailsOf, Heads
<1>6. t \in Nat
  BY <1>5, BlockTyped
<1>7. After(B, t) = t + Header
  BY <1>5, <1>6, SizesTyped DEF After
<1> QED
  BY <1>1, <1>2, <1>3, <1>4, <1>5, <1>6, <1>7

\* The first block of a region says what the region is.
LEMMA RegionUnique ==
  ASSUME NEW B, Linked(B), NEW k, NEW e, NEW t, RegionOf(B, k, e, t),
         NEW e2, NEW t2, RegionOf(B, k, e2, t2)
  PROVE  e = e2 /\ t = t2
<1>1. /\ k \in Nat /\ e \in Nat /\ Start(k) \in Nat /\ Start(e) \in Nat /\ t \in Nat
      /\ Start(k) < t /\ t \in TailsOf(B)
      /\ Start(e) <= t + Header + FreeSize /\ t + Header <= Start(e)
      /\ \A x \in FirstsOf(B) \cup TailsOf(B) : ~(Start(k) < x /\ x < t)
  BY RegionTyped
<1>2. /\ e2 \in Nat /\ Start(e2) \in Nat /\ t2 \in Nat /\ Start(k) < t2 /\ t2 \in TailsOf(B)
      /\ Start(e2) <= t2 + Header + FreeSize /\ t2 + Header <= Start(e2)
      /\ \A x \in FirstsOf(B) \cup TailsOf(B) : ~(Start(k) < x /\ x < t2)
  BY RegionTyped
<1>3. t = t2
  <2>1. ~(t < t2) /\ ~(t2 < t)
    BY <1>1, <1>2
  <2> QED
    BY <1>1, <1>2, <2>1
<1>4. e = e2
  <2>1. Header \in Nat /\ FreeSize \in Nat /\ Page \in Nat /\ FreeSize < Page
    BY SizesTyped
  <2>2. Start(e) < Start(e2) + Page /\ Start(e2) < Start(e) + Page
    BY <1>1, <1>2, <1>3, <2>1
  <2>3. (e < e2 => Start(e) + Page <= Start(e2)) /\ (e2 < e => Start(e2) + Page <= Start(e))
    BY <1>1, <1>2, Starts
  <2> QED
    BY <1>1, <1>2, <2>1, <2>2, <2>3
<1> QED
  BY <1>3, <1>4

\* Regions come one after another.
LEMMA RegionsDisjoint ==
  ASSUME NEW B, Linked(B), NEW k, NEW e, NEW t, RegionOf(B, k, e, t),
         NEW k2, NEW e2, NEW t2, RegionOf(B, k2, e2, t2), k < k2
  PROVE  t < Start(k2) /\ e <= k2
<1>1. /\ k \in Nat /\ e \in Nat /\ k < e /\ Start(k) \in Nat /\ Start(e) \in Nat /\ t \in Nat
      /\ t \in TailsOf(B) /\ t \in DOMAIN B /\ t \notin Heads(B) /\ After(B, t) = t + Header
      /\ Start(e) <= t + Header + FreeSize /\ t + Header <= Start(e)
      /\ \A x \in FirstsOf(B) \cup TailsOf(B) : ~(Start(k) < x /\ x < t)
  BY RegionTyped
<1>2. /\ k2 \in Nat /\ Start(k2) \in Nat
      /\ Start(k2) \in FirstsOf(B) /\ Start(k2) \in Heads(B) /\ Start(k2) \in DOMAIN B
  BY RegionTyped
<1>3. Header \in Nat /\ FreeSize \in Nat /\ Page \in Nat \ {0} /\ FreeSize < Page
  BY SizesTyped
<1>4. Start(k) < Start(k2)
  <2>1. k < k2 => Start(k) + Page <= Start(k2)
    BY <1>1, <1>2, Starts
  <2> QED
    BY <1>1, <1>2, <1>3, <2>1
<1>5. t < Start(k2)
  <2>1. ~(Start(k2) < t) /\ t # Start(k2)
    BY <1>1, <1>2, <1>4
  <2> QED
    BY <1>1, <1>2, <2>1
<1>6. t + Header <= Start(k2)
  BY <1>1, <1>2, <1>5 DEF Linked
<1>7. Start(e) < Start(k2) + Page
  BY <1>1, <1>2, <1>3, <1>6
<1>8. k2 < e => Start(k2) + Page <= Start(e)
  BY <1>1, <1>2, Starts
<1> QED
  BY <1>1, <1>2, <1>3, <1>5, <1>7, <1>8

\* A first block begins a region.
LEMMA FirstRegion ==
  ASSUME NEW B, NEW mapped, Linked(B), Regioned(B, mapped), NEW m \in FirstsOf(B)
  PROVE  \E k, e, t : RegionOf(B, k, e, t) /\ Start(k) = m
<1>1. m \in DOMAIN B /\ m \notin TailsOf(B)
  BY DEF FirstsOf, Heads, TailsOf
<1>2. PICK k, e, t : RegionOf(B, k, e, t) /\ Start(k) <= m /\ m <= t
  BY <1>1 DEF Regioned, RegionedBy, RegionOf
<1>3. Start(k) \in Nat /\ t \in Nat /\ t \in TailsOf(B)
      /\ \A x \in FirstsOf(B) \cup TailsOf(B) : ~(Start(k) < x /\ x < t)
  BY <1>2, RegionTyped
<1>4. m \in Nat
  BY <1>1, BlockTyped
<1>5. m # t
  BY <1>1, <1>3
<1>6. ~(Start(k) < m /\ m < t)
  BY <1>3
<1>7. Start(k) = m
  BY <1>2, <1>3, <1>4, <1>5, <1>6
<1> QED
  BY <1>2, <1>7

\* Whole pages that n bytes from a page on need.
LEMMA PagesWithin ==
  ASSUME NEW k \in Nat, NEW e \in Nat, k < e, NEW z \in Nat, Start(k) + z <= Start(e),
         Start(e) < Start(k) + z + Page
  PROVE  PagesAt(Start(k), z) = k .. (e - 1)
<1> DEFINE b == Start(k)
           q == e - k
           r == (z + Page - 1) \div Page
<1>1. Page \in Nat \ {0} /\ b \in Nat /\ q \in Nat /\ k + q = e
  BY SizesTyped, Starts
<1>2. PagesAt(b, q * Page) = k .. ((k + q) - 1) /\ Start(k + q) = b + q * Page
  BY <1>1, PagesTyped
<1>3. r \in Nat /\ RoundUp(z, Page) = r * Page /\ z <= r * Page /\ r * Page < z + Page
  BY <1>1, RoundUpTyped
<1> HIDE DEF q, r, b
<1>4. q * Page \in Nat /\ r * Page \in Nat
  BY <1>1, <1>3
<1>5. z <= q * Page /\ q * Page < z + Page
  BY <1>1, <1>2, <1>4 DEF b
<1>6. q = r
  <2>1. q < r => q * Page + Page <= r * Page
    BY <1>1, <1>3
  <2>2. r < q => r * Page + Page <= q * Page
    BY <1>1, <1>3
  <2> QED
    BY <1>1, <1>3, <1>4, <1>5, <2>1, <2>2
<1>7. RoundUp(q * Page, Page) = q * Page
  <2> DEFINE x == (q * Page + Page - 1) \div Page
  <2>1. x \in Nat /\ RoundUp(q * Page, Page) = x * Page /\ q * Page <= x * Page /\ x * Page < q * Page + Page
    BY <1>1, <1>4, RoundUpTyped
  <2> HIDE DEF x
  <2>2. (q < x => q * Page + Page <= x * Page) /\ (x < q => x * Page + Page <= q * Page) /\ x * Page \in Nat
    BY <1>1, <2>1
  <2>3. x = q
    BY <1>1, <1>4, <2>1, <2>2
  <2> QED
    BY <2>1, <2>3
<1>8. PagesAt(b, z) = PagesAt(b, q * Page)
  BY <1>3, <1>6, <1>7 DEF PagesAt
<1> QED
  BY <1>1, <1>2, <1>8 DEF b

\* In a region that is one block the tail is behind that, and its pages are those that the
\* size of the block says.
LEMMA WholePages ==
  ASSUME NEW B, Linked(B), NEW k, NEW e, NEW t, RegionOf(B, k, e, t), After(B, Start(k)) \in TailsOf(B)
  PROVE  /\ t = After(B, Start(k)) /\ PagesAt(Start(k), B[Start(k)].size) = k .. (e - 1)
         /\ \A m \in DOMAIN B : Start(k) <= m /\ m <= t => m = Start(k) \/ m = t
<1>1. /\ k \in Nat /\ e \in Nat /\ k < e /\ Start(k) \in Nat /\ Start(e) \in Nat /\ t \in Nat
      /\ Start(k) \in DOMAIN B /\ Start(k) < t
      /\ t \in TailsOf(B) /\ t \in DOMAIN B
      /\ Start(e) <= t + Header + FreeSize /\ t + Header <= Start(e)
      /\ \A x \in FirstsOf(B) \cup TailsOf(B) : ~(Start(k) < x /\ x < t)
  BY RegionTyped
<1> DEFINE b == Start(k)
           z == B[b].size
<1>2. z \in Nat /\ After(B, b) \in Nat /\ b < After(B, b)
  BY <1>1, BlockTyped
<1>3. After(B, b) <= t
  BY <1>1 DEF Linked
<1>4. After(B, b) = t
  <2>1. ~(After(B, b) < t)
    BY <1>1, <1>2
  <2> QED
    BY <1>1, <1>2, <1>3, <2>1
<1>5. t = b + Header + z
  BY <1>4 DEF After
<1>6. Header \in Nat /\ FreeSize \in Nat /\ Page \in Nat \ {0} /\ Page > 2 * Header + FreeSize
  BY SizesTyped
<1> HIDE DEF z, b
<1>7. b + z <= Start(e) /\ Start(e) < b + z + Page
  BY <1>1, <1>2, <1>5, <1>6 DEF b
<1>8. PagesAt(b, z) = k .. (e - 1)
  BY <1>1, <1>2, <1>7, PagesWithin DEF b
<1>9. \A m \in DOMAIN B : Start(k) <= m /\ m <= t => m = Start(k) \/ m = t
  <2> SUFFICES ASSUME NEW m \in DOMAIN B, Start(k) <= m, m <= t, m # Start(k) PROVE m = t
    OBVIOUS
  <2>1. m \in Nat
    BY BlockTyped
  <2>2. After(B, Start(k)) <= m
    BY <1>1, <2>1 DEF Linked
  <2> QED
    BY <1>1, <1>4, <2>1, <2>2 DEF b
<1> QED
  BY <1>4, <1>8, <1>9 DEF b, z

-----------------------------------------------------------------------------
\* C is B without the regions of which the first blocks are R, all free and alone in theirs.
AllWhole(B, R) ==
  \A m \in R : m \in FirstsOf(B) /\ m \in FreeIn(B) /\ After(B, m) \in TailsOf(B)
Gone(B, R) == R \cup {After(B, m) : m \in R}
Removes(B, C, R) ==
  DOMAIN C = DOMAIN B \ Gone(B, R) /\ \A m \in DOMAIN C : C[m] = B[m]
PagesOf(B, R) == UNION {PagesAt(m, B[m].size) : m \in R}

\* The blocks that are left.
LEMMA RemovedBlocks ==
  ASSUME NEW B, Linked(B), NEW R, AllWhole(B, R), NEW C, Removes(B, C, R)
  PROVE  /\ Heads(C) = Heads(B) \ R /\ FreeIn(C) = FreeIn(B) \ R /\ UsedIn(C) = UsedIn(B)
         /\ FirstsOf(C) = FirstsOf(B) \ R /\ TailsOf(C) = TailsOf(B) \ {After(B, m) : m \in R}
         /\ \A m \in DOMAIN C : m \in DOMAIN B /\ C[m] = B[m] /\ After(C, m) = After(B, m)
<1>1. DOMAIN C = DOMAIN B \ Gone(B, R) /\ \A m \in DOMAIN C : C[m] = B[m]
  BY DEF Removes
<1>2. \A m \in R : After(B, m) \in DOMAIN B /\ After(B, m) \notin Heads(B) /\ After(B, m) \in TailsOf(B)
      /\ m \in Heads(B) /\ m \in DOMAIN B /\ m \notin TailsOf(B) /\ ~B[m].used
  BY DEF AllWhole, TailsOf, FirstsOf, Heads, FreeIn
<1>3. Heads(C) = Heads(B) \ R
  <2>1. \A m \in Heads(B) : m \in Gone(B, R) <=> m \in R
    BY <1>2 DEF Gone
  <2> QED
    BY <1>1, <2>1 DEF Heads
<1>4. TailsOf(C) = TailsOf(B) \ {After(B, m) : m \in R}
  <2>1. \A m \in TailsOf(B) : m \in Gone(B, R) <=> m \in {After(B, k) : k \in R}
    BY <1>2 DEF Gone
  <2> QED
    BY <1>1, <2>1 DEF TailsOf
<1>5. Heads(C) \subseteq DOMAIN C
  BY DEF Heads
<1>6. FreeIn(C) = FreeIn(B) \ R /\ FirstsOf(C) = FirstsOf(B) \ R
  BY <1>1, <1>3, <1>5 DEF FreeIn, FirstsOf
<1>7. UsedIn(C) = UsedIn(B)
  BY <1>1, <1>2, <1>3, <1>5 DEF UsedIn
<1>8. \A m \in DOMAIN C : m \in DOMAIN B /\ C[m] = B[m] /\ After(C, m) = After(B, m)
  BY <1>1 DEF After
<1> QED
  BY <1>3, <1>4, <1>6, <1>7, <1>8

\* They are linked as before.
LEMMA RemovedLinked ==
  ASSUME NEW B, Linked(B), NEW R, AllWhole(B, R), NEW C, Removes(B, C, R)
  PROVE  /\ Linked(C) /\ (Tagged(B) => Tagged(C)) /\ (Apart(B, {}) => Apart(C, {}))
<1>1. /\ Heads(C) = Heads(B) \ R /\ FreeIn(C) = FreeIn(B) \ R
      /\ TailsOf(C) = TailsOf(B) \ {After(B, m) : m \in R}
      /\ \A m \in DOMAIN C : m \in DOMAIN B /\ C[m] = B[m] /\ After(C, m) = After(B, m)
  BY RemovedBlocks
<1>2. /\ Heads(C) \subseteq DOMAIN C /\ Heads(B) \subseteq DOMAIN B /\ TailsOf(C) \subseteq DOMAIN C
      /\ FreeIn(C) \subseteq Heads(C)
  BY DEF Heads, TailsOf, FreeIn
<1>3. \A m \in R : m \in FirstsOf(B) /\ m \in Heads(B) /\ B[m].prev = Null /\ After(B, m) \in TailsOf(B)
      /\ After(B, m) \notin Heads(B)
  BY DEF AllWhole, FirstsOf, TailsOf, Heads
<1>4. ASSUME NEW m \in Heads(C)
      PROVE  After(B, m) \in DOMAIN C
  <2>1. m \in Heads(B) /\ m \notin R /\ After(B, m) \in DOMAIN B
    BY <1>1 DEF Linked
  <2>2. After(B, m) \notin R
    <3>1. SUFFICES ASSUME After(B, m) \in R PROVE FALSE
      OBVIOUS
    <3>2. After(B, m) \in Heads(B) /\ B[After(B, m)].prev = Null
      BY <1>3, <3>1
    <3> QED
      BY <2>1, <3>2 DEF Linked
  <2>3. ASSUME NEW k \in R, After(B, m) = After(B, k) PROVE FALSE
    <3>1. k \in Heads(B)
      BY <1>3
    <3>2. m = k
      BY <2>1, <2>3, <3>1, BeforeUnique
    <3> QED
      BY <2>1, <3>2
  <2> QED
    BY <2>1, <2>2, <2>3 DEF Removes, Gone
<1>5. Linked(C)
  <2>1. DOMAIN C \subseteq Addresses /\ \A m \in DOMAIN C : C[m] \in Block
    BY <1>1 DEF Linked
  <2>2. \A m \in TailsOf(C) : C[m].used
    BY <1>1, <1>2 DEF Linked
  <2>3. \A m \in Heads(C) : After(C, m) \in DOMAIN C
    BY <1>1, <1>2, <1>4
  <2>4. \A m \in DOMAIN C : \A n \in DOMAIN C : m < n => After(C, m) <= n
    BY <1>1 DEF Linked
  <2>5. \A m \in Heads(C) : After(C, m) \in Heads(C) => C[After(C, m)].prev # Null
    BY <1>1, <1>2 DEF Linked
  <2> QED
    BY <2>1, <2>2, <2>3, <2>4, <2>5 DEF Linked
<1>6. ASSUME Tagged(B) PROVE Tagged(C)
  <2> SUFFICES ASSUME NEW m \in Heads(C), C[m].prev # Null
               PROVE  C[m].prev \in Heads(C) /\ After(C, C[m].prev) = m
    BY DEF Tagged
  <2>1. C[m].prev = B[m].prev /\ m \in Heads(B)
    BY <1>1, <1>2
  <2>2. B[m].prev \in Heads(B) /\ After(B, B[m].prev) = m
    BY <1>6, <2>1 DEF Tagged
  <2>3. B[m].prev \notin R
    BY <1>3, <2>1, <2>2
  <2> QED
    BY <1>1, <1>2, <2>1, <2>2, <2>3
<1>7. Apart(B, {}) => Apart(C, {})
  BY <1>1, <1>2 DEF Apart
<1> QED
  BY <1>5, <1>6, <1>7

\* The regions left are the others.
LEMMA RemovedRegions ==
  ASSUME NEW B, NEW mapped, Linked(B), Regioned(B, mapped), NEW R, AllWhole(B, R), NEW C, Removes(B, C, R)
  PROVE  Regioned(C, mapped \ PagesOf(B, R))
<1>1. /\ FirstsOf(C) = FirstsOf(B) \ R /\ TailsOf(C) = TailsOf(B) \ {After(B, m) : m \in R}
      /\ \A m \in DOMAIN C : m \in DOMAIN B /\ C[m] = B[m] /\ After(C, m) = After(B, m)
  BY RemovedBlocks
<1>2. Linked(C)
  BY RemovedLinked
<1>3. \A m \in R : m \in FirstsOf(B) /\ m \in DOMAIN B /\ After(B, m) \in TailsOf(B)
  BY DEF AllWhole, FirstsOf, Heads
\* The region of a block of R.
<1>4. ASSUME NEW m \in R
      PROVE  \E k, e : /\ RegionOf(B, k, e, After(B, m)) /\ Start(k) = m /\ PagesAt(m, B[m].size) = k .. (e - 1)
                       /\ \A n \in DOMAIN B : m <= n /\ n <= After(B, m) => n = m \/ n = After(B, m)
  <2>1. PICK k, e, t : RegionOf(B, k, e, t) /\ Start(k) = m
    BY <1>3, FirstRegion
  <2>2. After(B, Start(k)) \in TailsOf(B)
    BY <1>3, <2>1
  <2>3. /\ t = After(B, Start(k)) /\ PagesAt(Start(k), B[Start(k)].size) = k .. (e - 1)
        /\ \A n \in DOMAIN B : Start(k) <= n /\ n <= t => n = Start(k) \/ n = t
    BY <2>1, <2>2, WholePages
  <2> QED
    BY <2>1, <2>3
\* A region is left if its first block is.
<1>5. ASSUME NEW k, NEW e, NEW t, RegionOf(B, k, e, t), Start(k) \notin R
      PROVE  RegionOf(C, k, e, t)
  <2>1. t \notin {After(B, m) : m \in R}
    <3> SUFFICES ASSUME NEW m \in R, t = After(B, m) PROVE FALSE
      OBVIOUS
    <3>1. PICK k2, e2 : RegionOf(B, k2, e2, t) /\ Start(k2) = m
      BY <1>4
    <3>2. k \in Nat /\ k2 \in Nat /\ Start(k) < t /\ Start(k2) < t /\ Start(k) \in Nat /\ Start(k2) \in Nat /\ t \in Nat
      BY <1>5, <3>1, RegionTyped
    <3>3. ~(k < k2)
      <4>1. SUFFICES ASSUME k < k2 PROVE FALSE
        OBVIOUS
      <4>2. t < Start(k2)
        BY <1>5, <3>1, <4>1, RegionsDisjoint
      <4> QED
        BY <3>2, <4>2
    <3>4. ~(k2 < k)
      <4>1. SUFFICES ASSUME k2 < k PROVE FALSE
        OBVIOUS
      <4>2. t < Start(k)
        BY <1>5, <3>1, <4>1, RegionsDisjoint
      <4> QED
        BY <3>2, <4>2
    <3>5. k = k2
      BY <3>2, <3>3, <3>4
    <3> QED
      BY <1>5, <3>1, <3>5
  <2>2. FirstsOf(C) \cup TailsOf(C) \subseteq FirstsOf(B) \cup TailsOf(B)
    BY <1>1
  <2>3. /\ k \in 1 .. PageCount /\ e \in (k + 1) .. (PageCount + 1)
        /\ Start(k) \in FirstsOf(B) /\ t \in TailsOf(B) /\ Start(k) < t
        /\ Start(e) <= t + Header + FreeSize /\ t + Header <= Start(e)
        /\ \A x \in FirstsOf(B) \cup TailsOf(B) : ~(Start(k) < x /\ x < t)
    BY <1>5 DEF RegionOf, Region
  <2>4. Start(k) \in FirstsOf(C) /\ t \in TailsOf(C)
    BY <1>1, <1>5, <2>1, <2>3
  <2>5. \A x \in FirstsOf(C) \cup TailsOf(C) : ~(Start(k) < x /\ x < t)
    BY <2>2, <2>3
  <2> QED
    BY <2>3, <2>4, <2>5 DEF RegionOf, Region
\* And those are all.
<1>6. ASSUME NEW k, NEW e, NEW t, RegionOf(C, k, e, t)
      PROVE  RegionOf(B, k, e, t) /\ Start(k) \notin R
  <2>1. Start(k) \in FirstsOf(B) /\ Start(k) \notin R /\ k \in Nat
    <3>1. Start(k) \in FirstsOf(C) /\ k \in Nat
      BY <1>2, <1>6, RegionTyped
    <3> QED
      BY <1>1, <3>1
  <2>2. PICK k2, e2, t2 : RegionOf(B, k2, e2, t2) /\ Start(k2) = Start(k)
    BY <2>1, FirstRegion
  <2>3. k2 \in Nat
    BY <2>2, RegionTyped
  <2>4. k2 = k
    BY <2>1, <2>2, <2>3, Starts
  <2>5. RegionOf(B, k, e2, t2)
    BY <2>2, <2>4
  <2>6. RegionOf(C, k, e2, t2)
    BY <1>5, <2>1, <2>5
  <2>7. e = e2 /\ t = t2
    BY <1>2, <1>6, <2>6, RegionUnique
  <2> QED
    BY <2>1, <2>5, <2>7
<1>7. ASSUME NEW m \in DOMAIN C
      PROVE  \E k, e, t : RegionOf(C, k, e, t) /\ Start(k) <= m /\ m <= t
  <2>1. m \in DOMAIN B /\ m \notin Gone(B, R)
    BY <1>1 DEF Removes
  <2>2. PICK k, e, t : RegionOf(B, k, e, t) /\ Start(k) <= m /\ m <= t
    BY <2>1 DEF Regioned, RegionedBy, RegionOf
  <2>3. Start(k) \notin R
    <3>1. SUFFICES ASSUME Start(k) \in R PROVE FALSE
      OBVIOUS
    <3>2. PICK k2, e2 : /\ RegionOf(B, k2, e2, After(B, Start(k))) /\ Start(k2) = Start(k)
                        /\ \A n \in DOMAIN B : Start(k) <= n /\ n <= After(B, Start(k)) => n = Start(k) \/ n = After(B, Start(k))
      BY <1>4, <3>1
    <3>3. k \in Nat /\ k2 \in Nat
      BY <2>2, <3>2, RegionTyped
    <3>4. k2 = k
      BY <3>2, <3>3, Starts
    <3>5. t = After(B, Start(k))
      BY <2>2, <3>2, <3>4, RegionUnique
    <3>6. m = Start(k) \/ m = After(B, Start(k))
      BY <2>1, <2>2, <3>2, <3>5
    <3> QED
      BY <2>1, <3>1, <3>6 DEF Gone
  <2> QED
    BY <1>5, <2>2, <2>3
<1>8. ASSUME NEW p
      PROVE  p \in mapped \ PagesOf(B, R) <=> \E k, e, t : RegionOf(C, k, e, t) /\ p \in k .. (e - 1)
  <2>1. p \in mapped <=> \E k, e, t : RegionOf(B, k, e, t) /\ p \in k .. (e - 1)
    BY DEF Regioned, RegionedBy, RegionOf
  <2>2. ASSUME p \in mapped, p \notin PagesOf(B, R)
        PROVE  \E k, e, t : RegionOf(C, k, e, t) /\ p \in k .. (e - 1)
    <3>1. PICK k, e, t : RegionOf(B, k, e, t) /\ p \in k .. (e - 1)
      BY <2>1, <2>2
    <3>2. Start(k) \notin R
      <4>1. SUFFICES ASSUME Start(k) \in R PROVE FALSE
        OBVIOUS
      <4>2. PICK k2, e2 : /\ RegionOf(B, k2, e2, After(B, Start(k))) /\ Start(k2) = Start(k)
                          /\ PagesAt(Start(k), B[Start(k)].size) = k2 .. (e2 - 1)
        BY <1>4, <4>1
      <4>3. k \in Nat /\ k2 \in Nat
        BY <3>1, <4>2, RegionTyped
      <4>4. k2 = k
        BY <4>2, <4>3, Starts
      <4>5. e2 = e
        BY <3>1, <4>2, <4>4, RegionUnique
      <4>6. p \in PagesOf(B, R)
        BY <3>1, <4>1, <4>2, <4>4, <4>5 DEF PagesOf
      <4> QED
        BY <2>2, <4>6
    <3> QED
      BY <1>5, <3>1, <3>2
  <2>3. ASSUME NEW k, NEW e, NEW t, RegionOf(C, k, e, t), p \in k .. (e - 1)
        PROVE  p \in mapped /\ p \notin PagesOf(B, R)
    <3>1. RegionOf(B, k, e, t) /\ Start(k) \notin R
      BY <1>6, <2>3
    <3>2. p \in mapped
      BY <2>1, <2>3, <3>1
    <3>3. p \notin PagesOf(B, R)
      <4> SUFFICES ASSUME NEW m \in R, p \in PagesAt(m, B[m].size) PROVE FALSE
        BY DEF PagesOf
      <4>1. PICK k2, e2 : /\ RegionOf(B, k2, e2, After(B, m)) /\ Start(k2) = m
                          /\ PagesAt(m, B[m].size) = k2 .. (e2 - 1)
        BY <1>4
      <4>2. k \in Nat /\ k2 \in Nat /\ e \in Nat /\ e2 \in Nat
        BY <3>1, <4>1, RegionTyped
      <4>3. k # k2
        BY <3>1, <4>1
      <4>4. (k < k2 => e <= k2) /\ (k2 < k => e2 <= k)
        BY <3>1, <4>1, RegionsDisjoint
      <4> QED
        BY <2>3, <4>1, <4>2, <4>3, <4>4
    <3> QED
      BY <3>2, <3>3
  <2> QED
    BY <2>2, <2>3
<1> QED
  BY <1>7, <1>8 DEF Regioned, RegionedBy, RegionOf

-----------------------------------------------------------------------------
\* The pool before and after what does not touch the blocks in use.
Quiet(s, t) ==
  /\ Kept(t, Loose(t)) /\ Tagged(t.block) /\ Apart(t.block, {})
  /\ UsedSame(s.block, t.block, {}) /\ UsedIn(t.block) = UsedIn(s.block)

\* The cached block goes to its place.
LEMMA UncachedQuiet ==
  ASSUME NEW s, Kept(s, Loose(s)), Tagged(s.block), Apart(s.block, {})
  PROVE  Quiet(s, Uncached(s)) /\ Uncached(s).cached = Null
<1> DEFINE c == s.cached
           t == Uncached(s)
<1>1. CASE c = Null
  <2>1. t = s
    BY <1>1 DEF Uncached
  <2>2. Quiet(s, s)
    BY DEF Quiet, UsedSame
  <2> QED
    BY <1>1, <2>1, <2>2
<1>2. CASE c # Null
  <2>1. Loose(s) = {c}
    BY <1>2 DEF Loose
  <2> DEFINE r == Reorganize(s, c)
             u == InsertFreeBlock(r.pool, r.at)
  <2>2. t = [u EXCEPT !.cached = Null]
    BY <1>2 DEF Uncached
  <2> HIDE DEF c, t
  <2>3. Kept(s, {c}) /\ Apart(s.block, {c}) /\ c \in {c}
    BY <2>1 DEF Apart
  <2>4. After(s.block, c) \notin {c} /\ s.block[c].prev \notin {c}
    BY <2>3, NotBesideItself
  <2>5. Reorganized(s, {c}, r, c)
    BY <2>3, <2>4, ReorganizeKeeps
  <2> HIDE DEF r, u
  <2>6. ({c} \ {c}) \cup {r.at} = {r.at} /\ {r.at} \ {r.at} = {}
    OBVIOUS
  <2>7. Kept(r.pool, {r.at}) /\ r.at \in {r.at}
    BY <2>5, <2>6 DEF Reorganized
  <2>8. Kept(u, {r.at} \ {r.at}) /\ u.block = r.pool.block
    BY <2>7, KeptInsert DEF u
  <2>9. Kept(u, {})
    BY <2>6, <2>8
  <2>10. Kept(t, {}) /\ t.block = u.block /\ t.cached = Null
    BY <2>2, <2>9, KeptCached
  <2>11. Loose(t) = {}
    BY <2>10 DEF Loose
  <2>12. Quiet(s, t)
    BY <2>5, <2>8, <2>10, <2>11 DEF Quiet, Reorganized
  <2> QED
    BY <2>10, <2>12 DEF t
<1> QED
  BY <1>1, <1>2

\* Only regions that are one free block of the tree go back.
LEMMA ReturnedWhole ==
  ASSUME NEW s, NEW X, Kept(s, X), NEW budget
  PROVE  Returned(s, budget) \subseteq s.tree /\ AllWhole(s.block, Returned(s, budget))
<1>1. \A m \in Returned(s, budget) : m \in s.tree /\ IsWhole(s, m)
  BY DEF Returned
<1>2. ASSUME NEW m \in Returned(s, budget)
      PROVE  m \in FirstsOf(s.block) /\ m \in FreeIn(s.block) /\ After(s.block, m) \in TailsOf(s.block)
  <2>1. s.block[m].prev = Null /\ s.block[After(s.block, m)].size = 0
    BY <1>1, PoolOperators DEF IsWhole
  <2>2. m \in FreeIn(s.block)
    BY <1>1 DEF Kept, Filing
  <2>3. m \in Heads(s.block) /\ After(s.block, m) \in DOMAIN s.block
    BY <2>2, KeptBlocks
  <2> QED
    BY <2>1, <2>2, <2>3 DEF FirstsOf, TailsOf
<1> QED
  BY <1>1, <1>2 DEF AllWhole

\* s without the regions of R.
Without(s, R) ==
  [s EXCEPT !.tree = @ \ R,
            !.block = Restrict(@, DOMAIN @ \ (R \cup {NextOf(s, m) : m \in R})),
            !.mapped = @ \ UNION {Unmapped(s, m) : m \in R}]

\* Taking whole free regions out of the tree is quiet: blocks in use, tags and places stay.
LEMMA WithoutKept ==
  ASSUME NEW s, Kept(s, {}), Tagged(s.block), Apart(s.block, {}), s.cached = Null,
         NEW R, R \subseteq s.tree, AllWhole(s.block, R)
  PROVE  Quiet(s, Without(s, R)) /\ Without(s, R).cached = Null
<1> DEFINE t == Without(s, R)
           B == s.block
           C == t.block
<1>1. IsPool(s) /\ Linked(B) /\ Regioned(B, s.mapped) /\ Filing(B, s.mr, s.small, s.tree, {})
  BY DEF Kept
<1>2. (R \cup {NextOf(s, m) : m \in R}) = Gone(B, R) /\ UNION {Unmapped(s, m) : m \in R} = PagesOf(B, R)
  <2>1. \A m : NextOf(s, m) = After(B, m) /\ Unmapped(s, m) = PagesAt(m, B[m].size)
    BY PoolOperators DEF Unmapped
  <2> QED
    BY <2>1, Zenon DEF Gone, PagesOf
<1>3. /\ t.block = Restrict(B, DOMAIN B \ Gone(B, R)) /\ t.tree = s.tree \ R
      /\ t.mapped = s.mapped \ PagesOf(B, R)
      /\ t.cached = s.cached /\ t.mr = s.mr /\ t.small = s.small
      /\ t = [block |-> t.block, cached |-> t.cached, mr |-> t.mr, small |-> t.small,
              tree |-> t.tree, mapped |-> t.mapped]
  <2> DEFINE b == Restrict(B, DOMAIN B \ Gone(B, R))
             p == s.mapped \ PagesOf(B, R)
             q == s.tree \ R
  <2>1. t = [s EXCEPT !.tree = q, !.block = b, !.mapped = p]
    BY <1>2, Zenon DEF Without
  <2> HIDE DEF b, p, q, t
  <2>2. /\ t.block = b /\ t.tree = q /\ t.mapped = p
        /\ t.cached = s.cached /\ t.mr = s.mr /\ t.small = s.small
        /\ t = [block |-> t.block, cached |-> t.cached, mr |-> t.mr, small |-> t.small,
                tree |-> t.tree, mapped |-> t.mapped]
    BY <1>1, <2>1 DEF IsPool
  <2> QED
    BY <2>2 DEF b, p, q
<1> HIDE DEF t
<1>4. IsPool(t) /\ Removes(B, C, R)
  <2>1. C = [m \in DOMAIN B \ Gone(B, R) |-> B[m]]
    BY <1>3 DEF Restrict
  <2> HIDE DEF C, B
  <2>2. DOMAIN C = DOMAIN B \ Gone(B, R) /\ \A m \in DOMAIN C : C[m] = B[m]
    BY <2>1
  <2>3. C = [m \in DOMAIN C |-> C[m]]
    BY <2>1
  <2> QED
    BY <1>3, <2>2, <2>3 DEF IsPool, Removes, C
<1>5. /\ Heads(C) = Heads(B) \ R /\ FreeIn(C) = FreeIn(B) \ R /\ UsedIn(C) = UsedIn(B)
      /\ \A m \in DOMAIN C : m \in DOMAIN B /\ C[m] = B[m]
  BY <1>1, <1>4, RemovedBlocks
<1>6. Linked(C) /\ Tagged(C) /\ Apart(C, {})
  BY <1>1, <1>4, RemovedLinked
<1>7. Regioned(C, t.mapped)
  BY <1>1, <1>3, <1>4, RemovedRegions
<1>8. Filing(C, t.mr, t.small, t.tree, {})
  <2>1. t.small \subseteq FreeIn(C) /\ t.tree \subseteq FreeIn(C)
    <3>1. s.small \cap s.tree = {}
      <4>1. SUFFICES ASSUME NEW m \in s.small, m \in s.tree PROVE FALSE
        OBVIOUS
      <4>2. B[m].size < SmallSize /\ B[m].size >= SmallSize /\ m \in FreeIn(B)
        BY <1>1, <4>1 DEF Filing
      <4>3. B[m].size \in Nat /\ SmallSize \in Nat
        BY <1>1, <4>2, BlockTyped, SizesTyped DEF FreeIn, Heads
      <4> QED
        BY <4>2, <4>3
    <3> QED
      BY <1>1, <1>3, <1>5, <3>1 DEF Filing
  <2>2. FreeIn(C) \subseteq DOMAIN C
    BY DEF FreeIn, Heads
  <2>3. (\A m \in t.small : C[m].size < SmallSize) /\ (\A m \in t.tree : C[m].size >= SmallSize)
    BY <1>1, <1>3, <1>5, <2>1, <2>2 DEF Filing
  <2>4. FreeIn(C) = ({t.mr} \ {Null}) \cup t.small \cup t.tree \cup {}
    <3>1. s.mr \notin R
      BY <1>1 DEF Filing
    <3>2. s.small \cap R = {}
      BY <1>3, <1>5, <2>1
    <3> QED
      BY <1>1, <1>3, <1>5, <3>1, <3>2 DEF Filing
  <2>5. t.mr \notin t.small \cup t.tree \cup {}
    BY <1>1, <1>3 DEF Filing
  <2> QED
    BY <2>3, <2>4, <2>5 DEF Filing
<1>9. Kept(t, {}) /\ t.cached = Null
  BY <1>3, <1>4, <1>6, <1>7, <1>8 DEF Kept
<1>10. Loose(t) = {}
  BY <1>9 DEF Loose
<1>11. UsedSame(B, C, {})
  BY <1>5 DEF UsedSame, UsedIn, Heads
<1>12. Quiet(s, t)
  BY <1>5, <1>6, <1>9, <1>10, <1>11 DEF Quiet
<1> QED
  BY <1>9, <1>12 DEF t

\* tree_recycle does not touch the blocks in use.
LEMMA RecycleQuiet ==
  ASSUME NEW s, Kept(s, Loose(s)), Tagged(s.block), Apart(s.block, {}), NEW budget
  PROVE  Quiet(s, Recycle(s, budget))
<1> DEFINE u == Uncached(s)
           R == Returned(u, budget)
<1>1. Recycle(s, budget) = Without(u, R)
  BY Zenon DEF Recycle, Without
<1>2. Quiet(s, u) /\ u.cached = Null
  BY UncachedQuiet
<1> HIDE DEF u, R
<1>3. Kept(u, {}) /\ Tagged(u.block) /\ Apart(u.block, {})
  BY <1>2 DEF Quiet, Loose
<1>4. R \subseteq u.tree /\ AllWhole(u.block, R)
  BY <1>3, ReturnedWhole DEF R
<1>5. Quiet(u, Without(u, R))
  BY <1>2, <1>3, <1>4, WithoutKept
<1>6. UsedSame(s.block, Without(u, R).block, {})
  BY <1>2, <1>5 DEF Quiet, UsedSame
<1>7. Quiet(s, Without(u, R))
  BY <1>2, <1>5, <1>6 DEF Quiet
<1> QED
  BY <1>1, <1>7

\* tree_alloc allocates, or has given back what it can.
LEMMA TreeAllocates ==
  ASSUME NEW s, Kept(s, Loose(s)), Tagged(s.block), Apart(s.block, {}), NEW sz \in Nat \ {0},
         NEW o \in TreeAlloc(s, sz)
  PROVE  (o.at = Null /\ Quiet(s, o.pool)) \/ Allocated(s, o.pool, o.at, sz)
<1>1. \A u : Kept(u, Loose(u)) /\ Tagged(u.block) /\ Apart(u.block, {})
             => \A p \in FromSystem(u, sz) : Allocated(u, p.pool, p.at, sz)
  <2> SUFFICES ASSUME NEW u, Kept(u, Loose(u)), Tagged(u.block), Apart(u.block, {}),
                      NEW p \in FromSystem(u, sz)
               PROVE  Allocated(u, p.pool, p.at, sz)
    OBVIOUS
  <2>1. PICK b \in FreeBases(u, RegionSize(sz)) : p = [pool |-> NewRegion(u, sz, b), at |-> b]
    BY DEF FromSystem
  <2>2. p.pool = NewRegion(u, sz, b) /\ p.at = b
    BY <2>1
  <2>3. Allocated(u, NewRegion(u, sz, b), b, sz)
    BY <2>1, NewRegionAllocates
  <2> QED
    BY <2>2, <2>3
<1>2. CASE o \in FromPool(s, sz)
  BY <1>2, FromPoolAllocates
<1>3. CASE o \in FromSystem(s, sz)
  BY <1>1, <1>3
<1>4. CASE o \in WithoutMemory(s, sz)
  <2> DEFINE r == Recycle(s, Unlimited)
  <2>1. Quiet(s, r)
    BY RecycleQuiet
  <2>2. o = [pool |-> r, at |-> Null] \/ o \in FromSystem(r, sz)
    <3> HIDE DEF r
    <3>1. o \in {[pool |-> r, at |-> Null]}
           \cup (IF Returned(Uncached(s), Unlimited) = {} THEN {} ELSE FromSystem(r, sz))
      BY <1>4 DEF WithoutMemory, r
    <3> QED
      BY <3>1
  <2> HIDE DEF r
  <2>3. CASE o = [pool |-> r, at |-> Null]
    <3>1. o.pool = r /\ o.at = Null
      BY <2>3
    <3> QED
      BY <2>1, <3>1
  <2>4. CASE o \in FromSystem(r, sz)
    <3>1. Allocated(r, o.pool, o.at, sz)
      BY <1>1, <2>1, <2>4 DEF Quiet
    <3>2. UsedSame(s.block, o.pool.block, {o.at})
      BY <2>1, <3>1 DEF Quiet, Allocated, UsedSame
    <3>3. Allocated(s, o.pool, o.at, sz)
      BY <2>1, <3>1, <3>2 DEF Quiet, Allocated
    <3> QED
      BY <3>3
  <2> QED
    BY <2>2, <2>3, <2>4
<1>5. o \in FromPool(s, sz) \/ o \in FromSystem(s, sz) \/ o \in WithoutMemory(s, sz)
  <2>1. CASE FromPool(s, sz) # {}
    BY <2>1 DEF TreeAlloc
  <2>2. CASE FromPool(s, sz) = {}
    <3>1. o \in FromSystem(s, sz) \cup (IF mutex = "mutex_t" THEN {} ELSE WithoutMemory(s, sz))
      BY <2>2 DEF TreeAlloc
    <3> QED
      BY <3>1
  <2> QED
    BY <2>1, <2>2
<1> QED
  BY <1>2, <1>3, <1>4, <1>5

-----------------------------------------------------------------------------
(***************************************************************************)
(* tree_realloc in place.                                                  *)
(***************************************************************************)

\* Block m, in use, becomes block b, of sz bytes at least.  One tag may be wrong then: that
\* of what was behind the cached block.
Resized(s, t, m, b, sz) ==
  /\ Kept(t, Loose(t)) /\ Apart(t.block, {})
  /\ UsedIn(t.block) = (UsedIn(s.block) \ {m}) \cup {b} /\ (b = m \/ b \notin UsedIn(s.block))
  /\ UsedSame(s.block, t.block, {m, b}) /\ t.block[b].size >= sz /\ b # Null
  /\ Tagged(t.block) \/ (s.cached = After(s.block, m) /\ b = s.block[m].prev /\ b # m)

\* Shrunk.
LEMMA ShrunkResizes ==
  ASSUME NEW s, Kept(s, Loose(s)), Tagged(s.block), Apart(s.block, {}), NEW m \in UsedIn(s.block),
         NEW sz \in Nat \ {0}, s.block[m].size >= sz
  PROVE  Resized(s, Shrunk(s, m, sz), m, m, sz)
<1> DEFINE rest == RestOf(m, sz)
           u == Split(s, m, sz)
           t == Shrunk(s, m, sz)
<1>1. m \in Heads(s.block) /\ s.block[m].used /\ m \notin FreeIn(s.block) /\ m # Null /\ m \in DOMAIN s.block
  BY KeptBlocks
<1>2. CASE CanSplit(s, m, sz)
  <2>1. t = AddFreed(u, rest)
    BY <1>2 DEF Shrunk
  <2>2. SplitAt(s, Loose(s), u, m, sz, rest)
    BY <1>1, <1>2, KeptSplit
  <2> HIDE DEF rest, u, t
  <2>3. /\ Kept(u, Loose(s) \cup {rest}) /\ u.cached = s.cached /\ Tagged(u.block)
        /\ Heads(u.block) = Heads(s.block) \cup {rest}
        /\ FreeIn(u.block) = FreeIn(s.block) \cup {rest} /\ UsedIn(u.block) = UsedIn(s.block)
        /\ rest \notin DOMAIN s.block /\ u.block[m].size = sz
        /\ \A k \in Heads(s.block) : k # m => u.block[k].size = s.block[k].size
        /\ \A k \in Heads(s.block) : k # m => After(u.block, k) = After(s.block, k)
    BY <2>2, TaggedAll DEF SplitAt
  <2>4. Loose(u) = Loose(s) /\ rest \notin Loose(u) /\ rest \in Heads(u.block) /\ rest \notin UsedIn(s.block)
        /\ rest # m
    <3>1. Loose(s) \subseteq DOMAIN s.block
      BY KeptBlocks DEF FreeIn, Heads
    <3> QED
      BY <1>1, <2>3, <3>1 DEF Loose, UsedIn, Heads
  <2>5. Apart(u.block, {rest})
    <3> SUFFICES ASSUME NEW k \in FreeIn(u.block), After(u.block, k) \in FreeIn(u.block),
                        k # rest, After(u.block, k) # rest
                 PROVE  FALSE
      BY DEF Apart
    <3>1. k \in FreeIn(s.block) /\ k \in Heads(s.block) /\ k # m
      BY <1>1, <2>3 DEF FreeIn
    <3> QED
      BY <2>3, <3>1 DEF Apart
  <2> DEFINE X == Loose(s) \cup {rest}
  <2>6. Kept(u, X) /\ rest \in X /\ X \cup {rest} = Loose(u) \cup {rest}
    BY <2>3, <2>4
  <2> HIDE DEF X
  <2>7. Freed(u, t, rest)
    BY <2>1, <2>3, <2>4, <2>5, <2>6, AddFreedKeeps
  <2>8. /\ Kept(t, Loose(t)) /\ Tagged(t.block) /\ Apart(t.block, {})
        /\ UsedSame(u.block, t.block, {rest}) /\ UsedIn(t.block) = UsedIn(u.block) \ {rest}
    BY <2>7 DEF Freed
  <2>9. UsedIn(t.block) = (UsedIn(s.block) \ {m}) \cup {m}
    BY <2>3, <2>4, <2>8
  <2>10. \A k \in UsedIn(s.block) : t.block[k].size = u.block[k].size
    BY <2>3, <2>4, <2>8 DEF UsedSame
  <2>11. UsedSame(s.block, t.block, {m, m})
    <3>1. UsedIn(s.block) \subseteq Heads(s.block)
      BY DEF UsedIn
    <3> QED
      BY <2>3, <2>9, <2>10, <3>1 DEF UsedSame
  <2>12. t.block[m].size >= sz
    BY <2>3, <2>10
  <2>13. Resized(s, t, m, m, sz)
    BY <1>1, <2>8, <2>9, <2>11, <2>12 DEF Resized
  <2> QED
    BY <2>13 DEF t
<1>3. CASE ~CanSplit(s, m, sz)
  <2>1. t = s
    BY <1>3 DEF Shrunk
  <2>2. Resized(s, s, m, m, sz)
    BY <1>1 DEF Resized, UsedSame
  <2> QED
    BY <2>1, <2>2
<1> QED
  BY <1>2, <1>3

\* What it is to take a free block from where it is, the cached one or not.
UncachedAt(s, Y, t, n) ==
  /\ Kept(t, Loose(t) \cup (Y \cup {n})) /\ t.block = s.block /\ t.mapped = s.mapped
  /\ n \notin Loose(t) /\ t.cached \in {Null, s.cached} /\ (s.cached # n => t.cached = s.cached)

\* Uncache does it.
LEMMA UncacheKeeps ==
  ASSUME NEW s, NEW Y, NEW X, X = Loose(s) \cup Y, Kept(s, X), NEW n \in FreeIn(s.block), n \notin Y,
         s.cached \notin Y
  PROVE  UncachedAt(s, Y, Uncache(s, n), n)
<1> DEFINE t == Uncache(s, n)
<1>1. n # Null
  BY KeptBlocks DEF FreeIn, Heads
<1>2. CASE s.cached = n
  <2>1. t = [s EXCEPT !.cached = Null]
    BY <1>2 DEF Uncache
  <2>2. Kept(t, X) /\ SameLists(s, t) /\ t.block = s.block /\ t.cached = Null
    BY <2>1, KeptCached
  <2> HIDE DEF t
  <2>3. X = Loose(t) \cup (Y \cup {n}) /\ n \notin Loose(t)
    BY <1>1, <1>2, <2>2 DEF Loose
  <2>4. UncachedAt(s, Y, t, n)
    BY <1>2, <2>2, <2>3 DEF SameLists, UncachedAt
  <2> QED
    BY <2>4 DEF t
<1>3. CASE s.cached # n
  <2>1. t = EraseFreeBlock(s, n)
    BY <1>3 DEF Uncache
  <2>2. n \notin X
    BY <1>3 DEF Loose
  <2>3. Kept(t, X \cup {n}) /\ t.block = s.block /\ t.cached = s.cached /\ t.mapped = s.mapped
    BY <2>1, <2>2, KeptErase
  <2> HIDE DEF t
  <2>4. X \cup {n} = Loose(t) \cup (Y \cup {n}) /\ n \notin Loose(t)
    BY <1>3, <2>3 DEF Loose
  <2>5. UncachedAt(s, Y, t, n)
    BY <2>3, <2>4 DEF UncachedAt
  <2> QED
    BY <2>5 DEF t
<1> QED
  BY <1>2, <1>3

\* Grown into the free block behind.
LEMMA GrownResizes ==
  ASSUME NEW s, Kept(s, Loose(s)), Tagged(s.block), Apart(s.block, {}), NEW m \in UsedIn(s.block),
         NEW sz \in Nat \ {0}, After(s.block, m) \in FreeIn(s.block),
         s.block[m].size + s.block[After(s.block, m)].size + Header >= sz
  PROVE  Resized(s, Grown(s, m, sz), m, m, sz)
<1> DEFINE n == After(s.block, m)
           v == Uncache(s, n)
           u == Merge(v, m, n)
           t == Grown(s, m, sz)
<1>1. m \in Heads(s.block) /\ s.block[m].used /\ m \notin FreeIn(s.block) /\ m # Null /\ m \in DOMAIN s.block
      /\ n \in DOMAIN s.block /\ n \in FreeIn(s.block) /\ Linked(s.block)
  BY KeptBlocks
<1>2. t = SplitOff(u, m, sz)
  BY PoolOperators DEF Grown
<1> DEFINE Y == {}
<1>d. Loose(s) = Loose(s) \cup Y /\ n \notin Y /\ s.cached \notin Y
  OBVIOUS
<1>a. s.block[m].size \in Nat /\ s.block[n].size \in Nat /\ Header \in Nat
  BY <1>1, BlockTyped, SizesTyped
<1>b. s.block[m].size + s.block[n].size + Header >= sz /\ After(s.block, m) = n
  OBVIOUS
<1>c. After(s.block, n) \notin FreeIn(s.block)
  BY <1>1 DEF Apart
<1> HIDE DEF u, t, n, Y
<1>e. UncachedAt(s, Y, v, n)
  BY <1>1, <1>d, UncacheKeeps
<1> HIDE DEF v
<1>3. /\ Kept(v, Loose(v) \cup {n}) /\ v.block = s.block /\ v.mapped = s.mapped
      /\ n \notin Loose(v) /\ v.cached \in {Null, s.cached}
  <2>1. Loose(v) \cup (Y \cup {n}) = Loose(v) \cup {n}
    BY DEF Y
  <2> QED
    BY <1>e, <2>1 DEF UncachedAt
<1> DEFINE X == Loose(v) \cup {n}
<1>4. Kept(v, X) /\ n \in X /\ X \ {n} = Loose(v)
  BY <1>3
<1> HIDE DEF X
<1>5. Merged(v, X, u, m, n)
  BY <1>1, <1>3, <1>4, <1>b, KeptMerge DEF u
<1>6. /\ Kept(u, Loose(u)) /\ Tagged(u.block) /\ u.cached = v.cached
      /\ Heads(u.block) = Heads(s.block) \ {n} /\ FreeIn(u.block) = FreeIn(s.block) \ {n}
      /\ UsedIn(u.block) = UsedIn(s.block)
      /\ u.block[m].size = s.block[m].size + Header + s.block[n].size
      /\ \A k \in Heads(u.block) : k # m => u.block[k].size = s.block[k].size
      /\ After(u.block, m) = After(s.block, n)
      /\ \A k \in Heads(u.block) : k # m => After(u.block, k) = After(s.block, k)
  BY <1>3, <1>4, <1>5 DEF Merged, Loose
<1>7. Apart(u.block, {}) /\ After(u.block, m) \notin FreeIn(u.block)
  <2>1. FreeIn(u.block) \subseteq Heads(u.block)
    BY DEF FreeIn
  <2> QED
    BY <1>1, <1>6, <1>c, <2>1 DEF Apart
<1>8. m \in UsedIn(u.block) /\ u.block[m].size >= sz
  BY <1>6, <1>a, <1>b
<1>9. TaggedBut(u.block, After(u.block, m))
  BY <1>6, TaggedAll
<1>10. SplitOffed(u, t, m, sz)
  BY <1>2, <1>6, <1>7, <1>8, <1>9, SplitOffKeeps
<1>11. UsedSame(s.block, t.block, {m, m})
  <2>1. ASSUME NEW k, k # m
        PROVE  /\ k \in UsedIn(t.block) <=> k \in UsedIn(s.block)
               /\ k \in UsedIn(s.block) => t.block[k].size = s.block[k].size
    <3>1. k \in UsedIn(s.block) => k \in Heads(u.block)
      BY <1>6 DEF UsedIn
    <3>2. k \in UsedIn(u.block) => t.block[k].size = u.block[k].size
      BY <1>10, <2>1 DEF SplitOffed, UsedSame
    <3> QED
      BY <1>6, <1>10, <2>1, <3>1, <3>2 DEF SplitOffed
  <2> QED
    BY <2>1 DEF UsedSame
<1>12. UsedIn(t.block) = (UsedIn(s.block) \ {m}) \cup {m}
  BY <1>6, <1>10 DEF SplitOffed
<1>13. Resized(s, t, m, m, sz)
  BY <1>1, <1>6, <1>10, <1>11, <1>12 DEF Resized, SplitOffed
<1> QED
  BY <1>13 DEF t

-----------------------------------------------------------------------------
\* One tag is written.
Retags(B, C, l) ==
  /\ DOMAIN C = DOMAIN B
  /\ \A k \in DOMAIN B : /\ C[k] \in Block /\ C[k].size = B[k].size /\ C[k].used = B[k].used
                         /\ k # l => C[k].prev = B[k].prev
                         /\ k = l => C[k].prev # Null /\ B[k].prev # Null

\* That matters to this tag only.
LEMMA RetagBlocks ==
  ASSUME NEW B, NEW l, NEW C, Retags(B, C, l), Linked(B)
  PROVE  /\ Linked(C) /\ Heads(C) = Heads(B) /\ FreeIn(C) = FreeIn(B) /\ UsedIn(C) = UsedIn(B)
         /\ FirstsOf(C) = FirstsOf(B) /\ TailsOf(C) = TailsOf(B)
         /\ \A k \in DOMAIN B : C[k].size = B[k].size /\ After(C, k) = After(B, k)
         /\ Tagged(B) => TaggedBut(C, l)
         /\ Tagged(B) /\ (l \in DOMAIN B => C[l].prev = B[l].prev) => Tagged(C)
<1>1. DOMAIN C = DOMAIN B
  BY DEF Retags
<1>2. \A k \in DOMAIN B : C[k] \in Block
  BY DEF Retags
<1>3. \A k \in DOMAIN B : C[k].size = B[k].size /\ C[k].used = B[k].used
  BY DEF Retags
<1>4. \A k \in DOMAIN B : (k # l => C[k].prev = B[k].prev) /\ (C[k].prev = Null <=> B[k].prev = Null)
  BY DEF Retags
<1>5. \A k \in DOMAIN B : After(C, k) = After(B, k)
  BY <1>3 DEF After
<1>6. Heads(C) = Heads(B) /\ TailsOf(C) = TailsOf(B)
  BY <1>1, <1>3 DEF Heads, TailsOf
<1>7. Heads(B) \subseteq DOMAIN B /\ TailsOf(B) \subseteq DOMAIN B
  BY DEF Heads, TailsOf
<1>8. FreeIn(C) = FreeIn(B) /\ UsedIn(C) = UsedIn(B) /\ FirstsOf(C) = FirstsOf(B)
  BY <1>3, <1>4, <1>6, <1>7 DEF FreeIn, UsedIn, FirstsOf
<1>9. Linked(C)
  <2>1. DOMAIN C \subseteq Addresses /\ \A m \in DOMAIN C : C[m] \in Block
    BY <1>1, <1>2 DEF Linked
  <2>2. \A m \in TailsOf(C) : C[m].used
    BY <1>3, <1>6, <1>7 DEF Linked
  <2>3. \A m \in Heads(C) : After(C, m) \in DOMAIN C
    BY <1>1, <1>5, <1>6, <1>7 DEF Linked
  <2>4. \A m \in DOMAIN C : \A n \in DOMAIN C : m < n => After(C, m) <= n
    BY <1>1, <1>5 DEF Linked
  <2>5. \A m \in Heads(C) : After(C, m) \in Heads(C) => C[After(C, m)].prev # Null
    BY <1>4, <1>5, <1>6, <1>7 DEF Linked
  <2> QED
    BY <2>1, <2>2, <2>3, <2>4, <2>5 DEF Linked
<1>10. Tagged(B) => TaggedBut(C, l)
  BY <1>4, <1>5, <1>6, <1>7 DEF Tagged, TaggedBut
<1>11. Tagged(B) /\ (l \in DOMAIN B => C[l].prev = B[l].prev) => Tagged(C)
  BY <1>4, <1>5, <1>6, <1>7 DEF Tagged
<1> QED
  BY <1>3, <1>5, <1>6, <1>8, <1>9, <1>10, <1>11

\* Nor to where the free blocks are.
LEMMA RetagKeeps ==
  ASSUME NEW s, NEW X, Kept(s, X), NEW t, IsPool(t), SameLists(s, t), NEW l,
         Retags(s.block, t.block, l)
  PROVE  Kept(t, X)
<1> DEFINE B == s.block
           C == t.block
<1>1. Linked(B) /\ Regioned(B, s.mapped) /\ Filing(B, s.mr, s.small, s.tree, X)
  BY DEF Kept
<1>2. /\ Linked(C) /\ FreeIn(C) = FreeIn(B)
      /\ FirstsOf(C) = FirstsOf(B) /\ TailsOf(C) = TailsOf(B)
      /\ \A k \in DOMAIN B : C[k].size = B[k].size
  BY <1>1, RetagBlocks
<1>3. DOMAIN C = DOMAIN B
  BY DEF Retags
<1> HIDE DEF B, C
<1>4. Regioned(C, t.mapped)
  BY <1>1, <1>2, <1>3 DEF Regioned, SameLists
<1>5. Filing(C, t.mr, t.small, t.tree, X)
  <2>1. s.small \subseteq DOMAIN B /\ s.tree \subseteq DOMAIN B
    BY <1>1 DEF Filing, FreeIn, Heads
  <2> QED
    BY <1>1, <1>2, <2>1 DEF Filing, SameLists
<1> QED
  BY <1>2, <1>4, <1>5 DEF Kept, C

-----------------------------------------------------------------------------
\* In C block p has taken in those of gone, is used, and has size z; the tag of last is tag.
Absorbs(B, C, p, gone, last, z, tag) ==
  /\ DOMAIN C = DOMAIN B \ gone
  /\ \A k \in DOMAIN B \ gone :
       /\ C[k] = [prev |-> C[k].prev, size |-> C[k].size, used |-> C[k].used]
       /\ C[k].prev = IF k = last THEN tag ELSE B[k].prev
       /\ C[k].size = IF k = p THEN z ELSE B[k].size
       /\ k # p => C[k].used = B[k].used
  /\ C[p].used = TRUE

\* What the pool is then, with the tag right.
Absorbed(s, X, d, p, gone, last, z) ==
  /\ Kept(d, X \ ({p} \cup gone)) /\ Tagged(d.block) /\ SameLists(s, d) /\ d.cached = s.cached
  /\ Heads(d.block) = Heads(s.block) \ gone
  /\ FreeIn(d.block) = FreeIn(s.block) \ ({p} \cup gone)
  /\ UsedIn(d.block) = (UsedIn(s.block) \ gone) \cup {p}
  /\ \A k \in Heads(s.block) \ gone : k # p => /\ d.block[k].size = s.block[k].size
                                               /\ After(d.block, k) = After(s.block, k)
  /\ After(d.block, p) = last /\ d.block[p].size = z
  /\ Absorbs(s.block, d.block, p, gone, last, z, p)

\* Freeing a block marks it.
LEMMA FreeMarks ==
  ASSUME NEW s, IsPool(s), Linked(s.block), NEW m \in Heads(s.block)
  PROVE  Marks(s.block, [s EXCEPT !.block[m].used = FALSE].block, m)
<1> DEFINE t == [s EXCEPT !.block[m].used = FALSE]
           B == s.block
           C == t.block
<1>1. IsPool(s) /\ Linked(B) /\ m \in Heads(B)
  OBVIOUS
<1>2. IsPool(t) /\ SameLists(s, t) /\ t.cached = s.cached /\ Marks(B, C, m) /\ ~C[m].used
  BY <1>1, MarkMarks
<1> QED
  BY <1>2

\* A free block takes in the used one behind it.
LEMMA AbsorbOne ==
  ASSUME NEW s, NEW X, Kept(s, X), Tagged(s.block), NEW m \in UsedIn(s.block), NEW p \in X,
         After(s.block, p) = m
  PROVE  \E d : Absorbed(s, X, d, p, {m}, After(s.block, m), s.block[p].size + Header + s.block[m].size)
<1> DEFINE a == [s EXCEPT !.block[m].used = FALSE]
           c == Merge(a, p, m)
           d == Taken(c, p)
           last == After(s.block, m)
           z == s.block[p].size + Header + s.block[m].size
           X1 == X \cup {m}
           X2 == X1 \ {m}
           X3 == X2 \ {p}
<1>1. /\ m \in Heads(s.block) /\ p \in Heads(s.block) /\ s.block[m].used /\ IsPool(s) /\ Linked(s.block)
      /\ p # m /\ m \notin X /\ p \in FreeIn(s.block) /\ p \in DOMAIN s.block /\ m \in DOMAIN s.block
      /\ last \in DOMAIN s.block /\ m < last /\ p < m /\ p \in Nat /\ m \in Nat /\ last \in Nat
  BY KeptBlocks
<1>2. /\ Kept(a, X1) /\ SameLists(s, a) /\ a.cached = s.cached /\ Tagged(a.block)
      /\ Heads(a.block) = Heads(s.block)
      /\ FreeIn(a.block) = FreeIn(s.block) \cup {m} /\ UsedIn(a.block) = UsedIn(s.block) \ {m}
      /\ \A k \in DOMAIN s.block : /\ a.block[k].size = s.block[k].size
                                   /\ After(a.block, k) = After(s.block, k)
  BY <1>1, KeptFree
<1>3. Marks(s.block, a.block, m)
  BY <1>1, FreeMarks
<1> HIDE DEF a, X1
<1>4. p \in Heads(a.block) /\ m \in X1 /\ p \in X1 /\ After(a.block, p) = m /\ IsPool(a) /\ Linked(a.block)
      /\ m \in Heads(a.block)
  <2>1. After(a.block, p) = After(s.block, p)
    BY <1>1, <1>2
  <2>2. p \in X1 /\ m \in X1
    BY DEF X1
  <2> QED
    BY <1>1, <1>2, <2>1, <2>2 DEF Kept
<1>5. Merged(a, X1, c, p, m)
  BY <1>2, <1>4, KeptMerge
<1>6. Merges(a.block, c.block, p, m)
  BY <1>4, MergeMerges
<1> HIDE DEF c, X2
<1>7. /\ Kept(c, X2) /\ SameLists(a, c) /\ c.cached = a.cached /\ Tagged(c.block)
      /\ Heads(c.block) = Heads(a.block) \ {m} /\ FreeIn(c.block) = FreeIn(a.block) \ {m}
      /\ UsedIn(c.block) = UsedIn(a.block)
      /\ c.block[p].size = a.block[p].size + Header + a.block[m].size
      /\ \A k \in Heads(c.block) : k # p => c.block[k].size = a.block[k].size
      /\ After(c.block, p) = After(a.block, m)
      /\ \A k \in Heads(c.block) : k # p => After(c.block, k) = After(a.block, k)
  BY <1>2, <1>5 DEF Merged, X2
<1>8. p \in X2 /\ p \in Heads(c.block) /\ IsPool(c) /\ Linked(c.block)
  BY <1>1, <1>4, <1>7 DEF X2, Kept
<1>9. TakenAt(c, X2, d, p)
  BY <1>7, <1>8, KeptTake
<1>10. Marks(c.block, d.block, p) /\ d.block[p].used = TRUE
  BY <1>8, MarkMarks DEF Taken
<1> HIDE DEF d, X3
<1>11. /\ Kept(d, X3) /\ SameLists(c, d) /\ d.cached = c.cached /\ Tagged(d.block)
       /\ Heads(d.block) = Heads(c.block)
       /\ FreeIn(d.block) = FreeIn(c.block) \ {p} /\ UsedIn(d.block) = UsedIn(c.block) \cup {p}
       /\ \A k \in DOMAIN c.block : /\ d.block[k].size = c.block[k].size
                                    /\ After(d.block, k) = After(c.block, k)
  BY <1>7, <1>9 DEF TakenAt, X3
<1> HIDE DEF last, z
<1>12. X3 = X \ ({p} \cup {m})
  BY <1>1 DEF X1, X2, X3
<1>13. SameLists(s, d) /\ d.cached = s.cached
  BY <1>2, <1>7, <1>11 DEF SameLists
<1>14. /\ Heads(d.block) = Heads(s.block) \ {m}
       /\ FreeIn(d.block) = FreeIn(s.block) \ ({p} \cup {m})
       /\ UsedIn(d.block) = (UsedIn(s.block) \ {m}) \cup {p}
  BY <1>1, <1>2, <1>7, <1>11
<1>15. Heads(c.block) \subseteq DOMAIN c.block /\ Heads(s.block) \subseteq DOMAIN s.block
  BY DEF Heads
<1>16. \A k \in Heads(s.block) \ {m} : k # p => /\ d.block[k].size = s.block[k].size
                                                /\ After(d.block, k) = After(s.block, k)
  BY <1>2, <1>7, <1>11, <1>15
<1>17. After(d.block, p) = last /\ d.block[p].size = z
  <2>1. After(d.block, p) = After(c.block, p) /\ d.block[p].size = c.block[p].size
    BY <1>8, <1>11, <1>15
  <2>2. After(a.block, m) = last /\ a.block[m].size = s.block[m].size /\ a.block[p].size = s.block[p].size
    BY <1>1, <1>2 DEF last
  <2> QED
    BY <1>7, <2>1, <2>2 DEF z
<1>18. Absorbs(s.block, d.block, p, {m}, last, z, p)
  <2>1. DOMAIN a.block = DOMAIN s.block /\ DOMAIN c.block = DOMAIN a.block \ {m} /\ DOMAIN d.block = DOMAIN c.block
    BY <1>3, <1>6, <1>10 DEF Marks, Merges
  <2>2. After(a.block, m) = last
    BY <1>1, <1>2 DEF last
  <2>3. ASSUME NEW k \in DOMAIN s.block \ {m}
        PROVE  /\ d.block[k] = [prev |-> d.block[k].prev, size |-> d.block[k].size, used |-> d.block[k].used]
               /\ d.block[k].prev = IF k = last THEN p ELSE s.block[k].prev
               /\ d.block[k].size = IF k = p THEN z ELSE s.block[k].size
               /\ k # p => d.block[k].used = s.block[k].used
    <3>1. k \in DOMAIN a.block \ {m} /\ k \in DOMAIN c.block /\ k \in DOMAIN s.block /\ k # m
      BY <2>1
    <3>2. /\ a.block[k].prev = s.block[k].prev /\ a.block[k].size = s.block[k].size
          /\ a.block[k].used = s.block[k].used
      BY <1>3, <3>1 DEF Marks
    <3>3. c.block[k] = [prev |-> IF k = After(a.block, m) THEN p ELSE a.block[k].prev,
                size |-> IF k = p THEN a.block[p].size + Header + a.block[m].size ELSE a.block[k].size,
                used |-> a.block[k].used]
      BY <1>6, <3>1 DEF Merges
    <3>4. /\ c.block[k].prev = IF k = last THEN p ELSE a.block[k].prev
          /\ k # p => c.block[k].size = a.block[k].size
          /\ c.block[k].used = a.block[k].used
      BY <2>2, <3>3
    <3>5. /\ d.block[k] = [prev |-> c.block[k].prev, size |-> c.block[k].size, used |-> d.block[k].used]
          /\ d.block[k].prev = c.block[k].prev /\ d.block[k].size = c.block[k].size
          /\ k # p => d.block[k].used = c.block[k].used
      BY <1>10, <3>1 DEF Marks
    <3> QED
      BY <1>17, <3>2, <3>4, <3>5
  <2> QED
    BY <1>10, <2>1, <2>3 DEF Absorbs
<1>19. Absorbed(s, X, d, p, {m}, last, z)
  BY <1>11, <1>12, <1>13, <1>14, <1>16, <1>17, <1>18 DEF Absorbed
<1> QED
  BY <1>19 DEF last, z

-----------------------------------------------------------------------------
\* A free block takes in the used one behind it and the free one behind that.
LEMMA AbsorbTwo ==
  ASSUME NEW s, NEW X, Kept(s, X), Tagged(s.block), NEW m \in UsedIn(s.block), NEW p \in X, NEW n \in X,
         After(s.block, p) = m, After(s.block, m) = n, p # n
  PROVE  \E d : Absorbed(s, X, d, p, {m, n}, After(s.block, n),
                         s.block[p].size + Header + (s.block[m].size + Header + s.block[n].size))
<1> DEFINE b == Merge(s, m, n)
           X1 == X \ {n}
           last == After(s.block, n)
           zm == s.block[m].size + Header + s.block[n].size
           z == s.block[p].size + Header + zm
<1>1. /\ m \in Heads(s.block) /\ s.block[m].used /\ IsPool(s) /\ Linked(s.block)
      /\ n \in Heads(s.block) /\ m # n /\ p # m /\ p \in Heads(s.block) /\ p \notin UsedIn(s.block)
      /\ n \notin UsedIn(s.block)
  BY KeptBlocks
<1>2. Merged(s, X, b, m, n)
  BY <1>1, KeptMerge
<1>3. Merges(s.block, b.block, m, n)
  BY <1>1, MergeMerges
<1> HIDE DEF b, X1
<1>4. /\ Kept(b, X1) /\ SameLists(s, b) /\ b.cached = s.cached /\ Tagged(b.block)
      /\ Heads(b.block) = Heads(s.block) \ {n} /\ FreeIn(b.block) = FreeIn(s.block) \ {n}
      /\ UsedIn(b.block) = UsedIn(s.block)
      /\ b.block[m].size = zm
      /\ \A k \in Heads(b.block) : k # m => b.block[k].size = s.block[k].size
      /\ After(b.block, m) = last
      /\ \A k \in Heads(b.block) : k # m => After(b.block, k) = After(s.block, k)
  BY <1>2 DEF Merged, X1
<1>5. /\ p \in X1 /\ p \in Heads(b.block) /\ m \in UsedIn(b.block) /\ After(b.block, p) = m
      /\ b.block[p].size = s.block[p].size
  BY <1>1, <1>4 DEF X1
<1> HIDE DEF last, zm
<1>6. PICK d : Absorbed(b, X1, d, p, {m}, After(b.block, m), b.block[p].size + Header + b.block[m].size)
  BY <1>4, <1>5, AbsorbOne
<1>7. Absorbed(b, X1, d, p, {m}, last, z)
  BY <1>4, <1>5, <1>6
<1> HIDE DEF z
<1>8. /\ Kept(d, X1 \ ({p} \cup {m})) /\ Tagged(d.block) /\ SameLists(b, d) /\ d.cached = b.cached
      /\ Heads(d.block) = Heads(b.block) \ {m}
      /\ FreeIn(d.block) = FreeIn(b.block) \ ({p} \cup {m})
      /\ UsedIn(d.block) = (UsedIn(b.block) \ {m}) \cup {p}
      /\ \A k \in Heads(b.block) \ {m} : k # p => /\ d.block[k].size = b.block[k].size
                                                  /\ After(d.block, k) = After(b.block, k)
      /\ After(d.block, p) = last /\ d.block[p].size = z
      /\ Absorbs(b.block, d.block, p, {m}, last, z, p)
  BY <1>7 DEF Absorbed
<1>9. X1 \ ({p} \cup {m}) = X \ ({p} \cup {m, n})
  BY DEF X1
<1>10. SameLists(s, d) /\ d.cached = s.cached
  BY <1>4, <1>8 DEF SameLists
<1>11. /\ Heads(d.block) = Heads(s.block) \ {m, n}
       /\ FreeIn(d.block) = FreeIn(s.block) \ ({p} \cup {m, n})
       /\ UsedIn(d.block) = (UsedIn(s.block) \ {m, n}) \cup {p}
  BY <1>1, <1>4, <1>8
<1>12. \A k \in Heads(s.block) \ {m, n} : k # p => /\ d.block[k].size = s.block[k].size
                                                   /\ After(d.block, k) = After(s.block, k)
  BY <1>4, <1>8
<1>13. Absorbs(s.block, d.block, p, {m, n}, last, z, p)
  <2>1. DOMAIN b.block = DOMAIN s.block \ {n} /\ DOMAIN d.block = DOMAIN b.block \ {m}
    BY <1>3, <1>8 DEF Merges, Absorbs
  <2>2. DOMAIN d.block = DOMAIN s.block \ {m, n}
    BY <2>1
  <2>3. ASSUME NEW k \in DOMAIN s.block \ {m, n}
        PROVE  /\ d.block[k] = [prev |-> d.block[k].prev, size |-> d.block[k].size, used |-> d.block[k].used]
               /\ d.block[k].prev = IF k = last THEN p ELSE s.block[k].prev
               /\ d.block[k].size = IF k = p THEN z ELSE s.block[k].size
               /\ k # p => d.block[k].used = s.block[k].used
    <3>1. k \in DOMAIN s.block \ {n} /\ k \in DOMAIN b.block \ {m} /\ k # m
      BY <2>1
    <3>2. b.block[k] = [prev |-> IF k = last THEN m ELSE s.block[k].prev,
                        size |-> IF k = m THEN zm ELSE s.block[k].size,
                        used |-> s.block[k].used]
      BY <1>3, <3>1 DEF Merges, last, zm
    <3>3. /\ k # last => b.block[k].prev = s.block[k].prev
          /\ b.block[k].size = s.block[k].size
          /\ b.block[k].used = s.block[k].used
      BY <3>1, <3>2
    <3>4. /\ d.block[k] = [prev |-> d.block[k].prev, size |-> d.block[k].size, used |-> d.block[k].used]
          /\ d.block[k].prev = IF k = last THEN p ELSE b.block[k].prev
          /\ d.block[k].size = IF k = p THEN z ELSE b.block[k].size
          /\ k # p => d.block[k].used = b.block[k].used
      BY <1>8, <3>1 DEF Absorbs
    <3> QED
      BY <3>3, <3>4
  <2>4. d.block[p].used = TRUE
    BY <1>8 DEF Absorbs
  <2> QED
    BY <2>2, <2>3, <2>4 DEF Absorbs
<1>14. Absorbed(s, X, d, p, {m, n}, last, z)
  BY <1>8, <1>9, <1>10, <1>11, <1>12, <1>13 DEF Absorbed
<1> QED
  BY <1>14 DEF z, zm, last

\* The two ways to write that: blocks merged, or headers written and removed.  The second may
\* leave a wrong tag at the last block.
LEMMA AbsorbRetags ==
  ASSUME NEW B, NEW C, NEW D, NEW p, NEW gone, NEW last, NEW z, NEW tag, Linked(B), Linked(D),
         Absorbs(B, D, p, gone, last, z, p), Absorbs(B, C, p, gone, last, z, tag),
         p \in DOMAIN B \ gone, tag \in DOMAIN B
  PROVE  Retags(D, C, last) /\ (tag = p /\ last \in DOMAIN D => C[last].prev = D[last].prev)
<1>1. DOMAIN C = DOMAIN B \ gone /\ DOMAIN D = DOMAIN B \ gone
  BY DEF Absorbs
<1>2. tag \in Addresses /\ tag # Null /\ p # Null
  BY BlockTyped DEF Null
<1>3. ASSUME NEW k \in DOMAIN D
      PROVE  /\ C[k] \in Block /\ C[k].size = D[k].size /\ C[k].used = D[k].used
             /\ k # last => C[k].prev = D[k].prev
             /\ k = last => C[k].prev = tag /\ D[k].prev = p
  <2>1. k \in DOMAIN B \ gone
    BY <1>1
  <2>2. /\ C[k] = [prev |-> C[k].prev, size |-> C[k].size, used |-> C[k].used]
        /\ C[k].prev = IF k = last THEN tag ELSE B[k].prev
        /\ C[k].size = IF k = p THEN z ELSE B[k].size
        /\ k # p => C[k].used = B[k].used
        /\ C[p].used = TRUE
    BY <2>1 DEF Absorbs
  <2>3. /\ D[k].prev = IF k = last THEN p ELSE B[k].prev
        /\ D[k].size = IF k = p THEN z ELSE B[k].size
        /\ k # p => D[k].used = B[k].used
        /\ D[p].used = TRUE
    BY <2>1 DEF Absorbs
  <2>4. C[k].size = D[k].size /\ C[k].used = D[k].used
    BY <2>2, <2>3
  <2>5. /\ k # last => C[k].prev = D[k].prev
        /\ k = last => C[k].prev = tag /\ D[k].prev = p
    BY <2>2, <2>3
  <2>6. D[k].prev \in {Null} \cup Addresses /\ D[k].size \in Nat /\ D[k].used \in BOOLEAN
    BY BlockTyped
  <2>7. C[k].prev \in {Null} \cup Addresses /\ C[k].size \in Nat /\ C[k].used \in BOOLEAN
    BY <1>2, <2>4, <2>5, <2>6
  <2>8. C[k] \in Block
    BY <2>2, <2>7 DEF Block
  <2> QED
    BY <2>4, <2>5, <2>8
<1> QED
  BY <1>1, <1>2, <1>3 DEF Retags

\* The headers as MovedBack writes them.
Written(s, p, gone, last, z, tag) ==
  LET grown == [s.block EXCEPT ![p].size = z, ![p].used = TRUE, ![last].prev = tag]
  IN [s EXCEPT !.block = Restrict(grown, DOMAIN grown \ gone)]

\* They are what Absorbs says.
LEMMA WrittenAbsorbs ==
  ASSUME NEW s, IsPool(s), Linked(s.block), NEW p \in DOMAIN s.block, NEW last \in DOMAIN s.block, p # last,
         NEW gone, p \notin gone, NEW z, NEW tag
  PROVE  LET t == Written(s, p, gone, last, z, tag)
         IN /\ IsPool(t) /\ SameLists(s, t) /\ t.cached = s.cached
            /\ Absorbs(s.block, t.block, p, gone, last, z, tag)
<1> DEFINE B == s.block
           grown == [B EXCEPT ![p].size = z, ![p].used = TRUE, ![last].prev = tag]
           C == Restrict(grown, DOMAIN grown \ gone)
           t == Written(s, p, gone, last, z, tag)
<1>1. t = [s EXCEPT !.block = C]
  BY DEF Written
<1>2. DOMAIN grown = DOMAIN B
  OBVIOUS
<1>3. \A k \in DOMAIN B : B[k] = [prev |-> B[k].prev, size |-> B[k].size, used |-> B[k].used]
  BY BlockTyped
<1>4. ASSUME NEW k \in DOMAIN B
      PROVE  /\ grown[k] = [prev |-> grown[k].prev, size |-> grown[k].size, used |-> grown[k].used]
             /\ grown[k].prev = IF k = last THEN tag ELSE B[k].prev
             /\ grown[k].size = IF k = p THEN z ELSE B[k].size
             /\ k # p => grown[k].used = B[k].used
             /\ k = p => grown[k].used = TRUE
  <2>1. B[k] = [prev |-> B[k].prev, size |-> B[k].size, used |-> B[k].used]
    BY <1>3
  <2>2. CASE k = p
    <3>1. grown[k] = [B[k] EXCEPT !.size = z, !.used = TRUE]
      BY <2>2
    <3>2. grown[k] = [prev |-> B[k].prev, size |-> z, used |-> TRUE]
      <4> HIDE DEF grown, B
      <4> QED
        BY <2>1, <3>1
    <3> HIDE DEF grown, B
    <3> QED
      BY <2>2, <3>2
  <2>3. CASE k = last
    <3>1. grown[k] = [B[k] EXCEPT !.prev = tag]
      BY <2>3
    <3>2. grown[k] = [prev |-> tag, size |-> B[k].size, used |-> B[k].used]
      <4> HIDE DEF grown, B
      <4> QED
        BY <2>1, <3>1
    <3> HIDE DEF grown, B
    <3> QED
      BY <2>3, <3>2
  <2>4. CASE k # p /\ k # last
    <3>1. grown[k] = B[k]
      BY <2>4
    <3> HIDE DEF grown, B
    <3> QED
      BY <2>1, <2>4, <3>1
  <2> QED
    BY <2>2, <2>3, <2>4
<1> HIDE DEF grown
<1>5. C = [k \in DOMAIN B \ gone |-> grown[k]]
  BY <1>2 DEF Restrict
<1> HIDE DEF C, t
<1>6. DOMAIN C = DOMAIN B \ gone /\ \A k \in DOMAIN B \ gone : C[k] = grown[k]
  BY <1>5
<1>7. C = [k \in DOMAIN C |-> C[k]]
  BY <1>5
<1>8. Absorbs(B, C, p, gone, last, z, tag)
  BY <1>4, <1>6 DEF Absorbs
<1>9. /\ t.block = C /\ t.cached = s.cached /\ t.mr = s.mr /\ t.small = s.small /\ t.tree = s.tree
      /\ t.mapped = s.mapped
      /\ t = [block |-> t.block, cached |-> t.cached, mr |-> t.mr, small |-> t.small,
              tree |-> t.tree, mapped |-> t.mapped]
  <2> HIDE DEF B
  <2>1. s = [block |-> s.block, cached |-> s.cached, mr |-> s.mr, small |-> s.small,
             tree |-> s.tree, mapped |-> s.mapped]
    BY DEF IsPool
  <2> QED
    BY <1>1, <2>1
<1>10. IsPool(t) /\ SameLists(s, t)
  BY <1>7, <1>9 DEF IsPool, SameLists
<1> QED
  BY <1>8, <1>9, <1>10 DEF t

-----------------------------------------------------------------------------
\* Block m moves back to p, where the blocks of gone become part of it: d is the pool with the
\* tag of the last block right.
LEMMA MovedResizes ==
  ASSUME NEW s, Kept(s, Loose(s)), Tagged(s.block), Apart(s.block, {}), NEW m \in UsedIn(s.block),
         NEW p \in FreeIn(s.block), s.block[m].prev = p,
         NEW t0, t0.block = s.block, NEW X, Kept(t0, X), NEW gone, X \ ({p} \cup gone) = Loose(t0),
         NEW last \in DOMAIN s.block, last \notin FreeIn(s.block), p # last, p \notin gone, m \in gone,
         UsedIn(s.block) \ gone = UsedIn(s.block) \ {m},
         NEW z \in Nat, NEW sz \in Nat \ {0}, z >= sz,
         NEW tag \in DOMAIN s.block, tag = p \/ s.cached = After(s.block, m),
         NEW d, Absorbed(t0, X, d, p, gone, last, z)
  PROVE  Resized(s, SplitOff(Written(t0, p, gone, last, z, tag), p, sz), m, p, sz)
<1> DEFINE t == Written(t0, p, gone, last, z, tag)
           w == SplitOff(t, p, sz)
<1>1. /\ p \in Heads(s.block) /\ p \in DOMAIN s.block /\ p # m /\ p \notin UsedIn(s.block) /\ p # Null
      /\ m \in Heads(s.block) /\ last \notin FreeIn(s.block)
  <2>1. /\ FreeIn(s.block) \cap UsedIn(s.block) = {} /\ Null \notin DOMAIN s.block
        /\ Heads(s.block) = FreeIn(s.block) \cup UsedIn(s.block) /\ Heads(s.block) \subseteq DOMAIN s.block
    BY KeptBlocks
  <2> QED
    BY <2>1
<1>2. IsPool(t0) /\ Linked(s.block)
  BY DEF Kept
<1>3. /\ IsPool(t) /\ SameLists(t0, t) /\ t.cached = t0.cached
      /\ Absorbs(s.block, t.block, p, gone, last, z, tag)
  BY <1>1, <1>2, WrittenAbsorbs
<1> HIDE DEF t
<1>4. /\ Kept(d, Loose(t0)) /\ Tagged(d.block) /\ SameLists(t0, d) /\ d.cached = t0.cached
      /\ Heads(d.block) = Heads(s.block) \ gone
      /\ FreeIn(d.block) = FreeIn(s.block) \ ({p} \cup gone)
      /\ UsedIn(d.block) = (UsedIn(s.block) \ gone) \cup {p}
      /\ \A k \in Heads(s.block) \ gone : k # p => /\ d.block[k].size = s.block[k].size
                                                   /\ After(d.block, k) = After(s.block, k)
      /\ After(d.block, p) = last /\ d.block[p].size = z
      /\ Absorbs(s.block, d.block, p, gone, last, z, p)
  BY DEF Absorbed
<1>5. IsPool(d) /\ Linked(d.block)
  BY <1>4 DEF Kept
<1>6. Retags(d.block, t.block, last) /\ (tag = p /\ last \in DOMAIN d.block => t.block[last].prev = d.block[last].prev)
  <2>1. p \in DOMAIN s.block \ gone
    BY <1>1
  <2> QED
    BY <1>2, <1>3, <1>4, <1>5, <2>1, AbsorbRetags
<1>7. SameLists(d, t)
  BY <1>3, <1>4 DEF SameLists
<1>8. Kept(t, Loose(t0))
  BY <1>3, <1>4, <1>6, <1>7, RetagKeeps
<1>9. Loose(t) = Loose(t0)
  BY <1>3 DEF Loose
<1>10. /\ Heads(t.block) = Heads(d.block) /\ FreeIn(t.block) = FreeIn(d.block) /\ UsedIn(t.block) = UsedIn(d.block)
       /\ \A k \in DOMAIN d.block : t.block[k].size = d.block[k].size /\ After(t.block, k) = After(d.block, k)
       /\ TaggedBut(t.block, last)
       /\ tag = p => Tagged(t.block)
  BY <1>4, <1>5, <1>6, RetagBlocks
<1>11. Heads(d.block) \subseteq DOMAIN d.block /\ FreeIn(d.block) \subseteq Heads(d.block)
       /\ FreeIn(s.block) \subseteq Heads(s.block) /\ UsedIn(s.block) \subseteq Heads(s.block)
  BY DEF Heads, FreeIn, UsedIn
<1>12. p \in UsedIn(t.block) /\ After(t.block, p) = last /\ t.block[p].size = z /\ p \in DOMAIN d.block
  BY <1>1, <1>4, <1>10, <1>11
<1>13. Apart(t.block, {})
  <2> SUFFICES ASSUME NEW k \in FreeIn(t.block), After(t.block, k) \in FreeIn(t.block)
               PROVE  FALSE
    BY DEF Apart
  <2>1. k \in FreeIn(s.block) /\ k # p /\ k \in Heads(s.block) \ gone /\ k \in DOMAIN d.block
    BY <1>4, <1>10, <1>11
  <2>2. After(t.block, k) = After(s.block, k)
    BY <1>4, <1>10, <2>1
  <2>3. After(s.block, k) \in FreeIn(s.block)
    BY <1>4, <1>10, <2>2
  <2> QED
    BY <2>1, <2>3 DEF Apart
<1>14. last \notin FreeIn(t.block)
  BY <1>4, <1>10
<1>15. SplitOffed(t, w, p, sz)
  BY <1>8, <1>9, <1>10, <1>12, <1>13, <1>14, SplitOffKeeps
<1> HIDE DEF w
<1>16. /\ Kept(w, Loose(w)) /\ Apart(w.block, {})
       /\ UsedSame(t.block, w.block, {p}) /\ UsedIn(w.block) = UsedIn(t.block)
       /\ w.block[p].size >= sz
       /\ Tagged(t.block) => Tagged(w.block)
  BY <1>15 DEF SplitOffed
<1>17. UsedIn(w.block) = (UsedIn(s.block) \ {m}) \cup {p}
  BY <1>4, <1>10, <1>16
<1>18. UsedSame(s.block, w.block, {m, p})
  <2> SUFFICES ASSUME NEW k, k # m, k # p
               PROVE  /\ k \in UsedIn(w.block) <=> k \in UsedIn(s.block)
                      /\ k \in UsedIn(s.block) => w.block[k].size = s.block[k].size
    BY DEF UsedSame
  <2>1. k \in UsedIn(w.block) <=> k \in UsedIn(s.block)
    BY <1>17
  <2>2. ASSUME k \in UsedIn(s.block) PROVE w.block[k].size = s.block[k].size
    <3>1. k \in Heads(s.block) \ gone /\ k \in UsedIn(t.block) /\ k \in DOMAIN d.block
      BY <1>4, <1>10, <1>11, <2>2
    <3>2. w.block[k].size = t.block[k].size
      BY <1>16, <3>1 DEF UsedSame
    <3> QED
      BY <1>4, <1>10, <3>1, <3>2
  <2> QED
    BY <2>1, <2>2
<1>19. Tagged(w.block) \/ (s.cached = After(s.block, m) /\ p = s.block[m].prev /\ p # m)
  BY <1>1, <1>10, <1>16
<1>20. Resized(s, w, m, p, sz)
  BY <1>1, <1>16, <1>17, <1>18, <1>19 DEF Resized
<1> QED
  BY <1>20 DEF w, t

-----------------------------------------------------------------------------
\* A used block with a free one before it, and the sizes of the three in question.
Movable(s, m, p, n) ==
  /\ p \in FreeIn(s.block) /\ After(s.block, p) = m /\ s.block[m].prev = p /\ n = After(s.block, m)
  /\ p # m /\ p # n /\ m # n /\ n \in DOMAIN s.block
  /\ s.block[p].size \in Nat /\ s.block[m].size \in Nat /\ s.block[n].size \in Nat
  /\ (s.block[n].used <=> n \notin FreeIn(s.block))

\* CanMoveBack finds one.
LEMMA CanMoveBackMovable ==
  ASSUME NEW s, Kept(s, Loose(s)), Tagged(s.block), NEW m \in UsedIn(s.block), NEW sz, CanMoveBack(s, m, sz)
  PROVE  Movable(s, m, s.block[m].prev, After(s.block, m))
<1> DEFINE p == s.block[m].prev
           n == After(s.block, m)
<1>1. m \in Heads(s.block) /\ Linked(s.block) /\ m \in DOMAIN s.block /\ n \in DOMAIN s.block /\ m < n
      /\ m \in Nat /\ n \in Nat
  BY KeptBlocks
<1>2. p # Null /\ ~s.block[p].used
  BY DEF CanMoveBack, Prev, IsUsed
<1>3. p \in Heads(s.block) /\ After(s.block, p) = m
  BY <1>1, <1>2 DEF Tagged
<1>4. p \in FreeIn(s.block) /\ p < m /\ p \in Nat /\ p \in DOMAIN s.block
  BY <1>2, <1>3, KeptBlocks DEF FreeIn
<1>5. s.block[p].size \in Nat /\ s.block[m].size \in Nat /\ s.block[n].size \in Nat
  BY <1>1, <1>4, BlockTyped
<1>6. s.block[n].used <=> n \notin FreeIn(s.block)
  BY <1>1, KeptBlocks
<1> HIDE DEF p, n
<1>7. p # m /\ p # n /\ m # n
  BY <1>1, <1>4
<1>8. s.block[m].prev = p /\ n = After(s.block, m)
  BY DEF p, n
<1>9. Movable(s, m, p, n)
  BY <1>1, <1>3, <1>4, <1>5, <1>6, <1>7, <1>8 DEF Movable
<1> QED
  BY <1>9 DEF p, n

\* Moved back, with a used block behind it.
LEMMA MovedOne ==
  ASSUME NEW s, Kept(s, Loose(s)), Tagged(s.block), Apart(s.block, {}), NEW m \in UsedIn(s.block),
         NEW sz \in Nat \ {0}, NEW p, NEW n, Movable(s, m, p, n), n \notin FreeIn(s.block),
         s.block[p].size + Header + s.block[m].size >= sz
  PROVE  Resized(s, SplitOff(Written(Uncache(s, p), p, {m}, n, s.block[p].size + Header + s.block[m].size, p),
                             p, sz), m, p, sz)
<1> DEFINE t0 == Uncache(s, p)
           z == s.block[p].size + Header + s.block[m].size
           Y == {}
           X == Loose(t0) \cup {p}
           L == Loose(s)
           gone == {m}
<1>1. /\ p \in FreeIn(s.block) /\ After(s.block, p) = m /\ s.block[m].prev = p /\ n = After(s.block, m)
      /\ p # m /\ p # n /\ m # n /\ n \in DOMAIN s.block
      /\ s.block[p].size \in Nat /\ s.block[m].size \in Nat
  BY DEF Movable
<1>2. L = L \cup Y /\ p \notin Y /\ s.cached \notin Y
  OBVIOUS
<1>3. UncachedAt(s, Y, t0, p)
  <2> HIDE DEF t0, Y
  <2> QED
    BY <1>1, <1>2, UncacheKeeps DEF t0
<1>4. z \in Nat /\ z >= sz
  BY <1>1, SizesTyped
<1> HIDE DEF t0, z
<1>5. /\ Kept(t0, X) /\ t0.block = s.block /\ p \notin Loose(t0)
  <2>1. Loose(t0) \cup (Y \cup {p}) = X
    OBVIOUS
  <2> HIDE DEF X, Y
  <2> QED
    BY <1>3, <2>1 DEF UncachedAt
<1>6. m \notin X
  <2>1. X \subseteq FreeIn(t0.block) /\ FreeIn(t0.block) \cap UsedIn(t0.block) = {}
    <3> HIDE DEF X
    <3> QED
      BY <1>5, KeptBlocks
  <2> QED
    BY <1>5, <2>1
<1>7. p \in X /\ X \ ({p} \cup gone) = Loose(t0) /\ p \notin gone /\ m \in gone
      /\ UsedIn(s.block) \ gone = UsedIn(s.block) \ {m}
  BY <1>1, <1>5, <1>6
<1>8. PICK d : Absorbed(t0, X, d, p, {m}, n, z)
  <2> HIDE DEF X
  <2>1. \E d : Absorbed(t0, X, d, p, {m}, After(t0.block, m),
                        t0.block[p].size + Header + t0.block[m].size)
    BY <1>1, <1>5, <1>7, AbsorbOne
  <2> QED
    BY <1>1, <1>5, <2>1 DEF z
<1>9. p \in DOMAIN s.block
  BY <1>1, KeptBlocks
<1>10. Absorbed(t0, X, d, p, gone, n, z)
  BY <1>8
<1> HIDE DEF X, gone
<1>11. Resized(s, SplitOff(Written(t0, p, gone, n, z, p), p, sz), m, p, sz)
  BY <1>1, <1>4, <1>5, <1>7, <1>9, <1>10, MovedResizes
<1> QED
  BY <1>11 DEF t0, z, gone

\* Moved back, with a free block behind it, which goes into it too.
LEMMA MovedTwo ==
  ASSUME NEW s, Kept(s, Loose(s)), Tagged(s.block), Apart(s.block, {}), NEW m \in UsedIn(s.block),
         NEW sz \in Nat \ {0}, NEW p, NEW n, Movable(s, m, p, n), n \in FreeIn(s.block),
         s.block[p].size + Header + (s.block[m].size + Header + s.block[n].size) >= sz,
         NEW tag \in {p, n}, tag = n => s.cached = n
  PROVE  Resized(s, SplitOff(Written(Uncache(Uncache(s, n), p), p, {m, n}, After(s.block, n),
                    s.block[p].size + Header + (s.block[m].size + Header + s.block[n].size), tag),
                    p, sz), m, p, sz)
<1> DEFINE s0 == Uncache(s, n)
           t0 == Uncache(s0, p)
           z == s.block[p].size + Header + (s.block[m].size + Header + s.block[n].size)
           Y == {}
           N == {n}
           X0 == Loose(s0) \cup N
           X == Loose(t0) \cup {n, p}
           L == Loose(s)
           gone == {m, n}
           last == After(s.block, n)
<1>1. /\ p \in FreeIn(s.block) /\ After(s.block, p) = m /\ s.block[m].prev = p /\ n = After(s.block, m)
      /\ p # m /\ p # n /\ m # n /\ n \in DOMAIN s.block
      /\ s.block[p].size \in Nat /\ s.block[m].size \in Nat /\ s.block[n].size \in Nat
  BY DEF Movable
<1>2. L = L \cup Y /\ n \notin Y /\ s.cached \notin Y
  OBVIOUS
<1>3. UncachedAt(s, Y, s0, n)
  <2> HIDE DEF s0, Y
  <2> QED
    BY <1>2, UncacheKeeps DEF s0
<1>4. z \in Nat /\ z >= sz
  BY <1>1, SizesTyped
<1> HIDE DEF s0, z
<1>5. Kept(s0, X0) /\ s0.block = s.block /\ n \notin Loose(s0)
  <2>1. Loose(s0) \cup (Y \cup {n}) = X0
    OBVIOUS
  <2> HIDE DEF X0, Y
  <2> QED
    BY <1>3, <2>1 DEF UncachedAt
<1>6. p \notin N /\ s0.cached \notin N /\ n # Null
  <2>1. n # Null
    BY KeptBlocks DEF FreeIn, Heads
  <2> QED
    BY <1>1, <1>5, <2>1 DEF Loose
<1>7. UncachedAt(s0, N, t0, p)
  <2>1. X0 = Loose(s0) \cup N /\ p \in FreeIn(s0.block)
    BY <1>1, <1>5
  <2> HIDE DEF t0, N, X0
  <2> QED
    BY <1>5, <1>6, <2>1, UncacheKeeps DEF t0
<1> HIDE DEF t0
<1>8. Kept(t0, X) /\ t0.block = s.block /\ p \notin Loose(t0) /\ t0.cached \in {Null, s0.cached}
  <2>1. Loose(t0) \cup (N \cup {p}) = X
    OBVIOUS
  <2> HIDE DEF X, N
  <2> QED
    BY <1>5, <1>7, <2>1 DEF UncachedAt
<1>9. m \notin X /\ n \notin Loose(t0)
  <2>1. X \subseteq FreeIn(t0.block) /\ FreeIn(t0.block) \cap UsedIn(t0.block) = {}
    <3> HIDE DEF X
    <3> QED
      BY <1>8, KeptBlocks
  <2>2. n \notin Loose(t0)
    BY <1>6, <1>8 DEF Loose
  <2> QED
    BY <1>8, <2>1, <2>2
<1>10. n \notin UsedIn(s.block) /\ last \in DOMAIN s.block /\ last \notin FreeIn(s.block) /\ p # last
       /\ p \in DOMAIN s.block
  <2>1. last \notin FreeIn(s.block)
    BY DEF Apart
  <2>2. FreeIn(s.block) \subseteq Heads(s.block)
    BY DEF FreeIn
  <2>3. n \notin UsedIn(s.block) /\ last \in DOMAIN s.block /\ p \in DOMAIN s.block
    BY <1>1, <2>2, KeptBlocks
  <2> QED
    BY <1>1, <2>1, <2>3
<1>11. p \in X /\ n \in X /\ X \ ({p} \cup gone) = Loose(t0) /\ p \notin gone /\ m \in gone
       /\ UsedIn(s.block) \ gone = UsedIn(s.block) \ {m} /\ tag \in DOMAIN s.block
       /\ (tag = p \/ s.cached = After(s.block, m))
  BY <1>1, <1>8, <1>9, <1>10
<1> HIDE DEF last
<1>12. PICK d : Absorbed(t0, X, d, p, {m, n}, last, z)
  <2> HIDE DEF X
  <2>1. After(t0.block, p) = m /\ After(t0.block, m) = n /\ m \in UsedIn(t0.block) /\ Tagged(t0.block)
    BY <1>1, <1>8
  <2>2. \E d : Absorbed(t0, X, d, p, {m, n}, After(t0.block, n),
                        t0.block[p].size + Header + (t0.block[m].size + Header + t0.block[n].size))
    BY <1>1, <1>8, <1>11, <2>1, AbsorbTwo
  <2> QED
    BY <1>8, <2>2 DEF z, last
<1>13. Absorbed(t0, X, d, p, gone, last, z)
  BY <1>12
<1> HIDE DEF X, gone
<1>14. Resized(s, SplitOff(Written(t0, p, gone, last, z, tag), p, sz), m, p, sz)
  BY <1>1, <1>4, <1>8, <1>10, <1>11, <1>13, MovedResizes
<1> QED
  BY <1>14 DEF s0, t0, z, gone, last

-----------------------------------------------------------------------------
\* Moved back.
LEMMA MovedBackResizes ==
  ASSUME NEW s, Kept(s, Loose(s)), Tagged(s.block), Apart(s.block, {}), NEW m \in UsedIn(s.block),
         NEW sz \in Nat \ {0}, CanMoveBack(s, m, sz)
  PROVE  Resized(s, MovedBack(s, m, sz), m, Prev(s, m), sz)
<1> DEFINE p == s.block[m].prev
           n == After(s.block, m)
           z1 == s.block[p].size + Header + s.block[m].size
           z2 == s.block[p].size + Header + (s.block[m].size + Header + s.block[n].size)
           tag == IF s.cached = n THEN n ELSE p
<1>1. Movable(s, m, p, n)
  BY CanMoveBackMovable
<1>2. /\ Prev(s, m) = p /\ NextOf(s, m) = n /\ Size(s, m) = s.block[m].size /\ Size(s, p) = s.block[p].size
      /\ IsUsed(s, n) = s.block[n].used /\ Size(s, n) = s.block[n].size
      /\ NextOf(s, n) = After(s.block, n)
  BY PoolOperators
<1>3. s.block[p].size \in Nat /\ s.block[m].size \in Nat /\ s.block[n].size \in Nat /\ Header \in Nat
      /\ (s.block[n].used <=> n \notin FreeIn(s.block)) /\ m \in DOMAIN s.block /\ p # n
  BY <1>1, KeptBlocks, SizesTyped DEF Movable
<1>4. Size(s, p) + Size(s, m) + Header + Behind(s, m) >= sz
  BY <1>2 DEF CanMoveBack
<1>5. CASE s.block[n].used
  <2>1. Behind(s, m) = 0
    BY <1>2, <1>5 DEF Behind
  <2>2. z1 >= sz /\ s.block[p].size + s.block[m].size + Header + Behind(s, m) = z1
    BY <1>2, <1>3, <1>4, <2>1
  <2> DEFINE t0 == Uncache(s, p)
             w == Written(t0, p, {m}, n, z1, p)
  <2>3. t0.block = s.block
    <3>1. p \in FreeIn(s.block)
      BY <1>1 DEF Movable
    <3> DEFINE Y == {}
               L == Loose(s)
    <3>2. L = L \cup Y /\ p \notin Y /\ s.cached \notin Y
      OBVIOUS
    <3> HIDE DEF Y, p, t0
    <3>3. UncachedAt(s, Y, Uncache(s, p), p)
      BY <3>1, <3>2, UncacheKeeps
    <3> QED
      BY <3>3 DEF UncachedAt, t0
  <2>4. MovedBack(s, m, sz) = SplitOff(w, p, sz)
    <3> DEFINE z == s.block[p].size + s.block[m].size + Header + Behind(s, m)
               v == Written(t0, p, {m}, n, z, p)
    <3>1. t0.block[p].size = s.block[p].size
      BY <2>3
    <3>2. v = w
      BY <2>2
    <3>3. MovedBack(s, m, sz) = SplitOff(v, p, sz)
      <4> HIDE DEF p, n
      <4> QED
        BY <1>2, <1>5, <3>1 DEF MovedBack, Written
    <3> QED
      BY <3>2, <3>3
  <2>5. n \notin FreeIn(s.block)
    BY <1>3, <1>5
  <2> HIDE DEF p, n
  <2>6. Resized(s, SplitOff(w, p, sz), m, p, sz)
    BY <1>1, <2>2, <2>5, MovedOne
  <2> QED
    BY <1>2, <2>4, <2>6
<1>6. CASE ~s.block[n].used
  <2>1. Behind(s, m) = s.block[n].size + Header
    BY <1>2, <1>6 DEF Behind
  <2>2. z2 >= sz /\ s.block[p].size + s.block[m].size + Header + Behind(s, m) = z2
    BY <1>2, <1>3, <1>4, <2>1
  <2> DEFINE s0 == Uncache(s, n)
             t0 == Uncache(s0, p)
             last == After(s.block, n)
             w == Written(t0, p, {m, n}, last, z2, tag)
  <2>5. n \in FreeIn(s.block)
    BY <1>3, <1>6
  <2>3. t0.block = s.block
    <3>1. p \in FreeIn(s.block)
      BY <1>1 DEF Movable
    <3> DEFINE Y == {}
               L == Loose(s)
               N == {n}
               X0 == Loose(s0) \cup N
    <3>2. L = L \cup Y /\ n \notin Y /\ s.cached \notin Y
      OBVIOUS
    <3> HIDE DEF Y, p, s0, n
    <3>3. UncachedAt(s, Y, Uncache(s, n), n)
      BY <2>5, <3>2, UncacheKeeps
    <3>4. Kept(s0, X0) /\ s0.block = s.block /\ n \notin Loose(s0)
      <4>1. Loose(s0) \cup (Y \cup {n}) = X0
        BY DEF Y
      <4> HIDE DEF X0
      <4> QED
        BY <3>3, <4>1 DEF UncachedAt, s0
    <3>5. p \notin N /\ s0.cached \notin N
      <4>1. n # Null
        BY <2>5, KeptBlocks DEF FreeIn, Heads
      <4> QED
        BY <1>3, <3>4, <4>1 DEF Loose
    <3>6. X0 = Loose(s0) \cup N /\ p \in FreeIn(s0.block)
      BY <3>1, <3>4
    <3> HIDE DEF t0, N, X0
    <3>7. UncachedAt(s0, N, Uncache(s0, p), p)
      BY <3>4, <3>5, <3>6, UncacheKeeps
    <3> QED
      BY <3>4, <3>7 DEF UncachedAt, t0
  <2>4. MovedBack(s, m, sz) = SplitOff(w, p, sz)
    <3> DEFINE z == s.block[p].size + s.block[m].size + Header + Behind(s, m)
               v == Written(t0, p, {m, n}, last, z, tag)
    <3>1. t0.block[p].size = s.block[p].size
      BY <2>3
    <3>2. v = w
      BY <2>2
    <3>3. MovedBack(s, m, sz) = SplitOff(v, p, sz)
      <4> HIDE DEF p, n
      <4> QED
        BY <1>2, <1>6, <3>1 DEF MovedBack, Written
    <3> QED
      BY <3>2, <3>3
  <2>7. tag \in {p, n} /\ (tag = n => s.cached = n)
    BY <1>3
  <2> HIDE DEF p, n, tag
  <2>6. Resized(s, SplitOff(w, p, sz), m, p, sz)
    BY <1>1, <2>2, <2>5, <2>7, MovedTwo
  <2> QED
    BY <1>2, <2>4, <2>6
<1> QED
  BY <1>5, <1>6

\* Whatever tree_realloc does in place.
LEMMA InPlaceResizes ==
  ASSUME NEW s, Kept(s, Loose(s)), Tagged(s.block), Apart(s.block, {}), NEW m \in UsedIn(s.block),
         NEW sz \in Nat \ {0}, FitsInPlace(s, m, sz)
  PROVE  Resized(s, InPlace(s, m, sz).pool, m, InPlace(s, m, sz).at, sz)
<1> DEFINE n == After(s.block, m)
           o == InPlace(s, m, sz)
<1>1. m \in Heads(s.block) /\ Linked(s.block) /\ m \in DOMAIN s.block /\ n \in DOMAIN s.block
  BY KeptBlocks
<1>2. s.block[m].size \in Nat /\ s.block[n].size \in Nat /\ Header \in Nat
  BY <1>1, BlockTyped, SizesTyped
<1>3. /\ NextOf(s, m) = n /\ Size(s, m) = s.block[m].size
      /\ IsUsed(s, n) = s.block[n].used /\ Size(s, n) = s.block[n].size
  BY PoolOperators
<1>4. s.block[n].used <=> n \notin FreeIn(s.block)
  BY <1>1, KeptBlocks
<1>5. IF s.block[n].used THEN Behind(s, m) = 0 ELSE Behind(s, m) = s.block[n].size + Header
  BY <1>3 DEF Behind
<1> HIDE DEF n, o
<1>6. CASE s.block[m].size >= sz
  <2>1. o = [pool |-> Shrunk(s, m, sz), at |-> m]
    BY <1>2, <1>3, <1>6 DEF InPlace, o
  <2>2. Resized(s, Shrunk(s, m, sz), m, m, sz)
    BY <1>6, ShrunkResizes
  <2>3. o.pool = Shrunk(s, m, sz) /\ o.at = m
    BY <2>1
  <2> QED
    BY <2>2, <2>3 DEF o
<1>7. CASE s.block[m].size < sz /\ s.block[m].size + Behind(s, m) >= sz
  <2>1. o = [pool |-> Grown(s, m, sz), at |-> m]
    BY <1>2, <1>3, <1>7 DEF InPlace, o
  <2>2. ~s.block[n].used /\ s.block[m].size + s.block[n].size + Header >= sz
    BY <1>2, <1>5, <1>7
  <2>3. Resized(s, Grown(s, m, sz), m, m, sz)
    BY <1>4, <2>2, GrownResizes DEF n
  <2>4. o.pool = Grown(s, m, sz) /\ o.at = m
    BY <2>1
  <2> QED
    BY <2>3, <2>4 DEF o
<1>8. CASE ~(s.block[m].size >= sz) /\ ~(s.block[m].size + Behind(s, m) >= sz)
  <2>1. o = [pool |-> MovedBack(s, m, sz), at |-> Prev(s, m)]
    BY <1>2, <1>3, <1>8 DEF InPlace, o
  <2>2. CanMoveBack(s, m, sz)
    BY <1>3, <1>8 DEF FitsInPlace
  <2>3. Resized(s, MovedBack(s, m, sz), m, Prev(s, m), sz)
    BY <2>2, MovedBackResizes
  <2>4. o.pool = MovedBack(s, m, sz) /\ o.at = Prev(s, m)
    BY <2>1
  <2> QED
    BY <2>3, <2>4 DEF o
<1> QED
  BY <1>2, <1>6, <1>7, <1>8

-----------------------------------------------------------------------------
(***************************************************************************)
(* The invariant.                                                          *)
(***************************************************************************)

\* h has the blocks of B in use, each with a size that it holds.
HeldBy(B, h) ==
  /\ DOMAIN h = {Address(m) : m \in UsedIn(B)}
  /\ \A m \in UsedIn(B) : h[Address(m)] \in Nat \ {0} /\ h[Address(m)] <= B[m].size

\* Between operations: the pool is what operations keep, no free blocks meet, and who holds
\* a block has it.  (Only the tags may be wrong, after which nothing happens.)
BigInv ==
  /\ Kept(pool, Loose(pool)) /\ Apart(pool.block, {})
  /\ HeldBy(pool.block, held)
  /\ hung \in BOOLEAN

\* The state in terms of the blocks.
LEMMA StateTyped ==
  /\ Headers = Heads(pool.block) /\ Tails = DOMAIN pool.block \ Heads(pool.block)
  /\ Firsts = FirstsOf(pool.block) /\ (TagsRight <=> Tagged(pool.block))
<1>1. Headers = Heads(pool.block)
  BY DEF Headers, Heads, Size
<1>2. \A m : NextOf(pool, m) = After(pool.block, m)
  BY PoolOperators
<1>3. \A m : Prev(pool, m) = pool.block[m].prev
  BY DEF Prev
<1>4. Firsts = FirstsOf(pool.block)
  BY <1>1, <1>3 DEF Firsts, FirstsOf
<1>5. TagsRight <=> Tagged(pool.block)
  BY <1>1, <1>2, <1>3 DEF TagsRight, Tagged
<1> QED
  BY <1>1, <1>4, <1>5 DEF Tails

\* An address is that of one block.
LEMMA AddressOf ==
  ASSUME NEW B, Linked(B), NEW h, HeldBy(B, h)
  PROVE  /\ \A m \in UsedIn(B) : /\ m \in Nat /\ Address(m) \in Nat /\ Address(m) - Header = m
                                 /\ Address(m) \in DOMAIN h
         /\ \A a \in DOMAIN h : a - Header \in UsedIn(B) /\ Address(a - Header) = a /\ a \in Nat
         /\ \A m \in Nat, n \in Nat : Address(m) = Address(n) => m = n
<1>1. Header \in Nat
  BY SizesTyped
<1>2. \A m \in UsedIn(B) : m \in Nat
  BY BlockTyped DEF UsedIn, Heads
<1>3. \A m \in Nat : Address(m) \in Nat /\ Address(m) - Header = m
  BY <1>1 DEF Address
<1>4. \A m \in UsedIn(B) : Address(m) \in DOMAIN h
  BY DEF HeldBy
<1>5. ASSUME NEW a \in DOMAIN h PROVE a - Header \in UsedIn(B) /\ Address(a - Header) = a /\ a \in Nat
  <2>1. PICK m \in UsedIn(B) : a = Address(m)
    BY DEF HeldBy
  <2> QED
    BY <1>2, <1>3, <2>1
<1> QED
  BY <1>2, <1>3, <1>4, <1>5

\* Block m becomes block b for n bytes.
LEMMA HeldMoves ==
  ASSUME NEW B, NEW C, Linked(B), Linked(C), NEW h, HeldBy(B, h), NEW m \in UsedIn(B), NEW b,
         UsedIn(C) = (UsedIn(B) \ {m}) \cup {b}, b = m \/ b \notin UsedIn(B), UsedSame(B, C, {m, b}),
         NEW n \in Nat \ {0}, C[b].size >= n
  PROVE  HeldBy(C, With(Restrict(h, DOMAIN h \ {Address(m)}), Address(b), n))
<1> DEFINE f == Restrict(h, DOMAIN h \ {Address(m)})
           g == With(f, Address(b), n)
<1>1. DOMAIN f = DOMAIN h \ {Address(m)} /\ \A a \in DOMAIN f : f[a] = h[a]
  BY DEF Restrict
<1> HIDE DEF f
<1>2. Puts(f, g, Address(b), n)
  BY WithTyped
<1> HIDE DEF g
<1>3. b \in UsedIn(C) /\ UsedIn(C) \subseteq Nat /\ UsedIn(B) \subseteq Nat
  BY BlockTyped DEF UsedIn, Heads
<1>4. \A k \in Nat : Address(k) = Address(m) => k = m
  BY <1>3, AddressOf
<1>5. \A k \in Nat : Address(k) = Address(b) => k = b
  BY <1>3, AddressOf
<1>6. DOMAIN g = {Address(k) : k \in UsedIn(C)}
  <2>1. DOMAIN f = {Address(k) : k \in UsedIn(B) \ {m}}
    BY <1>1, <1>3, <1>4 DEF HeldBy
  <2> QED
    BY <1>2, <2>1 DEF Puts
<1>7. ASSUME NEW k \in UsedIn(C) PROVE g[Address(k)] \in Nat \ {0} /\ g[Address(k)] <= C[k].size
  <2>1. CASE k = b
    BY <1>2, <2>1 DEF Puts
  <2>2. CASE k # b
    <3>1. k \in UsedIn(B) /\ k # m /\ k \in Nat
      BY <1>3, <2>2
    <3>2. Address(k) \in DOMAIN f /\ Address(k) # Address(b)
      BY <1>1, <1>4, <1>5, <2>2, <3>1 DEF HeldBy
    <3>3. g[Address(k)] = h[Address(k)]
      BY <1>1, <1>2, <3>2 DEF Puts
    <3>4. C[k].size = B[k].size
      BY <2>2, <3>1 DEF UsedSame
    <3> QED
      BY <3>1, <3>3, <3>4 DEF HeldBy
  <2> QED
    BY <2>1, <2>2
<1>8. HeldBy(C, g)
  BY <1>6, <1>7 DEF HeldBy
<1> QED
  BY <1>8 DEF f, g

\* A new block.
LEMMA HeldGrows ==
  ASSUME NEW B, NEW C, Linked(B), Linked(C), NEW h, HeldBy(B, h), NEW b, b \notin UsedIn(B),
         UsedIn(C) = UsedIn(B) \cup {b}, UsedSame(B, C, {b}), NEW n \in Nat \ {0}, C[b].size >= n
  PROVE  HeldBy(C, With(h, Address(b), n))
<1> DEFINE g == With(h, Address(b), n)
<1>1. Puts(h, g, Address(b), n)
  BY WithTyped
<1> HIDE DEF g
<1>2. b \in UsedIn(C) /\ UsedIn(C) \subseteq Nat /\ UsedIn(B) \subseteq Nat
  BY BlockTyped DEF UsedIn, Heads
<1>3. \A k \in Nat : Address(k) = Address(b) => k = b
  BY <1>2, AddressOf
<1>4. DOMAIN g = {Address(k) : k \in UsedIn(C)}
  BY <1>1 DEF Puts, HeldBy
<1>5. ASSUME NEW k \in UsedIn(C) PROVE g[Address(k)] \in Nat \ {0} /\ g[Address(k)] <= C[k].size
  <2>1. CASE k = b
    BY <1>1, <2>1 DEF Puts
  <2>2. CASE k # b
    <3>1. k \in UsedIn(B) /\ k \in Nat /\ C[k].size = B[k].size
      BY <1>2, <2>2 DEF UsedSame
    <3>2. Address(k) \in DOMAIN h /\ Address(k) # Address(b)
      BY <1>3, <2>2, <3>1 DEF HeldBy
    <3>3. g[Address(k)] = h[Address(k)]
      BY <1>1, <3>2 DEF Puts
    <3> QED
      BY <3>1, <3>3 DEF HeldBy
  <2> QED
    BY <2>1, <2>2
<1>6. HeldBy(C, g)
  BY <1>4, <1>5 DEF HeldBy
<1> QED
  BY <1>6 DEF g

\* One block less.
LEMMA HeldShrinks ==
  ASSUME NEW B, NEW C, Linked(B), Linked(C), NEW h, HeldBy(B, h), NEW m \in UsedIn(B),
         UsedIn(C) = UsedIn(B) \ {m}, UsedSame(B, C, {m})
  PROVE  HeldBy(C, Restrict(h, DOMAIN h \ {Address(m)}))
<1> DEFINE f == Restrict(h, DOMAIN h \ {Address(m)})
<1>1. DOMAIN f = DOMAIN h \ {Address(m)} /\ \A a \in DOMAIN f : f[a] = h[a]
  BY DEF Restrict
<1> HIDE DEF f
<1>2. UsedIn(B) \subseteq Nat
  BY BlockTyped DEF UsedIn, Heads
<1>3. \A k \in Nat : Address(k) = Address(m) => k = m
  BY <1>2, AddressOf
<1>4. DOMAIN f = {Address(k) : k \in UsedIn(C)}
  BY <1>1, <1>2, <1>3 DEF HeldBy
<1>5. \A k \in UsedIn(C) : f[Address(k)] = h[Address(k)] /\ C[k].size = B[k].size /\ k \in UsedIn(B)
  BY <1>1, <1>4 DEF UsedSame
<1>6. HeldBy(C, f)
  BY <1>4, <1>5 DEF HeldBy
<1> QED
  BY <1>6 DEF f

\* Nothing happens to the blocks in use.
LEMMA HeldStays ==
  ASSUME NEW B, NEW C, NEW h, HeldBy(B, h), UsedIn(C) = UsedIn(B), UsedSame(B, C, {})
  PROVE  HeldBy(C, h)
  BY DEF HeldBy, UsedSame

\* A block is large enough for what is asked for.
LEMMA BlockSizeTyped ==
  ASSUME NEW n \in Sizes
  PROVE  n \in Nat \ {0} /\ BlockSize(n) \in Nat \ {0} /\ BlockSize(n) >= n
<1> DEFINE x == IF n < FreeSize THEN FreeSize ELSE n
           q == (x + Header - 1) \div Header
<1>1. n \in Nat \ {0}
  BY SizesAssumption
<1>2. x \in Nat \ {0} /\ x >= n
  BY <1>1, SizesTyped
<1>3. BlockSize(n) = RoundUp(x, Header)
  BY DEF BlockSize
<1> HIDE DEF x, q
<1>4. q \in Nat /\ RoundUp(x, Header) = q * Header /\ x <= q * Header
  BY <1>2, RoundUpTyped, SizesTyped DEF q
<1>5. q * Header \in Nat
  BY <1>4, SizesTyped
<1> QED
  BY <1>1, <1>2, <1>3, <1>4, <1>5

-----------------------------------------------------------------------------
\* The invariant after a step, from what the step leaves.
LEMMA InvAfter ==
  ASSUME Kept(pool', Loose(pool')), Apart(pool'.block, {}), HeldBy(pool'.block, held'), hung' \in BOOLEAN
  PROVE  BigInv'
  BY DEF BigInv

\* The tags after a step.
LEMMA TagsAfter == TagsRight' <=> Tagged(pool'.block)
<1>1. Headers' = Heads(pool'.block)
  BY DEF Headers, Heads, Size
<1>2. \A m : NextOf(pool', m) = After(pool'.block, m)
  BY PoolOperators
<1>3. \A m : Prev(pool', m) = pool'.block[m].prev
  BY DEF Prev
<1> QED
  BY <1>1, <1>2, <1>3 DEF TagsRight, Tagged

\* At the start there is no block.
LEMMA BigInit == Init => BigInv
<1> SUFFICES ASSUME Init PROVE BigInv
  OBVIOUS
<1>1. /\ pool.block = <<>> /\ pool.cached = Null /\ pool.mr = Null /\ pool.small = {} /\ pool.tree = {}
      /\ pool.mapped = {} /\ held = <<>> /\ hung = FALSE
      /\ pool = [block |-> pool.block, cached |-> pool.cached, mr |-> pool.mr, small |-> pool.small,
                 tree |-> pool.tree, mapped |-> pool.mapped]
  BY DEF Init
<1>2. DOMAIN pool.block = {} /\ DOMAIN held = {} /\ pool.block = [m \in DOMAIN pool.block |-> pool.block[m]]
  BY <1>1
<1>3. /\ Heads(pool.block) = {} /\ FreeIn(pool.block) = {} /\ UsedIn(pool.block) = {}
      /\ FirstsOf(pool.block) = {} /\ TailsOf(pool.block) = {}
  BY <1>2 DEF Heads, FreeIn, UsedIn, FirstsOf, TailsOf
<1>4. IsPool(pool)
  BY <1>1, <1>2 DEF IsPool
<1>5. Linked(pool.block)
  BY <1>2, <1>3 DEF Linked
<1>6. Regioned(pool.block, pool.mapped)
  BY <1>1, <1>2, <1>3 DEF Regioned, RegionedBy, Region
<1>7. Loose(pool) = {}
  BY <1>1 DEF Loose
<1>8. Filing(pool.block, pool.mr, pool.small, pool.tree, {})
  BY <1>1, <1>3 DEF Filing
<1>9. Apart(pool.block, {})
  BY <1>3 DEF Apart
<1>10. HeldBy(pool.block, held)
  BY <1>2, <1>3 DEF HeldBy
<1> QED
  BY <1>1, <1>4, <1>5, <1>6, <1>7, <1>8, <1>9, <1>10 DEF BigInv, Kept

\* Who has a block has memory that nobody else has.
LEMMA HeldDisjoint ==
  ASSUME NEW B, Linked(B), NEW h, HeldBy(B, h)
  PROVE  AsHeap!Disjoint(h)
<1> SUFFICES ASSUME NEW a \in DOMAIN h, NEW b \in DOMAIN h, a # b
             PROVE  AsHeap!Extent(a, h[a]) \cap AsHeap!Extent(b, h[b]) = {}
  BY DEF AsHeap!Disjoint
<1>1. \A x \in DOMAIN h : /\ x - Header \in UsedIn(B) /\ Address(x - Header) = x /\ x \in Nat
  BY AddressOf
<1>2. ASSUME NEW x \in DOMAIN h
      PROVE  /\ x - Header \in DOMAIN B /\ x - Header \in Nat /\ x \in Nat /\ h[x] \in Nat
             /\ B[x - Header].size \in Nat /\ h[x] <= B[x - Header].size
             /\ After(B, x - Header) = x + B[x - Header].size
  <2> DEFINE m == x - Header
  <2>1. m \in UsedIn(B) /\ Address(m) = x /\ x \in Nat
    BY <1>1
  <2> HIDE DEF m
  <2>2. m \in DOMAIN B
    BY <2>1 DEF UsedIn, Heads
  <2>3. m \in Nat /\ B[m].size \in Nat
    BY <2>2, BlockTyped
  <2>4. h[x] \in Nat /\ h[x] <= B[m].size
    BY <2>1 DEF HeldBy
  <2>5. After(B, m) = x + B[m].size
    BY <2>1, <2>3, SizesTyped DEF After, Address
  <2> QED
    BY <2>1, <2>2, <2>3, <2>4, <2>5 DEF m
<1>3. Header \in Nat /\ a - Header # b - Header
  BY <1>2, SizesTyped
<1>4. a - Header < b - Header => After(B, a - Header) <= b - Header
  BY <1>2 DEF Linked
<1>5. b - Header < a - Header => After(B, b - Header) <= a - Header
  BY <1>2 DEF Linked
<1>6. a + h[a] <= b \/ b + h[b] <= a
  BY <1>2, <1>3, <1>4, <1>5
<1> HIDE DEF Null
<1> QED
  BY <1>2, <1>6 DEF AsHeap!Extent

-----------------------------------------------------------------------------
(***************************************************************************)
(* The steps.                                                              *)
(***************************************************************************)

\* What a step with right tags does to what is held.
LEMMA HeldAllocs ==
  ASSUME NEW b, b \notin DOMAIN held, NEW n, held' = With(held, b, n)
  PROVE  AsHeap!Alloc
  BY DEF With, AsHeap!Alloc, AsHeap!OthersKept

\* As a step of the heap, what free does.
LEMMA HeldFrees ==
  ASSUME NEW a \in DOMAIN held, held' = Restrict(held, DOMAIN held \ {a})
  PROVE  AsHeap!Free
  BY DEF Restrict, AsHeap!Free, AsHeap!OthersKept

\* As a step of the heap, what realloc does.
LEMMA HeldReallocs ==
  ASSUME NEW a \in DOMAIN held, NEW b, b = a \/ b \notin DOMAIN held, NEW n,
         held' = With(Restrict(held, DOMAIN held \ {a}), b, n)
  PROVE  AsHeap!Realloc
<1>1. DOMAIN held' = (DOMAIN held \ {a}) \cup {b}
  BY DEF With, Restrict
<1>2. \A k \in DOMAIN held \ {a} : k \in DOMAIN held' /\ held'[k] = held[k]
  BY DEF With, Restrict
<1> QED
  BY <1>1, <1>2 DEF AsHeap!Realloc, AsHeap!OthersKept

\* alloc.
LEMMA AllocKeeps ==
  ASSUME BigInv, NEW n \in Sizes, Alloc(n)
  PROVE  BigInv' /\ TagsRight' /\ (held' = held \/ AsHeap!Alloc)
<1> DEFINE sz == BlockSize(n)
<1>1. /\ Kept(pool, Loose(pool)) /\ Apart(pool.block, {}) /\ HeldBy(pool.block, held)
      /\ Tagged(pool.block) /\ hung' \in BOOLEAN /\ Linked(pool.block)
  BY StateTyped DEF BigInv, Alloc, Works, Kept
<1>2. PICK o \in TreeAlloc(pool, sz) :
        pool' = o.pool /\ held' = IF o.at = Null THEN held ELSE With(held, Address(o.at), n)
  BY DEF Alloc
<1>3. sz \in Nat \ {0} /\ n \in Nat \ {0} /\ sz >= n
  BY BlockSizeTyped
<1> HIDE DEF sz
<1>4. (o.at = Null /\ Quiet(pool, pool')) \/ Allocated(pool, pool', o.at, sz)
  BY <1>1, <1>2, <1>3, TreeAllocates
<1>5. CASE o.at = Null /\ Quiet(pool, pool')
  <2>1. held' = held
    BY <1>2, <1>5
  <2>2. Kept(pool', Loose(pool')) /\ Tagged(pool'.block) /\ Apart(pool'.block, {})
    BY <1>5 DEF Quiet
  <2>3. HeldBy(pool'.block, held')
    BY <1>1, <1>5, <2>1, HeldStays DEF Quiet
  <2>4. TagsRight'
    BY <2>2, TagsAfter
  <2> QED
    BY <1>1, <2>1, <2>2, <2>3, <2>4, InvAfter
<1>6. CASE Allocated(pool, pool', o.at, sz)
  <2> DEFINE b == o.at
  <2>1. /\ Kept(pool', Loose(pool')) /\ Tagged(pool'.block) /\ Apart(pool'.block, {})
        /\ b \notin UsedIn(pool.block) /\ UsedIn(pool'.block) = UsedIn(pool.block) \cup {b}
        /\ UsedSame(pool.block, pool'.block, {b}) /\ pool'.block[b].size >= sz /\ b # Null
    BY <1>6 DEF Allocated
  <2>2. held' = With(held, Address(b), n)
    BY <1>2, <2>1
  <2>3. Linked(pool'.block)
    BY <2>1 DEF Kept
  <2> HIDE DEF b
  <2>4. b \in Nat /\ pool'.block[b].size \in Nat
    <3>1. b \in DOMAIN pool'.block
      BY <2>1 DEF UsedIn, Heads
    <3> QED
      BY <2>3, <3>1, BlockTyped
  <2>5. pool'.block[b].size >= n
    BY <1>3, <2>1, <2>4
  <2>6. HeldBy(pool'.block, held')
    BY <1>1, <1>3, <2>1, <2>2, <2>3, <2>5, HeldGrows
  <2>7. Address(b) \notin DOMAIN held
    BY <1>1, <2>1, <2>4, AddressOf DEF HeldBy
  <2>8. AsHeap!Alloc
    BY <2>2, <2>7, HeldAllocs
  <2> QED
    BY <1>1, <2>1, <2>6, <2>8, InvAfter, TagsAfter
<1> QED
  BY <1>4, <1>5, <1>6

\* free.
LEMMA FreeKeeps ==
  ASSUME BigInv, NEW a \in DOMAIN held, Free(a)
  PROVE  BigInv' /\ TagsRight' /\ AsHeap!Free
<1> DEFINE m == a - Header
           L == Loose(pool)
<1>1. /\ Kept(pool, L) /\ Apart(pool.block, {}) /\ HeldBy(pool.block, held)
      /\ Tagged(pool.block) /\ hung' \in BOOLEAN /\ Linked(pool.block)
  BY StateTyped DEF BigInv, Free, Works, Kept
<1>2. pool' = AddFreed(pool, m) /\ held' = Restrict(held, DOMAIN held \ {a})
  BY DEF Free
<1>3. m \in UsedIn(pool.block) /\ Address(m) = a
  BY <1>1, AddressOf
<1> HIDE DEF m, L
<1>4. m \in Heads(pool.block) /\ pool.block[m].used /\ m \notin L
  <2>1. L \subseteq FreeIn(pool.block) /\ FreeIn(pool.block) \cap UsedIn(pool.block) = {}
    BY <1>1, KeptBlocks
  <2> QED
    BY <1>3, <2>1 DEF UsedIn
<1>5. Apart(pool.block, {m})
  BY <1>1 DEF Apart
<1>6. L \cup {m} = Loose(pool) \cup {m} /\ m \notin Loose(pool)
  BY <1>4 DEF L
<1>7. Freed(pool, pool', m)
  BY <1>1, <1>2, <1>4, <1>5, <1>6, AddFreedKeeps
<1>8. /\ Kept(pool', Loose(pool')) /\ Tagged(pool'.block) /\ Apart(pool'.block, {})
      /\ UsedSame(pool.block, pool'.block, {m}) /\ UsedIn(pool'.block) = UsedIn(pool.block) \ {m}
  BY <1>7 DEF Freed
<1>9. HeldBy(pool'.block, held')
  <2>1. Linked(pool'.block)
    BY <1>8 DEF Kept
  <2> QED
    BY <1>1, <1>2, <1>3, <1>8, <2>1, HeldShrinks
<1>10. AsHeap!Free
  BY <1>2, HeldFrees
<1> QED
  BY <1>1, <1>8, <1>9, <1>10, InvAfter, TagsAfter

\* When tags go wrong.
TagGoesWrong ==
  \E a \in DOMAIN held \ DOMAIN held' :
    /\ pool.cached = NextOf(pool, a - Header)
    /\ Address(Prev(pool, a - Header)) \in DOMAIN held'

\* realloc in place.
LEMMA ReallocInPlaceKeeps ==
  ASSUME BigInv, NEW a \in DOMAIN held, NEW n \in Sizes, ReallocInPlace(a, n)
  PROVE  BigInv' /\ (TagsRight' \/ TagGoesWrong) /\ AsHeap!Realloc
<1> DEFINE m == a - Header
           sz == BlockSize(n)
           o == InPlace(pool, m, sz)
           b == o.at
<1>1. /\ Kept(pool, Loose(pool)) /\ Apart(pool.block, {}) /\ HeldBy(pool.block, held)
      /\ Tagged(pool.block) /\ hung' \in BOOLEAN /\ Linked(pool.block)
  BY StateTyped DEF BigInv, ReallocInPlace, Works, Kept
<1>2. /\ FitsInPlace(pool, m, sz) /\ pool' = o.pool
      /\ held' = With(Restrict(held, DOMAIN held \ {a}), Address(b), n)
  BY DEF ReallocInPlace
<1>3. m \in UsedIn(pool.block) /\ Address(m) = a
  BY <1>1, AddressOf
<1>4. sz \in Nat \ {0} /\ n \in Nat \ {0} /\ sz >= n
  BY BlockSizeTyped
<1> HIDE DEF m, sz
<1>5. Resized(pool, pool', m, b, sz)
  BY <1>1, <1>2, <1>3, <1>4, InPlaceResizes
<1> HIDE DEF o, b
<1>6. /\ Kept(pool', Loose(pool')) /\ Apart(pool'.block, {})
      /\ UsedIn(pool'.block) = (UsedIn(pool.block) \ {m}) \cup {b} /\ (b = m \/ b \notin UsedIn(pool.block))
      /\ UsedSame(pool.block, pool'.block, {m, b}) /\ pool'.block[b].size >= sz
      /\ (Tagged(pool'.block) \/ (pool.cached = After(pool.block, m) /\ b = pool.block[m].prev /\ b # m))
  BY <1>5 DEF Resized
<1>7. Linked(pool'.block) /\ b \in Nat /\ pool'.block[b].size \in Nat /\ m \in Nat
  <2>1. Linked(pool'.block)
    BY <1>6 DEF Kept
  <2>2. b \in DOMAIN pool'.block
    BY <1>6 DEF UsedIn, Heads
  <2> QED
    BY <1>1, <1>3, <2>1, <2>2, AddressOf, BlockTyped
<1>8. pool'.block[b].size >= n
  BY <1>4, <1>6, <1>7
<1>9. HeldBy(pool'.block, held')
  BY <1>1, <1>2, <1>3, <1>4, <1>6, <1>7, <1>8, HeldMoves
<1>10. b = m \/ Address(b) \notin DOMAIN held
  BY <1>1, <1>6, <1>7, AddressOf
<1>11. AsHeap!Realloc
  BY <1>2, <1>3, <1>10, HeldReallocs
<1>12. CASE ~Tagged(pool'.block)
  <2>1. pool.cached = NextOf(pool, m) /\ Prev(pool, m) = b /\ b # m
    BY <1>6, <1>12, PoolOperators
  <2>2. a \notin DOMAIN held'
    <3>1. Address(b) # Address(m)
      BY <1>1, <1>7, <2>1, AddressOf
    <3> QED
      BY <1>2, <1>3, <3>1 DEF With, Restrict
  <2>3. Address(b) \in DOMAIN held'
    BY <1>2 DEF With
  <2>4. TagGoesWrong
    BY <2>1, <2>2, <2>3 DEF TagGoesWrong, m
  <2> QED
    BY <1>1, <1>6, <1>9, <1>11, <2>4, InvAfter
<1>13. CASE Tagged(pool'.block)
  BY <1>1, <1>6, <1>9, <1>11, <1>13, InvAfter, TagsAfter
<1> QED
  BY <1>12, <1>13

\* realloc to another block.
LEMMA ReallocElsewhereKeeps ==
  ASSUME BigInv, NEW a \in DOMAIN held, NEW n \in Sizes, ReallocElsewhere(a, n)
  PROVE  BigInv' /\ TagsRight' /\ (held' = held \/ AsHeap!Realloc)
<1> DEFINE m == a - Header
           sz == BlockSize(n)
<1>1. /\ Kept(pool, Loose(pool)) /\ Apart(pool.block, {}) /\ HeldBy(pool.block, held)
      /\ Tagged(pool.block) /\ hung' \in BOOLEAN /\ Linked(pool.block)
  BY StateTyped DEF BigInv, ReallocElsewhere, Works, Kept
<1>2. PICK o \in TreeAlloc(pool, sz) :
        IF o.at = Null THEN pool' = o.pool /\ UNCHANGED held
        ELSE /\ pool' = AddFreed(o.pool, m)
             /\ held' = With(Restrict(held, DOMAIN held \ {a}), Address(o.at), n)
  BY DEF ReallocElsewhere
<1>3. m \in UsedIn(pool.block) /\ Address(m) = a
  BY <1>1, AddressOf
<1>4. sz \in Nat \ {0} /\ n \in Nat \ {0} /\ sz >= n
  BY BlockSizeTyped
<1> HIDE DEF m, sz
<1>5. (o.at = Null /\ Quiet(pool, o.pool)) \/ Allocated(pool, o.pool, o.at, sz)
  BY <1>1, <1>2, <1>4, TreeAllocates
<1>6. CASE o.at = Null /\ Quiet(pool, o.pool)
  <2>1. held' = held /\ pool' = o.pool
    BY <1>2, <1>6
  <2>2. Kept(pool', Loose(pool')) /\ Tagged(pool'.block) /\ Apart(pool'.block, {})
    BY <1>6, <2>1 DEF Quiet
  <2>3. HeldBy(pool'.block, held')
    BY <1>1, <1>6, <2>1, HeldStays DEF Quiet
  <2> QED
    BY <1>1, <2>1, <2>2, <2>3, InvAfter, TagsAfter
<1>7. CASE Allocated(pool, o.pool, o.at, sz)
  <2> DEFINE b == o.at
             u == o.pool
             X == Loose(u)
  <2>1. /\ Kept(u, X) /\ Tagged(u.block) /\ Apart(u.block, {})
        /\ b \notin UsedIn(pool.block) /\ UsedIn(u.block) = UsedIn(pool.block) \cup {b}
        /\ UsedSame(pool.block, u.block, {b}) /\ u.block[b].size >= sz /\ b # Null
    BY <1>7 DEF Allocated
  <2>2. pool' = AddFreed(u, m) /\ held' = With(Restrict(held, DOMAIN held \ {a}), Address(b), n)
    BY <1>2, <2>1
  <2> HIDE DEF b, u, X
  <2>3. m \in Heads(u.block) /\ u.block[m].used /\ m \notin X /\ m \in UsedIn(u.block)
    <3>1. X \subseteq FreeIn(u.block) /\ FreeIn(u.block) \cap UsedIn(u.block) = {}
      BY <2>1, KeptBlocks
    <3> QED
      BY <1>3, <2>1, <3>1 DEF UsedIn
  <2>4. Apart(u.block, {m})
    BY <2>1 DEF Apart
  <2>5. X \cup {m} = Loose(u) \cup {m} /\ m \notin Loose(u)
    BY <2>3 DEF X
  <2>6. Freed(u, pool', m)
    BY <2>1, <2>2, <2>3, <2>4, <2>5, AddFreedKeeps
  <2>7. /\ Kept(pool', Loose(pool')) /\ Tagged(pool'.block) /\ Apart(pool'.block, {})
        /\ UsedSame(u.block, pool'.block, {m}) /\ UsedIn(pool'.block) = UsedIn(u.block) \ {m}
    BY <2>6 DEF Freed
  <2>8. b # m /\ UsedIn(pool'.block) = (UsedIn(pool.block) \ {m}) \cup {b}
    BY <1>3, <2>1, <2>7
  <2>9. UsedSame(pool.block, pool'.block, {m, b})
    <3> SUFFICES ASSUME NEW k, k # m, k # b
                 PROVE  /\ k \in UsedIn(pool'.block) <=> k \in UsedIn(pool.block)
                        /\ k \in UsedIn(pool.block) => pool'.block[k].size = pool.block[k].size
      BY DEF UsedSame
    <3>1. k \in UsedIn(pool.block) => k \in UsedIn(u.block) /\ u.block[k].size = pool.block[k].size
      BY <2>1 DEF UsedSame
    <3>2. k \in UsedIn(u.block) => pool'.block[k].size = u.block[k].size
      BY <2>7 DEF UsedSame
    <3> QED
      BY <2>8, <3>1, <3>2
  <2>10. Linked(pool'.block) /\ b \in UsedIn(pool'.block)
    BY <2>7, <2>8 DEF Kept
  <2>11. b \in Nat /\ pool'.block[b].size \in Nat
    <3>1. b \in DOMAIN pool'.block
      BY <2>10 DEF UsedIn, Heads
    <3> QED
      BY <2>10, <3>1, BlockTyped
  <2>12. pool'.block[b].size >= n
    <3>1. pool'.block[b].size = u.block[b].size
      BY <2>1, <2>7, <2>8 DEF UsedSame
    <3> QED
      BY <1>4, <2>1, <2>11, <3>1
  <2>13. HeldBy(pool'.block, held')
    BY <1>1, <1>3, <1>4, <2>1, <2>2, <2>8, <2>9, <2>10, <2>12, HeldMoves
  <2>14. Address(b) \notin DOMAIN held
    BY <1>1, <2>1, <2>11, AddressOf
  <2>15. AsHeap!Realloc
    BY <2>2, <2>14, HeldReallocs
  <2> QED
    BY <1>1, <2>7, <2>13, <2>15, InvAfter, TagsAfter
<1> QED
  BY <1>5, <1>6, <1>7

\* release_memory.
LEMMA ReleaseKeeps ==
  ASSUME BigInv, NEW budget, ReleaseMemory(budget)
  PROVE  BigInv' /\ TagsRight' /\ held' = held
<1>1. /\ Kept(pool, Loose(pool)) /\ Apart(pool.block, {}) /\ HeldBy(pool.block, held)
      /\ Tagged(pool.block) /\ hung' \in BOOLEAN
  BY StateTyped DEF BigInv, ReleaseMemory, Works
<1>2. pool' = Recycle(pool, budget) /\ held' = held
  BY DEF ReleaseMemory
<1>3. Quiet(pool, pool')
  BY <1>1, <1>2, RecycleQuiet
<1>4. Kept(pool', Loose(pool')) /\ Tagged(pool'.block) /\ Apart(pool'.block, {})
  BY <1>3 DEF Quiet
<1>5. HeldBy(pool'.block, held')
  BY <1>1, <1>2, <1>3, HeldStays DEF Quiet
<1> QED
  BY <1>1, <1>2, <1>4, <1>5, InvAfter, TagsAfter

\* Every step keeps the invariant, and the tags but in one case, and is one of the heap.
LEMMA BigNext ==
  ASSUME BigInv, [Next]_vars
  PROVE  /\ BigInv'
         /\ pool' = pool \/ TagsRight' \/ TagGoesWrong
         /\ held' = held \/ AsHeap!Alloc \/ AsHeap!Free \/ AsHeap!Realloc
<1>1. ASSUME NEW n \in Sizes, Alloc(n)
      PROVE  BigInv' /\ TagsRight' /\ (held' = held \/ AsHeap!Alloc)
  BY <1>1, AllocKeeps
<1>2. ASSUME NEW a \in DOMAIN held, Free(a)
      PROVE  BigInv' /\ TagsRight' /\ AsHeap!Free
  BY <1>2, FreeKeeps
<1>3. ASSUME NEW a \in DOMAIN held, NEW n \in Sizes, ReallocInPlace(a, n)
      PROVE  BigInv' /\ (TagsRight' \/ TagGoesWrong) /\ AsHeap!Realloc
  BY <1>3, ReallocInPlaceKeeps
<1>4. ASSUME NEW a \in DOMAIN held, NEW n \in Sizes, ReallocElsewhere(a, n)
      PROVE  BigInv' /\ TagsRight' /\ (held' = held \/ AsHeap!Realloc)
  BY <1>4, ReallocElsewhereKeeps
<1>5. ASSUME NEW budget, ReleaseMemory(budget)
      PROVE  BigInv' /\ TagsRight' /\ held' = held
  BY <1>5, ReleaseKeeps
<1>6. CASE LocksTwice
  BY <1>6 DEF LocksTwice, BigInv
<1>7. CASE UNCHANGED vars
  BY <1>7 DEF vars, BigInv
<1> QED
  BY <1>1, <1>2, <1>3, <1>4, <1>5, <1>6, <1>7 DEF Next

\* The pool of large blocks stays what its operations take it for: the blocks follow each
\* other through the regions got from the system, each free one is in one of the four places
\* and meets no other, and each holder has the block that it was given.
THEOREM BigInvHolds == Spec => []BigInv
<1>1. BigInv /\ [Next]_vars => BigInv'
  BY BigNext
<1> QED
  BY <1>1, BigInit, PTL DEF Spec

\* A free block is in exactly one of the four places, and a block in use in none.
THEOREM FiledHolds == Spec => []Filed
<1>1. BigInv => Filed
  <2> SUFFICES ASSUME BigInv PROVE Filed
    OBVIOUS
  <2> DEFINE X == Loose(pool)
  <2>1. Kept(pool, X)
    BY DEF BigInv
  <2> HIDE DEF X
  <2>2. Filing(pool.block, pool.mr, pool.small, pool.tree, X) /\ Linked(pool.block)
    BY <2>1 DEF Kept
  <2>3. Null \notin FreeIn(pool.block)
    BY <2>2, NullNoBlock
  <2>4. FreeIn(pool.block) = {m \in Headers : ~IsUsed(pool, m)}
    BY StateTyped DEF FreeIn, IsUsed
  <2>5. X = {pool.cached} \ {Null}
    BY DEF X, Loose
  <2>6. (\A m \in pool.small : Size(pool, m) < SmallSize) /\ (\A m \in pool.tree : Size(pool, m) >= SmallSize)
    BY <2>2 DEF Filing, Size
  <2>7. /\ FreeIn(pool.block) = ({pool.mr} \ {Null}) \cup pool.small \cup pool.tree \cup X
        /\ pool.mr \notin pool.small \cup pool.tree \cup X /\ X \cap (pool.small \cup pool.tree) = {}
    BY <2>2 DEF Filing
  <2> QED
    BY <2>3, <2>4, <2>5, <2>6, <2>7 DEF Filed
<1> QED
  BY <1>1, BigInvHolds, PTL

\* No two free blocks meet.
THEOREM CoalescedHolds == Spec => []Coalesced
<1>1. BigInv => Coalesced
  <2> SUFFICES ASSUME BigInv, NEW m \in Headers, ~IsUsed(pool, m) PROVE IsUsed(pool, NextOf(pool, m))
    BY DEF Coalesced
  <2> DEFINE X == Loose(pool)
             n == NextOf(pool, m)
  <2>1. Kept(pool, X) /\ Apart(pool.block, {})
    BY DEF BigInv
  <2> HIDE DEF X
  <2>2. n = After(pool.block, m) /\ IsUsed(pool, n) = pool.block[n].used /\ ~pool.block[m].used
    BY PoolOperators DEF IsUsed
  <2>3. m \in FreeIn(pool.block) /\ m \in Heads(pool.block)
    BY <2>2, StateTyped DEF FreeIn
  <2>4. n \in DOMAIN pool.block /\ n \notin FreeIn(pool.block)
    BY <2>1, <2>2, <2>3, KeptBlocks DEF Apart
  <2> QED
    BY <2>1, <2>2, <2>4, KeptBlocks
<1> QED
  BY <1>1, BigInvHolds, PTL

\* A tag goes wrong only where realloc moves a block back over the cached one behind it.
THEOREM TagsGoStaleHolds == Spec => TagsGoStale
<1>1. BigInv /\ [Next]_vars => [~TagsRight' => TagGoesWrong]_vars
  <2> SUFFICES ASSUME BigInv, [Next]_vars, ~TagsRight', ~UNCHANGED vars PROVE TagGoesWrong
    OBVIOUS
  <2>1. CASE pool' = pool
    <3>1. TagsRight
      BY DEF Next, Alloc, Free, ReallocInPlace, ReallocElsewhere, ReleaseMemory, LocksTwice, Works
    <3> QED
      BY <2>1, <3>1, StateTyped, TagsAfter
  <2> QED
    BY <2>1, BigNext
<1> QED
  BY <1>1, BigInvHolds, PTL DEF Spec, TagsGoStale, TagGoesWrong

\* Whatever is asked of it, the pool is a heap: no two holders share a byte, and no operation
\* touches a block that it was not given.
THEOREM ImplementsHeapHolds == Spec => ImplementsHeap
<1>1. Init => AsHeap!Init
  BY DEF Init, AsHeap!Init
<1>2. BigInv /\ [Next]_vars => [AsHeap!Next]_held
  <2> SUFFICES ASSUME BigInv, [Next]_vars PROVE [AsHeap!Next]_held
    OBVIOUS
  <2>1. BigInv' /\ (held' = held \/ AsHeap!Alloc \/ AsHeap!Free \/ AsHeap!Realloc)
    BY BigNext
  <2>2. Linked(pool'.block) /\ HeldBy(pool'.block, held')
    BY <2>1 DEF BigInv, Kept
  <2>3. AsHeap!Disjoint(held')
    BY <2>2, HeldDisjoint
  <2> QED
    BY <2>1, <2>3 DEF AsHeap!Next
<1> QED
  BY <1>1, <1>2, BigInvHolds, PTL DEF Spec, ImplementsHeap, AsHeap!Spec

-----------------------------------------------------------------------------
(***************************************************************************)
(* The blocks tile the regions.                                            *)
(***************************************************************************)

\* A tail ends a region.
LEMMA TailRegion ==
  ASSUME NEW B, NEW mapped, Linked(B), Regioned(B, mapped), NEW l \in TailsOf(B)
  PROVE  \E k, e : RegionOf(B, k, e, l)
<1>1. l \in DOMAIN B /\ l \notin Heads(B)
  BY DEF TailsOf, Heads
<1>2. PICK k, e, t : RegionOf(B, k, e, t) /\ Start(k) <= l /\ l <= t
  BY <1>1 DEF Regioned, RegionedBy, RegionOf
<1>3. /\ Start(k) \in Nat /\ t \in Nat /\ Start(k) \in Heads(B)
      /\ \A x \in FirstsOf(B) \cup TailsOf(B) : ~(Start(k) < x /\ x < t)
  BY <1>2, RegionTyped
<1>4. l \in Nat
  BY <1>1, BlockTyped
<1>5. l # Start(k) /\ ~(Start(k) < l /\ l < t)
  BY <1>1, <1>3
<1>6. l = t
  BY <1>2, <1>3, <1>4, <1>5
<1> QED
  BY <1>2, <1>6

\* The regions are as many as the first blocks, and as the tails.
LEMMA FirstsAndTails ==
  ASSUME NEW B, NEW mapped, Linked(B), Regioned(B, mapped)
  PROVE  Cardinality(FirstsOf(B)) = Cardinality(TailsOf(B))
<1> DEFINE F == FirstsOf(B)
           T == TailsOf(B)
           P(m, l) == \E k, e : RegionOf(B, k, e, l) /\ m = Start(k)
           g == [m \in F |-> CHOOSE l : P(m, l)]
<1>1. \A m \in F : P(m, g[m])
  <2> SUFFICES ASSUME NEW m \in F PROVE P(m, g[m])
    OBVIOUS
  <2>1. \E l : P(m, l)
    BY FirstRegion
  <2> QED
    BY <2>1
<1>2. ASSUME NEW m, NEW l, P(m, l) PROVE m \in F /\ l \in T
  BY <1>2, RegionTyped
<1>3. ASSUME NEW m, NEW l, NEW l2, P(m, l), P(m, l2) PROVE l = l2
  <2>1. PICK k, e : RegionOf(B, k, e, l) /\ m = Start(k)
    BY <1>3
  <2>2. PICK k2, e2 : RegionOf(B, k2, e2, l2) /\ m = Start(k2)
    BY <1>3
  <2>3. k \in Nat /\ k2 \in Nat
    BY <2>1, <2>2, RegionTyped
  <2>4. k = k2
    BY <2>1, <2>2, <2>3, Starts
  <2> QED
    BY <2>1, <2>2, <2>4, RegionUnique
<1>4. ASSUME NEW m, NEW m2, NEW l, P(m, l), P(m2, l) PROVE m = m2
  <2>1. PICK k, e : RegionOf(B, k, e, l) /\ m = Start(k)
    BY <1>4
  <2>2. PICK k2, e2 : RegionOf(B, k2, e2, l) /\ m2 = Start(k2)
    BY <1>4
  <2>3. k \in Nat /\ k2 \in Nat /\ Start(k) < l /\ Start(k2) < l /\ l \in Nat /\ Start(k) \in Nat /\ Start(k2) \in Nat
    BY <2>1, <2>2, RegionTyped
  <2>4. ~(k < k2)
    BY <2>1, <2>2, <2>3, RegionsDisjoint
  <2>5. ~(k2 < k)
    BY <2>1, <2>2, <2>3, RegionsDisjoint
  <2> QED
    BY <2>1, <2>2, <2>3, <2>4, <2>5
<1>5. \A l \in T : \E m \in F : P(m, l)
  <2> SUFFICES ASSUME NEW l \in T PROVE \E m \in F : P(m, l)
    OBVIOUS
  <2>1. PICK k, e : RegionOf(B, k, e, l)
    BY TailRegion
  <2>2. P(Start(k), l)
    BY <2>1
  <2> QED
    BY <1>2, <2>2
<1>6. g \in [F -> T]
  BY <1>1, <1>2
<1> HIDE DEF P, F, T
<1>7. \A a \in F : \A b \in F : g[a] = g[b] => a = b
  <2> HIDE DEF g
  <2> QED
    BY <1>1, <1>4
<1>8. \A l \in T : \E m \in F : g[m] = l
  <2> HIDE DEF g
  <2> QED
    BY <1>1, <1>3, <1>5
<1> HIDE DEF g
<1>9. g \in Bijection(F, T)
  BY <1>6, <1>7, <1>8 DEF Bijection, Injection, Surjection, IsInjective
<1>10. IsFiniteSet(F)
  <2>1. F \subseteq Page .. Start(PageCount + 1)
    BY DEF F, FirstsOf, Heads, Linked, Addresses
  <2>2. Page \in Int /\ Start(PageCount + 1) \in Int
    BY SizesTyped, Starts
  <2> QED
    BY <2>1, <2>2, FS_Interval, FS_Subset
<1>11. ExistsBijection(F, T)
  BY <1>9 DEF ExistsBijection
<1> QED
  BY <1>10, <1>11, FS_Bijection DEF F, T

\* The tail of a region is the next one after its first block.
LEMMA TailOfRegion ==
  ASSUME Linked(pool.block), NEW k, NEW e, NEW l, RegionOf(pool.block, k, e, l)
  PROVE  TailOf(Start(k)) = l
<1> DEFINE B == pool.block
           S == {t \in Tails : t > Start(k)}
<1>1. /\ Start(k) \in Nat /\ l \in Nat /\ l \in TailsOf(B) /\ Start(k) < l
      /\ \A x \in FirstsOf(B) \cup TailsOf(B) : ~(Start(k) < x /\ x < l)
  BY RegionTyped
<1>2. Tails = TailsOf(B)
  BY StateTyped DEF Heads, TailsOf
<1>3. TailsOf(B) \subseteq Nat
  BY BlockTyped DEF TailsOf
<1> HIDE DEF B
<1>4. l \in S /\ S \subseteq Nat /\ \A x \in S : l <= x
  BY <1>1, <1>2, <1>3
<1> HIDE DEF S
<1>5. \A x \in S : (\A y \in S : x <= y) => x = l
  BY <1>1, <1>4
<1>6. Min(S) = l
  BY <1>4, <1>5 DEF Min
<1> QED
  BY <1>6 DEF TailOf, S

\* What a region takes up are its pages.
LEMMA RegionPages ==
  ASSUME NEW B, Linked(B), NEW k, NEW e, NEW l, RegionOf(B, k, e, l)
  PROVE  PagesAt(Start(k), l + Header - Start(k)) = k .. (e - 1)
<1>1. /\ k \in Nat /\ e \in Nat /\ k < e /\ Start(k) \in Nat /\ Start(e) \in Nat /\ l \in Nat
      /\ Start(k) < l /\ Start(e) <= l + Header + FreeSize /\ l + Header <= Start(e)
  BY RegionTyped
<1> DEFINE z == l + Header - Start(k)
           b == Start(k)
           d == Start(e)
<1>2. z \in Nat /\ b + z <= d /\ d < b + z + Page
  <2> HIDE DEF b, d
  <2>1. b \in Nat /\ d \in Nat /\ l \in Nat /\ b < l /\ d <= l + Header + FreeSize /\ l + Header <= d
    BY <1>1 DEF b, d
  <2>2. Header \in Nat /\ FreeSize \in Nat /\ Page \in Nat /\ Page > 2 * Header + FreeSize
    BY SizesTyped
  <2>3. z = l + Header - b
    BY DEF b
  <2> HIDE DEF z
  <2> QED
    BY <2>1, <2>2, <2>3
<1> HIDE DEF z
<1>3. PagesAt(b, z) = k .. (e - 1)
  BY <1>1, <1>2, PagesWithin
<1> QED
  BY <1>3 DEF z

\* The pages of all regions are those of the pool.
LEMMA PagesMapped ==
  ASSUME Linked(pool.block), Regioned(pool.block, pool.mapped)
  PROVE  pool.mapped = UNION {PagesAt(f, TailOf(f) + Header - f) : f \in Firsts}
<1> DEFINE B == pool.block
           G(f) == PagesAt(f, TailOf(f) + Header - f)
<1>1. Firsts = FirstsOf(B)
  BY StateTyped
<1>2. ASSUME NEW k, NEW e, NEW l, RegionOf(B, k, e, l) PROVE G(Start(k)) = k .. (e - 1) /\ Start(k) \in Firsts
  BY <1>1, <1>2, TailOfRegion, RegionPages, RegionTyped
<1> HIDE DEF G
<1>3. ASSUME NEW p \in pool.mapped PROVE \E f \in Firsts : p \in G(f)
  <2>1. PICK k, e, l : RegionOf(B, k, e, l) /\ p \in k .. (e - 1)
    BY DEF Regioned, RegionedBy, RegionOf
  <2> QED
    BY <1>2, <2>1
<1>4. ASSUME NEW f \in Firsts, NEW p \in G(f) PROVE p \in pool.mapped
  <2>1. PICK k, e, l : RegionOf(B, k, e, l) /\ Start(k) = f
    BY <1>1, FirstRegion
  <2>2. p \in k .. (e - 1)
    BY <1>2, <2>1
  <2> QED
    BY <2>1, <2>2 DEF Regioned, RegionedBy, RegionOf
<1>5. pool.mapped = UNION {G(f) : f \in Firsts}
  BY <1>3, <1>4
<1> QED
  BY <1>5 DEF G

\* The blocks follow each other, as many regions begin as end, and their pages are those got
\* from the system.
LEMMA BigTiled == BigInv => Tiled
<1> SUFFICES ASSUME BigInv PROVE Tiled
  OBVIOUS
<1> DEFINE B == pool.block
<1>1. Linked(B) /\ Regioned(B, pool.mapped)
  BY DEF BigInv, Kept
<1>2. ASSUME NEW m \in Headers
      PROVE  NextOf(pool, m) \in DOMAIN B /\ \A n \in DOMAIN B : m < n => NextOf(pool, m) <= n
  <2>1. m \in Heads(B) /\ m \in DOMAIN B /\ NextOf(pool, m) = After(B, m)
    BY PoolOperators, StateTyped DEF Heads
  <2> QED
    BY <1>1, <2>1 DEF Linked
<1>3. Firsts = FirstsOf(B) /\ Tails = TailsOf(B)
  BY StateTyped DEF Heads, TailsOf
<1>4. Cardinality(Firsts) = Cardinality(Tails)
  BY <1>1, <1>3, FirstsAndTails
<1>5. pool.mapped = UNION {PagesAt(f, TailOf(f) + Header - f) : f \in Firsts}
  BY <1>1, PagesMapped
<1> QED
  BY <1>2, <1>4, <1>5 DEF Tiled

\* All addresses and sizes are those of the pages that there are.
LEMMA BigTyped == BigInv => TypeOK
<1> SUFFICES ASSUME BigInv PROVE TypeOK
  OBVIOUS
<1> DEFINE B == pool.block
           X == Loose(pool)
           top == Start(PageCount + 1)
<1>1. Kept(pool, X) /\ Linked(B) /\ Regioned(B, pool.mapped) /\ Filing(B, pool.mr, pool.small, pool.tree, X)
      /\ HeldBy(B, held) /\ hung \in BOOLEAN
  BY DEF BigInv, Kept
<1>2. Page \in Nat \ {0} /\ PageCount \in Nat \ {0} /\ Header \in Nat \ {0}
  BY SizesTyped
<1>3. top = Page * (PageCount + 1) /\ top = Page * PageCount + Page /\ Page * PageCount \in Nat
  BY <1>2 DEF Start
<1> HIDE DEF X, top
<1>4. Addresses = Page .. top
  BY DEF Addresses, top
<1>5. DOMAIN B \subseteq Page .. top
  BY <1>1, <1>4 DEF Linked
<1>6. ASSUME NEW m \in DOMAIN B
      PROVE  /\ B[m].prev \in {Null} \cup Page .. top /\ B[m].size \in 0 .. Page * PageCount
             /\ B[m].used \in BOOLEAN
  <2>1. /\ m \in Nat /\ B[m].prev \in {Null} \cup Page .. top /\ B[m].size \in Nat /\ B[m].used \in BOOLEAN
    BY <1>1, <1>4, BlockTyped
  <2>2. CASE B[m].size = 0
    BY <1>3, <2>1, <2>2
  <2>3. CASE B[m].size # 0
    <3>1. After(B, m) \in DOMAIN B
      BY <1>1, <2>3 DEF Linked, Heads
    <3>2. m >= Page /\ m + Header + B[m].size <= top
      BY <1>5, <3>1 DEF After
    <3>3. B[m].size <= Page * PageCount
      <4> HIDE DEF B
      <4> DEFINE y == Page * PageCount
      <4>1. y \in Nat /\ top = y + Page
        BY <1>3
      <4> HIDE DEF y
      <4>2. B[m].size <= y
        BY <1>2, <2>1, <3>2, <4>1
      <4> QED
        BY <4>2 DEF y
    <3> QED
      BY <1>3, <2>1, <3>3
  <2> QED
    BY <2>2, <2>3
<1>7. FreeIn(B) \subseteq DOMAIN B
  BY DEF FreeIn, Heads
<1>8. {pool.cached, pool.mr} \subseteq {Null} \cup DOMAIN B /\ pool.small \cup pool.tree \subseteq DOMAIN B
  <2>1. FreeIn(B) = ({pool.mr} \ {Null}) \cup pool.small \cup pool.tree \cup X
    BY <1>1 DEF Filing
  <2>2. pool.cached \in X \cup {Null}
    BY DEF X, Loose
  <2> QED
    BY <1>7, <2>1, <2>2
<1>9. pool.mapped \subseteq 1 .. PageCount
  <2> SUFFICES ASSUME NEW p \in pool.mapped PROVE p \in 1 .. PageCount
    OBVIOUS
  <2>1. PICK k, e, l : RegionOf(B, k, e, l) /\ p \in k .. (e - 1)
    BY <1>1 DEF Regioned, RegionedBy, RegionOf
  <2>2. k \in 1 .. PageCount /\ e \in (k + 1) .. (PageCount + 1)
    BY <2>1 DEF RegionOf, Region
  <2> QED
    BY <1>2, <2>1, <2>2
<1>10. DOMAIN held \subseteq {Address(m) : m \in DOMAIN B}
  BY <1>1 DEF HeldBy, UsedIn, Heads
<1>11. DOMAIN B \subseteq Page .. Page * (PageCount + 1)
  BY <1>3, <1>5
<1>12. \A m \in DOMAIN B : /\ Prev(pool, m) \in {Null} \cup Page .. Page * (PageCount + 1)
                           /\ Size(pool, m) \in 0 .. Page * PageCount /\ IsUsed(pool, m) \in BOOLEAN
  BY <1>3, <1>6 DEF Prev, Size, IsUsed
<1> QED
  BY <1>1, <1>8, <1>9, <1>10, <1>11, <1>12 DEF TypeOK

\* Who holds a block has what he asked for.
LEMMA BigHeld == BigInv => HoldersHave
<1> SUFFICES ASSUME BigInv PROVE HoldersHave
  OBVIOUS
<1> DEFINE B == pool.block
<1>1. HeldBy(B, held) /\ Linked(B)
  BY DEF BigInv, Kept
<1>2. {k \in Headers : IsUsed(pool, k)} = UsedIn(B)
  BY StateTyped DEF IsUsed, UsedIn
<1>3. DOMAIN held = {Address(m) : m \in UsedIn(B)}
  BY <1>1 DEF HeldBy
<1>4. \A a \in DOMAIN held : held[a] <= Size(pool, a - Header)
  <2> SUFFICES ASSUME NEW a \in DOMAIN held PROVE held[a] <= Size(pool, a - Header)
    OBVIOUS
  <2> DEFINE m == a - Header
  <2>1. m \in UsedIn(B) /\ Address(m) = a
    BY <1>1, AddressOf
  <2> HIDE DEF m
  <2>2. held[Address(m)] <= B[m].size
    BY <1>1, <2>1 DEF HeldBy
  <2> QED
    BY <2>1, <2>2 DEF Size, m
<1> QED
  BY <1>2, <1>3, <1>4 DEF HoldersHave

\* The pool's headers partition the memory that it has from the system, and the blocks in use
\* are those handed out, none smaller than asked for.
THEOREM ConsistentHolds == Spec => []Consistent
<1>1. BigInv => Consistent
  BY BigTyped, BigTiled, BigHeld DEF Consistent
<1> QED
  BY <1>1, BigInvHolds, PTL

-----------------------------------------------------------------------------
(***************************************************************************)
(* The sum of the sizes of some blocks.                                    *)
(***************************************************************************)

\* f sums the sizes of any of the blocks S, in the order in which CHOOSE takes them.
Pick(t) == CHOOSE x \in t : TRUE
AddsUp(s, f, t) == f[t] = IF t = {} THEN 0 ELSE Size(s, Pick(t)) + f[t \ {Pick(t)}]
Sums(s, S) == CHOOSE f : f = [t \in SUBSET S |-> IF t = {} THEN 0 ELSE Size(s, Pick(t)) + f[t \ {Pick(t)}]]

\* MapThenSumSet is such a function.
LEMMA SumIs ==
  ASSUME NEW s, NEW S
  PROVE  MapThenSumSet(LAMBDA k : Size(s, k), S) = Sums(s, S)[S]
  BY Zenon DEF MapThenSumSet, MapThenFoldSet, Sums, Pick

\* There is one for a finite set.
LEMMA SumsExist ==
  ASSUME NEW s, NEW S, IsFiniteSet(S)
  PROVE  \A t \in SUBSET S : AddsUp(s, Sums(s, S), t)
<1> DEFINE Good == {n \in Nat : \E g : \A t \in SUBSET S : Cardinality(t) <= n => AddsUp(s, g, t)}
<1>1. \A t \in SUBSET S : IsFiniteSet(t) /\ Cardinality(t) \in Nat /\ Cardinality(t) <= Cardinality(S)
  BY FS_Subset, FS_CardinalityType
<1>2. \A t \in SUBSET S : t # {} => /\ Pick(t) \in t /\ t \ {Pick(t)} \in SUBSET S
                                    /\ Cardinality(t \ {Pick(t)}) = Cardinality(t) - 1
  <2> SUFFICES ASSUME NEW t \in SUBSET S, t # {}
               PROVE  Pick(t) \in t /\ t \ {Pick(t)} \in SUBSET S /\ Cardinality(t \ {Pick(t)}) = Cardinality(t) - 1
    OBVIOUS
  <2>1. Pick(t) \in t
    BY DEF Pick
  <2> QED
    BY <1>1, <2>1, FS_RemoveElement
<1>3. 0 \in Good
  <2> DEFINE g == [t \in SUBSET S |-> 0]
  <2>1. ASSUME NEW t \in SUBSET S, Cardinality(t) <= 0 PROVE AddsUp(s, g, t)
    <3>1. t = {}
      BY <1>1, <2>1, FS_EmptySet
    <3> QED
      BY <3>1 DEF AddsUp
  <2> HIDE DEF g
  <2> QED
    BY <2>1
<1>4. ASSUME NEW n \in Good PROVE n + 1 \in Good
  <2>1. PICK g : \A t \in SUBSET S : Cardinality(t) <= n => AddsUp(s, g, t)
    OBVIOUS
  <2> DEFINE h == [t \in SUBSET S |-> IF t = {} THEN 0 ELSE Size(s, Pick(t)) + g[t \ {Pick(t)}]]
  <2>2. \A t \in SUBSET S : h[t] = IF t = {} THEN 0 ELSE Size(s, Pick(t)) + g[t \ {Pick(t)}]
    OBVIOUS
  <2> HIDE DEF h
  <2>3. \A t \in SUBSET S : Cardinality(t) <= n => h[t] = g[t]
    BY <2>1, <2>2 DEF AddsUp
  <2>4. ASSUME NEW t \in SUBSET S, Cardinality(t) <= n + 1 PROVE AddsUp(s, h, t)
    <3>1. CASE t = {}
      BY <2>2, <3>1 DEF AddsUp
    <3>2. CASE t # {}
      <4>1. t \ {Pick(t)} \in SUBSET S /\ Cardinality(t \ {Pick(t)}) = Cardinality(t) - 1 /\ Cardinality(t) \in Nat
        BY <1>1, <1>2, <3>2
      <4>2. Cardinality(t \ {Pick(t)}) <= n
        BY <2>4, <4>1
      <4>3. h[t \ {Pick(t)}] = g[t \ {Pick(t)}]
        BY <2>3, <4>1, <4>2
      <4> QED
        BY <2>2, <3>2, <4>3 DEF AddsUp
    <3> QED
      BY <3>1, <3>2
  <2>5. \E f : \A t \in SUBSET S : Cardinality(t) <= n + 1 => AddsUp(s, f, t)
    BY <2>4
  <2> QED
    BY <2>5
<1>5. Good = Nat
  <2>1. Good \in SUBSET Nat
    OBVIOUS
  <2> HIDE DEF Good
  <2> QED
    BY <1>3, <1>4, <2>1, SetInduction
<1>6. PICK g : \A t \in SUBSET S : AddsUp(s, g, t)
  <2>1. Cardinality(S) \in Good
    BY <1>1, <1>5
  <2> QED
    BY <1>1, <2>1
<1> HIDE DEF Good
<1> DEFINE f == [t \in SUBSET S |-> g[t]]
<1>7. f = [t \in SUBSET S |-> IF t = {} THEN 0 ELSE Size(s, Pick(t)) + f[t \ {Pick(t)}]]
  <2>1. ASSUME NEW t \in SUBSET S
        PROVE  g[t] = IF t = {} THEN 0 ELSE Size(s, Pick(t)) + f[t \ {Pick(t)}]
    <3>1. CASE t = {}
      BY <1>6, <3>1 DEF AddsUp
    <3>2. CASE t # {}
      <4>1. f[t \ {Pick(t)}] = g[t \ {Pick(t)}]
        BY <1>2, <3>2
      <4> HIDE DEF f
      <4> QED
        BY <1>6, <3>2, <4>1 DEF AddsUp
    <3> QED
      BY <3>1, <3>2
  <2> QED
    BY <2>1
<1> HIDE DEF f
<1>8. Sums(s, S) = [t \in SUBSET S |-> IF t = {} THEN 0 ELSE Size(s, Pick(t)) + Sums(s, S)[t \ {Pick(t)}]]
  BY <1>7, Zenon DEF Sums
<1> DEFINE F == Sums(s, S)
<1>9. F = [t \in SUBSET S |-> IF t = {} THEN 0 ELSE Size(s, Pick(t)) + F[t \ {Pick(t)}]]
  BY <1>8
<1> HIDE DEF F
<1>10. \A t \in SUBSET S : AddsUp(s, F, t)
  BY <1>9 DEF AddsUp
<1> QED
  BY <1>10 DEF F

-----------------------------------------------------------------------------
\* The memory of some blocks.
Extents(s, t) == UNION {m .. ((m + Size(s, m)) - 1) : m \in t}

\* Blocks do not overlap: their sizes add up to what they have together.
LEMMA SumIsExtent ==
  ASSUME NEW s, Linked(s.block), NEW S, S \subseteq DOMAIN s.block, IsFiniteSet(S)
  PROVE  \A t \in SUBSET S : IsFiniteSet(Extents(s, t)) /\ Cardinality(Extents(s, t)) = Sums(s, S)[t]
<1> DEFINE F == Sums(s, S)
           E(m) == m .. ((m + Size(s, m)) - 1)
           Right(t) == IsFiniteSet(Extents(s, t)) /\ Cardinality(Extents(s, t)) = F[t]
           Good == {n \in Nat : \A t \in SUBSET S : Cardinality(t) = n => Right(t)}
<1>1. \A t \in SUBSET S : AddsUp(s, F, t)
  BY SumsExist
<1>2. \A t \in SUBSET S : IsFiniteSet(t) /\ Cardinality(t) \in Nat
  BY FS_Subset, FS_CardinalityType
<1>3. ASSUME NEW m \in S PROVE IsFiniteSet(E(m)) /\ Cardinality(E(m)) = Size(s, m) /\ m \in Nat /\ Size(s, m) \in Nat
  <2>1. m \in Nat /\ Size(s, m) \in Nat
    BY BlockTyped DEF Size
  <2> DEFINE z == Size(s, m)
  <2> HIDE DEF z
  <2>2. IsFiniteSet(m .. ((m + z) - 1)) /\ Cardinality(m .. ((m + z) - 1)) = z
    <3>1. m \in Int /\ (m + z) - 1 \in Int /\ m \in Nat /\ z \in Nat
      BY <2>1 DEF z
    <3>2. Cardinality(m .. ((m + z) - 1)) = IF m > (m + z) - 1 THEN 0 ELSE ((m + z) - 1) - m + 1
      BY <3>1, FS_Interval
    <3>3. IsFiniteSet(m .. ((m + z) - 1))
      BY <3>1, FS_Interval
    <3> QED
      BY <3>1, <3>2, <3>3
  <2> QED
    BY <2>1, <2>2 DEF z
<1>4. ASSUME NEW m \in S, NEW n \in S, m # n PROVE E(m) \cap E(n) = {}
  <2>1. m \in Nat /\ n \in Nat /\ Size(s, m) \in Nat /\ Size(s, n) \in Nat /\ Header \in Nat
    BY <1>3, SizesTyped
  <2>2. (m < n => m + Header + Size(s, m) <= n) /\ (n < m => n + Header + Size(s, n) <= m)
    BY DEF Linked, After, Size
  <2> QED
    BY <1>4, <2>1, <2>2
<1> HIDE DEF F, E
<1>5. Right({})
  <2>1. Extents(s, {}) = {}
    BY DEF Extents
  <2>2. F[{}] = 0
    BY <1>1 DEF AddsUp
  <2> QED
    BY <2>1, <2>2, FS_EmptySet
<1>6. 0 \in Good
  <2>1. \A t \in SUBSET S : Cardinality(t) = 0 => t = {}
    BY <1>2, FS_EmptySet
  <2> HIDE DEF Right
  <2> QED
    BY <1>5, <2>1
<1>7. ASSUME NEW n \in Good PROVE n + 1 \in Good
  <2> SUFFICES ASSUME NEW t \in SUBSET S, Cardinality(t) = n + 1 PROVE Right(t)
    BY DEF Good
  <2>1. t # {}
    BY <1>2, FS_EmptySet
  <2> DEFINE x == Pick(t)
             u == t \ {x}
  <2>2. x \in t
    BY <2>1 DEF Pick
  <2>3. F[t] = Size(s, x) + F[u]
    BY <1>1, <2>1 DEF AddsUp
  <2> HIDE DEF x
  <2>4. u \in SUBSET S /\ Cardinality(u) = n
    BY <1>2, <2>2, FS_RemoveElement
  <2>5. Right(u)
    BY <2>4
  <2>6. Extents(s, t) = E(x) \cup Extents(s, u)
    BY <2>2 DEF Extents, E
  <2>7. E(x) \cap Extents(s, u) = {}
    <3> SUFFICES ASSUME NEW y \in E(x), NEW m \in u, y \in E(m) PROVE FALSE
      BY DEF Extents, E
    <3>1. m \in S /\ x \in S /\ m # x
      BY <2>2
    <3> QED
      BY <1>4, <3>1
  <2>8. IsFiniteSet(E(x)) /\ Cardinality(E(x)) = Size(s, x) /\ Size(s, x) \in Nat
    BY <1>3, <2>2
  <2> DEFINE A == E(x)
             D == Extents(s, u)
  <2>9. IsFiniteSet(A) /\ IsFiniteSet(D) /\ A \cap D = {} /\ Cardinality(A) = Size(s, x) /\ Cardinality(D) = F[u]
    BY <2>5, <2>7, <2>8
  <2> HIDE DEF A, D
  <2>10. IsFiniteSet(A \cup D) /\ Cardinality(A \cup D) = Cardinality(A) + Cardinality(D)
    <3>1. Cardinality(A \cap D) = 0
      BY <2>9, FS_EmptySet
    <3>2. IsFiniteSet(A \cup D) /\ Cardinality(A \cup D) = Cardinality(A) + Cardinality(D) - Cardinality(A \cap D)
      BY <2>9, FS_Union
    <3>3. Cardinality(A) \in Nat /\ Cardinality(D) \in Nat
      BY <2>9, FS_CardinalityType
    <3> QED
      BY <3>1, <3>2, <3>3
  <2>11. Extents(s, t) = A \cup D
    BY <2>6 DEF A, D
  <2> QED
    BY <2>3, <2>9, <2>10, <2>11
<1>8. Good = Nat
  <2>1. Good \in SUBSET Nat
    OBVIOUS
  <2> HIDE DEF Good
  <2> QED
    BY <1>6, <1>7, <2>1, SetInduction
<1> HIDE DEF Right
<1>9. \A t \in SUBSET S : Right(t)
  BY <1>2, <1>8
<1> QED
  BY <1>9 DEF Right, F

\* The blocks of S have at most all memory.
AllMemory(s, S) == MapThenSumSet(LAMBDA k : Size(s, k), S) <= Unlimited

\* No blocks have more than all memory.
LEMMA SumBounded ==
  ASSUME NEW s, Linked(s.block), NEW S, S \subseteq Heads(s.block)
  PROVE  AllMemory(s, S)
<1> DEFINE top == Start(PageCount + 1)
           B == s.block
<1>1. Page \in Nat \ {0} /\ PageCount \in Nat \ {0} /\ Header \in Nat
  BY SizesTyped
<1>2. top = Page + Unlimited /\ Unlimited \in Nat
  BY <1>1 DEF Start, Unlimited
<1> HIDE DEF top
<1>3. DOMAIN B \subseteq Page .. top
  BY DEF Linked, Addresses, top
<1>4. S \subseteq DOMAIN B
  BY DEF Heads
<1>5. IsFiniteSet(S)
  <2>1. Page \in Int /\ top \in Int
    BY <1>1, <1>2
  <2> QED
    BY <1>3, <1>4, <2>1, FS_Interval, FS_Subset
<1> DEFINE E == Extents(s, S)
           I == Page .. (top - 1)
<1>6. IsFiniteSet(E) /\ Cardinality(E) = Sums(s, S)[S]
  BY <1>4, <1>5, SumIsExtent
<1>7. E \subseteq I
  <2> SUFFICES ASSUME NEW m \in S, NEW x \in m .. ((m + Size(s, m)) - 1) PROVE x \in I
    BY DEF Extents
  <2>1. m \in Page .. top /\ m \in DOMAIN B
    BY <1>3, <1>4
  <2>2. m + Header + Size(s, m) \in Page .. top
    BY <1>3 DEF Linked, After, Size
  <2>3. m \in Nat /\ Size(s, m) \in Nat
    BY <1>4, BlockTyped DEF Size
  <2> DEFINE z == Size(s, m)
  <2>4. z \in Nat /\ m + Header + z \in Page .. top /\ x \in m .. ((m + z) - 1)
    BY <2>2, <2>3
  <2> HIDE DEF z
  <2> QED
    BY <1>1, <1>2, <2>1, <2>3, <2>4
<1> HIDE DEF E
<1>8. IsFiniteSet(I) /\ Cardinality(I) = Unlimited
  <2>1. Page \in Int /\ top - 1 \in Int
    BY <1>1, <1>2
  <2>2. IsFiniteSet(I) /\ Cardinality(I) = IF Page > top - 1 THEN 0 ELSE (top - 1) - Page + 1
    BY <2>1, FS_Interval
  <2> QED
    BY <1>1, <1>2, <2>2
<1> HIDE DEF I
<1>9. Cardinality(E) <= Unlimited
  BY <1>7, <1>8, FS_Subset
<1> QED
  BY <1>6, <1>9, SumIs DEF AllMemory

-----------------------------------------------------------------------------
(***************************************************************************)
(* What release_memory leaves when no block is in use.                     *)
(***************************************************************************)

\* Then each region is one free block.
AllFree(s) ==
  /\ \A m \in Heads(s.block) : /\ m \in FreeIn(s.block) /\ IsWhole(s, m) /\ s.block[m].size >= SmallSize
  /\ \A d \in DOMAIN s.block : d \in Heads(s.block) \/ \E m \in Heads(s.block) : d = After(s.block, m)
  /\ \A m \in Heads(s.block), n \in Heads(s.block) : After(s.block, m) # n

\* No block in use, and no two free ones that meet.
LEMMA UnusedAllFree ==
  ASSUME NEW s, NEW X, Kept(s, X), Tagged(s.block), Apart(s.block, {}), UsedIn(s.block) = {}
  PROVE  AllFree(s)
<1> DEFINE B == s.block
<1>1. Linked(B) /\ Regioned(B, s.mapped) /\ Heads(B) = FreeIn(B) /\ Heads(B) \subseteq DOMAIN B
  BY KeptBlocks DEF Kept
<1>2. \A m \in Heads(B), n \in Heads(B) : After(B, m) # n
  BY <1>1 DEF Apart
<1>3. ASSUME NEW m \in Heads(B)
      PROVE  B[m].prev = Null /\ After(B, m) \in TailsOf(B)
  <2>1. After(B, m) \in DOMAIN B
    BY <1>1 DEF Linked
  <2> QED
    BY <1>2, <2>1 DEF Tagged, Heads, TailsOf
<1>4. ASSUME NEW m \in Heads(B) PROVE IsWhole(s, m) /\ B[m].size >= SmallSize
  <2>1. IsWhole(s, m)
    BY <1>3, PoolOperators DEF IsWhole, TailsOf
  <2>2. m \in FirstsOf(B)
    BY <1>3 DEF FirstsOf
  <2>3. PICK k, e, t : RegionOf(B, k, e, t) /\ Start(k) = m
    BY <1>1, <2>2, FirstRegion
  <2>4. t = After(B, m)
    BY <1>1, <1>3, <2>3, WholePages
  <2>5. k \in Nat /\ e \in Nat /\ k < e /\ Start(k) \in Nat /\ Start(e) \in Nat
        /\ Start(e) <= t + Header + FreeSize
    BY <1>1, <2>3, RegionTyped
  <2>6. Start(k) + Page <= Start(e)
    BY <2>5, Starts
  <2>7. m \in Nat /\ B[m].size \in Nat
    BY <1>1, BlockTyped
  <2> DEFINE z == B[m].size
  <2>8. z \in Nat /\ m + Page <= m + Header + z + Header + FreeSize
    <3>1. m + Page <= t + Header + FreeSize
      <4> DEFINE d == Start(e)
      <4>1. d \in Nat /\ m + Page <= d /\ d <= t + Header + FreeSize /\ t \in Nat
        BY <1>1, <2>3, <2>5, <2>6, RegionTyped
      <4> HIDE DEF d
      <4> QED
        BY <2>7, <4>1, SizesTyped
    <3> QED
      BY <2>4, <2>7, <3>1 DEF After
  <2> HIDE DEF z
  <2>9. z >= SmallSize
    BY <2>7, <2>8, SizesTyped
  <2> QED
    BY <2>1, <2>9 DEF z
<1>5. ASSUME NEW d \in DOMAIN B, d \notin Heads(B) PROVE \E m \in Heads(B) : d = After(B, m)
  <2>1. d \in TailsOf(B)
    BY <1>5 DEF Heads, TailsOf
  <2>2. PICK k, e : RegionOf(B, k, e, d)
    BY <1>1, <2>1, TailRegion
  <2>3. Start(k) \in Heads(B)
    BY <1>1, <2>2, RegionTyped
  <2>4. d = After(B, Start(k))
    BY <1>1, <1>3, <2>2, <2>3, WholePages
  <2> QED
    BY <2>3, <2>4
<1> QED
  BY <1>1, <1>2, <1>4, <1>5 DEF AllFree

\* Then release_memory gives back all regions but that of the recent block.
LEMMA RecycleEmpties ==
  ASSUME NEW s0, Kept(s0, Loose(s0)), Tagged(s0.block), Apart(s0.block, {}), UsedIn(s0.block) = {}
  PROVE  LET r == Recycle(s0, Unlimited)
         IN /\ r.tree = {} /\ r.small = {}
            /\ DOMAIN r.block \subseteq {r.mr} \cup {NextOf(r, m) : m \in {r.mr} \ {Null}}
<1> DEFINE s == Uncached(s0)
           B == s.block
           R == Returned(s, Unlimited)
           G == R \cup {NextOf(s, m) : m \in R}
           r == Recycle(s0, Unlimited)
           X == Loose(s)
<1>1. Quiet(s0, s) /\ s.cached = Null
  BY UncachedQuiet
<1>2. r = [s EXCEPT !.tree = @ \ R, !.block = Restrict(@, DOMAIN @ \ G),
                    !.mapped = @ \ UNION {Unmapped(s, m) : m \in R}]
  BY DEF Recycle
<1> HIDE DEF r, s
<1>3. Kept(s, X) /\ Tagged(B) /\ Apart(B, {}) /\ UsedIn(B) = {} /\ X = {}
  BY <1>1 DEF Quiet, Loose
<1> HIDE DEF X
<1>4. AllFree(s)
  BY <1>3, UnusedAllFree
<1>5. /\ FreeIn(B) = ({s.mr} \ {Null}) \cup s.small \cup s.tree /\ s.mr \notin s.tree
      /\ \A m \in s.small : B[m].size < SmallSize
      /\ Linked(B) /\ Heads(B) = FreeIn(B) /\ Null \notin DOMAIN B /\ Heads(B) \subseteq DOMAIN B
  <2>1. Filing(B, s.mr, s.small, s.tree, X) /\ Linked(B) /\ Heads(B) \subseteq DOMAIN B /\ Heads(B) = FreeIn(B)
    BY <1>3, KeptBlocks DEF Kept
  <2>2. Null \notin DOMAIN B
    BY <2>1, BlockTyped
  <2> HIDE DEF B
  <2>3. Filing(B, s.mr, s.small, s.tree, {})
    BY <1>3, <2>1
  <2> QED
    BY <2>1, <2>2, <2>3 DEF Filing
<1>6. s.small = {}
  <2> SUFFICES ASSUME NEW m \in s.small PROVE FALSE
    OBVIOUS
  <2>1. m \in Heads(B) /\ B[m].size < SmallSize
    BY <1>5
  <2>2. B[m].size >= SmallSize /\ B[m].size \in Nat
    BY <1>4, <1>5, <2>1, BlockTyped DEF AllFree
  <2> QED
    BY <2>1, <2>2, SizesTyped
<1>7. R = s.tree
  <2> SUFFICES ASSUME NEW m \in s.tree PROVE m \in R
    BY DEF Returned
  <2>1. m \in Heads(B)
    BY <1>5
  <2>2. IsWhole(s, m)
    BY <1>4, <2>1 DEF AllFree
  <2> DEFINE P == Before(s, m)
  <2>3. P \subseteq Heads(B)
    BY <1>5 DEF Before
  <2> HIDE DEF P
  <2>4. AllMemory(s, P)
    <3>1. Linked(s.block) /\ P \subseteq Heads(s.block)
      BY <1>5, <2>3
    <3> QED
      BY <3>1, SumBounded
  <2> QED
    BY <2>2, <2>4, Zenon DEF Returned, P, AllMemory
<1> HIDE DEF R
<1>8. /\ s = [block |-> s.block, cached |-> s.cached, mr |-> s.mr, small |-> s.small,
              tree |-> s.tree, mapped |-> s.mapped]
  BY <1>3 DEF Kept, IsPool
<1> DEFINE C == Restrict(B, DOMAIN B \ G)
<1>9. r.tree = s.tree \ R /\ r.small = s.small /\ r.mr = s.mr /\ r.block = C
  <2> HIDE DEF G
  <2> QED
    BY <1>2, <1>8
<1>10. DOMAIN C = DOMAIN B \ G /\ \A m \in DOMAIN C : C[m] = B[m]
  BY DEF Restrict
<1> HIDE DEF C
<1>11. \A m : NextOf(s, m) = After(B, m)
  BY PoolOperators
<1>12. ASSUME NEW d \in DOMAIN C, d # s.mr
       PROVE  s.mr # Null /\ d = NextOf(r, s.mr)
  <2>1. d \in DOMAIN B /\ d \notin s.tree /\ \A m \in s.tree : d # After(B, m)
    BY <1>7, <1>10, <1>11
  <2>2. d \notin Heads(B)
    BY <1>5, <1>6, <1>12, <2>1
  <2>3. PICK m \in Heads(B) : d = After(B, m)
    BY <1>4, <2>1, <2>2 DEF AllFree
  <2>4. m = s.mr /\ m # Null
    BY <1>5, <1>6, <2>1, <2>3
  <2>5. m \in DOMAIN C
    <3>1. m \notin s.tree /\ m \in DOMAIN B
      BY <1>5, <2>4
    <3>2. \A n \in s.tree : After(B, n) # m
      BY <1>4, <1>5, <2>3 DEF AllFree
    <3> QED
      BY <1>7, <1>10, <1>11, <3>1, <3>2
  <2>6. NextOf(r, m) = After(C, m) /\ After(C, m) = After(B, m)
    BY <1>9, <1>10, <2>5, PoolOperators DEF After
  <2> QED
    BY <2>3, <2>4, <2>6
<1>13. DOMAIN r.block \subseteq {r.mr} \cup {NextOf(r, m) : m \in {r.mr} \ {Null}}
  BY <1>9, <1>12
<1> QED
  BY <1>6, <1>7, <1>9, <1>13 DEF r

\* When everything has been freed release_memory leaves nothing in the tree and the list, and
\* one region at most.
THEOREM ReleaseLeavesOneHolds == Spec => ReleaseLeavesOne
<1> DEFINE Left ==
      ReleaseMemory(Unlimited) /\ held = <<>>
        => pool'.tree = {} /\ pool'.small = {} /\ DOMAIN pool'.block \subseteq
             {pool'.mr} \cup {NextOf(pool', m) : m \in {pool'.mr} \ {Null}}
<1>1. BigInv => Left
  <2> SUFFICES ASSUME BigInv, ReleaseMemory(Unlimited), held = <<>>
               PROVE  pool'.tree = {} /\ pool'.small = {} /\ DOMAIN pool'.block \subseteq
                        {pool'.mr} \cup {NextOf(pool', m) : m \in {pool'.mr} \ {Null}}
    OBVIOUS
  <2>1. /\ Kept(pool, Loose(pool)) /\ Apart(pool.block, {}) /\ HeldBy(pool.block, held)
        /\ Tagged(pool.block)
    BY StateTyped DEF BigInv, ReleaseMemory, Works
  <2>2. pool' = Recycle(pool, Unlimited)
    BY DEF ReleaseMemory
  <2>3. UsedIn(pool.block) = {}
    BY <2>1 DEF HeldBy
  <2> QED
    BY <2>1, <2>2, <2>3, RecycleEmpties
<1>2. BigInv => [Left]_vars
  BY <1>1
<1> QED
  BY <1>2, BigInvHolds, PTL DEF Spec, ReleaseLeavesOne

=============================================================================
