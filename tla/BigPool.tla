------------------------------- MODULE BigPool -------------------------------
(***************************************************************************)
(* big_memory_pool: blocks of any size, cut out of regions got from the    *)
(* system.  A block begins with a header, a MemBlock: where the one before *)
(* it begins, its size and whether it is used.  A region ends with a used  *)
(* block of size 0, its tail.  Free blocks that meet are merged, and each  *)
(* is kept in one of four places: cached_block_, mr_block_, the list of    *)
(* small blocks, or the tree in which the best fit is searched.            *)
(*                                                                         *)
(* Addresses and sizes are numbers, with the pages of the system at the    *)
(* multiples of Page; the operations on the pool are functions from pools  *)
(* to pools, as one operation calls others under its lock.                 *)
(***************************************************************************)
EXTENDS Integers, FiniteSetsExt, Functions

CONSTANTS
  Header,       \* sizeof(MemBlock), also the alignment of blocks
  FreeSize,     \* sizeof(FreeBlock)
  SmallSize,    \* MAX_SMALL_ALLOCATION
  Page,         \* details::PAGE_SIZE
  PageCount,    \* bound: pages the system has
  Sizes,        \* bound: sizes asked for
  Budgets       \* bound: what release_memory is asked to give back

ASSUME SizesAssumption ==
  /\ {Header, FreeSize, SmallSize, Page, PageCount} \subseteq Nat \ {0}
  /\ Sizes \subseteq Nat \ {0} /\ Budgets \subseteq Nat
  /\ Page >= 2 * Header + FreeSize + SmallSize   \* 4096 and 256 in the code, the others less

VARIABLES
  mutex,  \* the template argument: null_mutex, or mutex_t, a pthread_mutex, which who locks
          \* it twice waits for for ever
  pool,   \* [block, cached, mr, small, tree, mapped]: the headers by address, the four
          \* places of free blocks, and the pages got from the system
  held,   \* history: for each address handed out and not freed the size asked for
  hung    \* a thread waits for the lock that it holds itself

vars == <<mutex, pool, held, hung>>

Null == 0

Init ==
  /\ mutex \in {"null_mutex", "mutex_t"}
  /\ pool = [block |-> <<>>, cached |-> Null, mr |-> Null, small |-> {}, tree |-> {}, mapped |-> {}]
  /\ held = <<>>
  /\ hung = FALSE

-----------------------------------------------------------------------------
\* f with v at k.
With(f, k, v) == [i \in DOMAIN f \cup {k} |-> IF i = k THEN v ELSE f[i]]

\* Blocks of pool s.
Size(s, m) == s.block[m].size
Prev(s, m) == s.block[m].prev
IsUsed(s, m) == s.block[m].used
NextOf(s, m) == m + Header + Size(s, m)

\* Block m with the block n behind it: the header of n becomes memory of m, and the
\* block after n points back to m.
Merge(s, m, n) ==
  LET grown == [s.block EXCEPT ![m].size = @ + Header + Size(s, n), ![NextOf(s, n)].prev = m]
  IN [s EXCEPT !.block = Restrict(grown, DOMAIN grown \ {n})]

\* split_block: the rest of m becomes a block of its own, if it is worth it.
CanSplit(s, m, sz) == Size(s, m) > sz + Header + FreeSize
RestOf(m, sz) == m + Header + sz
Split(s, m, sz) ==
  LET rest == [prev |-> m, size |-> Size(s, m) - sz - Header, used |-> FALSE]
  IN [s EXCEPT !.block =
        With([@ EXCEPT ![m].size = sz, ![NextOf(s, m)].prev = RestOf(m, sz)], RestOf(m, sz), rest)]

\* insert_free_block: m becomes the most recent block, which goes to the list or the
\* tree.  (Mutant first: it goes to the tree whatever its size.)
InsertInTree(s, m) ==
  [s EXCEPT !.mr = m, !.tree = IF s.mr = Null THEN @ ELSE @ \cup {s.mr}]
InsertFreeBlock(s, m) ==
  LET old == {s.mr} \ {Null}
      isSmall == \E o \in old : Size(s, o) < SmallSize
  IN [s EXCEPT !.mr = m,
               !.small = IF isSmall THEN @ \cup old ELSE @,
               !.tree = IF isSmall THEN @ ELSE @ \cup old]

EraseFreeBlock(s, m) ==
  IF m = s.mr THEN [s EXCEPT !.mr = Null]
  ELSE IF Size(s, m) < SmallSize THEN [s EXCEPT !.small = @ \ {m}]
  ELSE [s EXCEPT !.tree = @ \ {m}]

\* reorganize_freeblock: m with its free neighbours.
\* (Mutant first: only with the one behind it.)
WithNext(s, m) ==
  LET n == NextOf(s, m) IN IF IsUsed(s, n) THEN s ELSE Merge(EraseFreeBlock(s, n), m, n)
ReorganizeNext(s, m) == [pool |-> WithNext(s, m), at |-> m]
Reorganize(s, m) ==
  LET s1 == WithNext(s, m)
      p == Prev(s1, m)
  IN IF p = Null \/ IsUsed(s1, p) THEN [pool |-> s1, at |-> m]
     ELSE [pool |-> Merge(EraseFreeBlock(s1, p), p, m), at |-> p]

-----------------------------------------------------------------------------
\* A region that is one block.
IsWhole(s, m) == Prev(s, m) = Null /\ Size(s, NextOf(s, m)) = 0
Adjacent(s, m, n) == Prev(s, m) = n \/ Prev(s, n) = m
Cached(r) == [r.pool EXCEPT !.cached = r.at]
\* The cached block makes room for m.
Replaced(s, m) == [InsertFreeBlock(s, s.cached) EXCEPT !.cached = m]
LargerCached(s, m) ==
  IF Size(s, m) > Size(s, s.cached) THEN Replaced(s, m) ELSE InsertFreeBlock(s, m)
\* Of two neighbours the first with the second.
Joined(s, m, n) == IF Prev(s, m) = n THEN [pool |-> Merge(s, n, m), at |-> n]
                                     ELSE [pool |-> Merge(s, m, n), at |-> m]

\* add_free_block_from_free: m is free from now on.
AddFreed(s0, m) ==
  LET s == [s0 EXCEPT !.block[m].used = FALSE]
      c == s.cached
      join(t, b) == LET j == Joined(t, b, c) IN Cached(Reorganize(j.pool, j.at))
      r == Reorganize(s, m)
  IN IF c = Null THEN Cached(r)
     ELSE IF IsWhole(s, c) THEN Cached(Reorganize(InsertFreeBlock(s, c), m))
     ELSE IF Adjacent(s, m, c) THEN join(s, m)
     ELSE IF Adjacent(r.pool, r.at, c) THEN join(r.pool, r.at)
     ELSE LargerCached(r.pool, r.at)

\* add_free_block: m has been split off a used block, so that at most the cached block
\* is its neighbour.
AddSplit(s, m) ==
  LET c == s.cached
  IN IF c = Null THEN [s EXCEPT !.cached = m]
     ELSE IF IsWhole(s, c) THEN Replaced(s, m)
     ELSE IF Adjacent(s, m, c) THEN Cached(Joined(s, m, c))
     ELSE IF Size(s, c) > Size(s, m) THEN InsertFreeBlock(s, m)
     ELSE Replaced(s, m)

SplitOff(s, m, sz) == IF CanSplit(s, m, sz) THEN AddSplit(Split(s, m, sz), RestOf(m, sz)) ELSE s
\* (Mutant first: the block is not marked.)
Unmarked(s, m) == s
Taken(s, m) == [s EXCEPT !.block[m].used = TRUE]

-----------------------------------------------------------------------------
\* The size of the block for n bytes.
RoundUp(n, k) == ((n + k - 1) \div k) * k
BlockSize(n) == RoundUp(IF n < FreeSize THEN FreeSize ELSE n, Header)

\* tree_alloc without the system: of the cached block, of the recent one, or the best fit
\* (any, of several equal ones, for the one the tree's chain has next).
Splittable(s, sz) ==
  IF s.cached # Null /\ CanSplit(s, s.cached, sz) THEN "cached"
  ELSE IF s.mr # Null /\ CanSplit(s, s.mr, sz) THEN "mr" ELSE "none"
Fitting(s, sz) == {m \in s.tree : Size(s, m) >= sz}
BestFits(s, sz) == {m \in Fitting(s, sz) : \A k \in Fitting(s, sz) : Size(s, m) <= Size(s, k)}

FromPool(s, sz) ==
  CASE Splittable(s, sz) = "cached" ->
         {[pool |-> [Taken(Split(s, s.cached, sz), s.cached) EXCEPT !.cached = RestOf(@, sz)],
           at |-> s.cached]}
    [] Splittable(s, sz) = "mr" ->
         {[pool |-> [Taken(Split(s, s.mr, sz), s.mr) EXCEPT !.mr = RestOf(@, sz)], at |-> s.mr]}
    [] OTHER ->
         {[pool |-> SplitOff(Taken([s EXCEPT !.tree = @ \ {m}], m), m, sz), at |-> m]
            : m \in BestFits(s, sz)}

\* tree_alloc with a new region: the block, and what remains as a free block if it is
\* worth it, which wastes FreeSize bytes behind the tail.
RegionSize(sz) == RoundUp(sz + 2 * Header, Page)
PagesAt(base, n) == (base \div Page) .. ((base + RoundUp(n, Page)) \div Page) - 1
FreeBases(s, n) ==
  {b \in {k * Page : k \in 1 .. PageCount} :
     PagesAt(b, n) \subseteq (1 .. PageCount) \ s.mapped}

NewRegion(s, sz, base) ==
  LET n == RegionSize(sz)
      rest == RestOf(base, sz)
      left == n - sz - 3 * Header - FreeSize
      t == [s EXCEPT !.mapped = @ \cup PagesAt(base, n)]
      block(prev, size, used) == [prev |-> prev, size |-> size, used |-> used]
  IN IF left > 0
     THEN AddSplit([t EXCEPT !.block = With(With(With(@, base, block(Null, sz, TRUE)),
                                                 rest, block(base, left, FALSE)),
                                            rest + Header + left, block(rest, 0, TRUE))], rest)
     ELSE [t EXCEPT !.block = With(With(@, base, block(Null, n - 2 * Header, TRUE)),
                                   base + n - Header, block(base, 0, TRUE))]

\* What the system may answer: the address of a free range.
FromSystem(s, sz) ==
  {[pool |-> NewRegion(s, sz, b), at |-> b] : b \in FreeBases(s, RegionSize(sz))}

-----------------------------------------------------------------------------
\* tree_recycle: the cached block becomes the recent one, and regions that are one block
\* of the tree go back to the system, by size, until more than budget bytes have.
\* (Mutants first: the cached block stays where it is; the pages are counted from the
\* size of the block, rounded down.)
Before(s, m) ==
  {k \in s.tree : IsWhole(s, k) /\ (Size(s, k) < Size(s, m) \/ (Size(s, k) = Size(s, m) /\ k < m))}
Returned(s, budget) ==
  {m \in s.tree : IsWhole(s, m) /\ MapThenSumSet(LAMBDA k : Size(s, k), Before(s, m)) <= budget}

CachedStays(s) == s
Uncached(s) ==
  IF s.cached = Null THEN s
  ELSE LET r == Reorganize(s, s.cached) IN [InsertFreeBlock(r.pool, r.at) EXCEPT !.cached = Null]

UnmappedDown(s, m) == (m \div Page) .. ((m + Size(s, m)) \div Page) - 1
Unmapped(s, m) == PagesAt(m, Size(s, m))

Recycle(s0, budget) ==
  LET s == Uncached(s0)
      back == Returned(s, budget)
      headers == back \cup {NextOf(s, m) : m \in back}
  IN [s EXCEPT !.tree = @ \ back,
               !.block = Restrict(@, DOMAIN @ \ headers),
               !.mapped = @ \ UNION {Unmapped(s, m) : m \in back}]

-----------------------------------------------------------------------------
\* tree_alloc: the outcomes, with the address Null for failure.  When the system has no
\* memory what can be given back is, before another try.
Unlimited == PageCount * Page   \* size_t(-1)
WithoutMemory(s, sz) ==
  LET r == Recycle(s, Unlimited)
  IN {[pool |-> r, at |-> Null]}
       \cup (IF Returned(Uncached(s), Unlimited) = {} THEN {} ELSE FromSystem(r, sz))
TreeAlloc(s, sz) ==
  IF FromPool(s, sz) # {} THEN FromPool(s, sz)
  ELSE FromSystem(s, sz) \cup IF mutex = "mutex_t" THEN {} ELSE WithoutMemory(s, sz)

\* tree_realloc in place: shrunk, grown into the free block behind it, or moved to the free
\* block before it, then also with the one behind it.
Behind(s, m) == IF IsUsed(s, NextOf(s, m)) THEN 0 ELSE Size(s, NextOf(s, m)) + Header
Uncache(s, m) == IF s.cached = m THEN [s EXCEPT !.cached = Null] ELSE EraseFreeBlock(s, m)

Shrunk(s, m, sz) ==
  IF CanSplit(s, m, sz) THEN AddFreed(Split(s, m, sz), RestOf(m, sz)) ELSE s
\* (Mutant first: the tag forgotten that MovedBack forgets.)
GrownUntagged(s, m, sz) ==
  LET n == NextOf(s, m)
      t == Merge(Uncache(s, n), m, n)
  IN SplitOff(IF s.cached = n THEN [t EXCEPT !.block[NextOf(s, n)].prev = n] ELSE t, m, sz)
Grown(s, m, sz) == SplitOff(Merge(Uncache(s, NextOf(s, m)), m, NextOf(s, m)), m, sz)

CanMoveBack(s, m, sz) ==
  LET p == Prev(s, m)
  IN p # Null /\ ~IsUsed(s, p) /\ Size(s, p) + Size(s, m) + Header + Behind(s, m) >= sz
\* The block after the absorbed one gets its tag only if the absorbed one was not cached.
MovedBack(s, m, sz) ==
  LET p == Prev(s, m)
      n == NextOf(s, m)
      both == ~IsUsed(s, n)
      s1 == Uncache(IF both THEN Uncache(s, n) ELSE s, p)
      last == IF both THEN NextOf(s, n) ELSE n
      tag == IF both /\ s.cached = n THEN n ELSE p
      grown == [s1.block EXCEPT ![p].size = @ + Size(s, m) + Header + Behind(s, m),
                                ![p].used = TRUE, ![last].prev = tag]
      gone == IF both THEN {m, n} ELSE {m}
  IN SplitOff([s1 EXCEPT !.block = Restrict(grown, DOMAIN grown \ gone)], p, sz)

InPlace(s, m, sz) ==
  CASE Size(s, m) >= sz -> [pool |-> Shrunk(s, m, sz), at |-> m]
    [] Size(s, m) < sz /\ Size(s, m) + Behind(s, m) >= sz -> [pool |-> Grown(s, m, sz), at |-> m]
    [] OTHER -> [pool |-> MovedBack(s, m, sz), at |-> Prev(s, m)]
FitsInPlace(s, m, sz) == Size(s, m) + Behind(s, m) >= sz \/ CanMoveBack(s, m, sz)

-----------------------------------------------------------------------------
\* Every block but the tails, whose tags are never read, points back to the one before
\* it, which checkValid asserts (memory_pool.hpp:137).  A pool in which that is wrong
\* reads the holder's bytes as a header: what it does then is not modelled, nor what it
\* does when a thread waits for itself.
Headers == {m \in DOMAIN pool.block : Size(pool, m) # 0}
TagsRight ==
  \A m \in Headers :
    Prev(pool, m) # Null => Prev(pool, m) \in Headers /\ NextOf(pool, Prev(pool, m)) = m
Works == TagsRight /\ ~hung

Address(m) == m + Header   \* of the holder's memory in block m

Alloc(n) ==
  /\ Works
  /\ \E o \in TreeAlloc(pool, BlockSize(n)) :
       /\ pool' = o.pool
       /\ held' = IF o.at = Null THEN held ELSE With(held, Address(o.at), n)
  /\ UNCHANGED <<mutex, hung>>

Free(a) ==
  /\ Works
  /\ pool' = AddFreed(pool, a - Header)
  /\ held' = Restrict(held, DOMAIN held \ {a})
  /\ UNCHANGED <<mutex, hung>>

ReallocInPlace(a, n) ==
  /\ Works /\ FitsInPlace(pool, a - Header, BlockSize(n))
  /\ LET o == InPlace(pool, a - Header, BlockSize(n))
     IN /\ pool' = o.pool
        /\ held' = With(Restrict(held, DOMAIN held \ {a}), Address(o.at), n)
  /\ UNCHANGED <<mutex, hung>>

\* To another block: alloc, and if that succeeds free.
ReallocElsewhere(a, n) ==
  /\ Works /\ mutex = "null_mutex" /\ ~FitsInPlace(pool, a - Header, BlockSize(n))
  /\ \E o \in TreeAlloc(pool, BlockSize(n)) :
       IF o.at = Null THEN pool' = o.pool /\ UNCHANGED held
       ELSE /\ pool' = AddFreed(o.pool, a - Header)
            /\ held' = With(Restrict(held, DOMAIN held \ {a}), Address(o.at), n)
  /\ UNCHANGED <<mutex, hung>>

ReleaseMemory(budget) ==
  /\ Works
  /\ pool' = Recycle(pool, budget)
  /\ UNCHANGED <<mutex, held, hung>>

\* What needs the lock that the thread has: release_memory when the system has no memory
\* (tree_alloc), alloc and free when a block is to be moved (tree_realloc).
LocksTwice ==
  /\ Works /\ mutex = "mutex_t"
  /\ \/ \E n \in Sizes : FromPool(pool, BlockSize(n)) = {}
     \/ \E a \in DOMAIN held, n \in Sizes : ~FitsInPlace(pool, a - Header, BlockSize(n))
  /\ hung' = TRUE
  /\ UNCHANGED <<mutex, pool, held>>

Next ==
  \/ \E n \in Sizes : Alloc(n)
  \/ \E a \in DOMAIN held : Free(a) \/ \E n \in Sizes : ReallocInPlace(a, n) \/ ReallocElsewhere(a, n)
  \/ \E budget \in Budgets \cup {Unlimited} : ReleaseMemory(budget)
  \/ LocksTwice

Spec == Init /\ [][Next]_vars

-----------------------------------------------------------------------------
TypeOK ==
  /\ DOMAIN pool.block \subseteq Page .. Page * (PageCount + 1)
  /\ \A m \in DOMAIN pool.block :
       /\ Prev(pool, m) \in {Null} \cup Page .. Page * (PageCount + 1)
       /\ Size(pool, m) \in 0 .. Page * PageCount /\ IsUsed(pool, m) \in BOOLEAN
  /\ {pool.cached, pool.mr} \subseteq {Null} \cup DOMAIN pool.block
  /\ pool.small \cup pool.tree \subseteq DOMAIN pool.block
  /\ pool.mapped \subseteq 1 .. PageCount
  /\ DOMAIN held \subseteq {Address(m) : m \in DOMAIN pool.block} /\ hung \in BOOLEAN

Tails == DOMAIN pool.block \ Headers
Firsts == {m \in Headers : Prev(pool, m) = Null}
TailOf(f) == Min({t \in Tails : t > f})

\* The blocks tile the regions: each is followed by another or the tail, no header lies
\* inside another block, and the regions are the pages that the pool has from the
\* system, no more and no less.
Tiled ==
  /\ \A m \in Headers :
       /\ NextOf(pool, m) \in DOMAIN pool.block
       /\ \A n \in DOMAIN pool.block : m < n => NextOf(pool, m) <= n
  /\ Cardinality(Firsts) = Cardinality(Tails)
  /\ pool.mapped = UNION {PagesAt(f, TailOf(f) + Header - f) : f \in Firsts}

\* A free block is in exactly one of the four places, a small one not in the tree and a
\* large one not in the list, and a block in use in none: so what the pool hands out is
\* free, and no free block is lost.
Filed ==
  LET free == {m \in Headers : ~IsUsed(pool, m)}
      singles == {pool.cached, pool.mr} \ {Null}
  IN /\ free = singles \cup pool.small \cup pool.tree
     /\ pool.cached = pool.mr => pool.cached = Null
     /\ singles \cap (pool.small \cup pool.tree) = {}
     /\ \A m \in pool.small : Size(pool, m) < SmallSize
     /\ \A m \in pool.tree : Size(pool, m) >= SmallSize

\* Free blocks that meet have been merged, which insert_free_block asserts
\* (memory_pool.hpp:247) and on which the order of the cases of add_free_block rests.
Coalesced == \A m \in Headers : ~IsUsed(pool, m) => IsUsed(pool, NextOf(pool, m))

\* The blocks in use are those handed out, with the size asked for at least.
HoldersHave ==
  /\ DOMAIN held = {Address(m) : m \in {k \in Headers : IsUsed(pool, k)}}
  /\ \A a \in DOMAIN held : held[a] <= Size(pool, a - Header)

Consistent == TypeOK /\ Tiled /\ HoldersHave

\* A tag goes wrong in one case only: realloc moves a block back and takes the cached
\* block behind it with it.
TagsGoStale ==
  [][~TagsRight' => \E a \in DOMAIN held \ DOMAIN held' :
       /\ pool.cached = NextOf(pool, a - Header)
       /\ Address(Prev(pool, a - Header)) \in DOMAIN held']_vars

\* What the destructor asserts after release_memory (memory_pool.hpp:207): when everything
\* has been freed the tree and the list are empty.  (One region stays, as the recent block.)
ReleaseLeavesOne ==
  [][ReleaseMemory(Unlimited) /\ held = <<>>
       => pool'.tree = {} /\ pool'.small = {} /\ DOMAIN pool'.block \subseteq
            {pool'.mr} \cup {NextOf(pool', m) : m \in {pool'.mr} \ {Null}}]_vars

\* With a mutex that is not recursive, as pthread_mutex is: no thread ever waits for itself.
\* tree_alloc says of this case "try to return the memory back to OS and re-malloc"
\* (memory_pool.hpp:573).
NeverHangs == ~hung

\* The pool is a heap.
AsHeap == INSTANCE Heap
ImplementsHeap == AsHeap!Spec
=============================================================================
