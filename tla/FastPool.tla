------------------------------ MODULE FastPool ------------------------------
(***************************************************************************)
(* fixed_pool_impl_fast_segregate: blocks of more than 8 bytes, in pages   *)
(* with a reference count, and one free list through all pages.  A new     *)
(* page contributes one free block, the last of the page; the one before   *)
(* it becomes free when the free list is about to run empty.               *)
(*                                                                         *)
(* Blocks of a page are numbered from its end, in the order of carving.    *)
(* The pool has no lock: one thread uses it.                               *)
(***************************************************************************)
EXTENDS PageLists

VARIABLES
  pageList,   \* page_list_
  refCnt,     \* ref_cnt_ of each page
  freeList,   \* free_list_: <<page, number>>, head first
  holders     \* history: how often each block has been handed out and not freed

vars == <<pageList, refCnt, freeList, holders>>

PageBlocks == 1 .. Cap
Blocks == Pages \X PageBlocks
Mapped == Range(pageList)

Init ==
  /\ pageList = <<>> /\ freeList = <<>>
  /\ refCnt = [p \in Pages |-> 0]
  /\ holders = [b \in Blocks |-> 0]

-----------------------------------------------------------------------------
\* What is left of the free list when its head is taken and its page has n blocks
\* in use: a last node is followed by the next block of its page, unless the page
\* is full.  (Mutant first: nothing is carved.)
RestUncarved(list, n) == Tail(list)
Rest(list, n) ==
  IF Len(list) = 1 /\ n # Cap THEN <<<<Head(list)[1], Head(list)[2] + 1>>>> ELSE Tail(list)

\* alloc_from_free_list, with the pages and the free list that malloc leaves it.
AllocFromFreeList(pages, refs, list) ==
  LET b == Head(list)
      n == refs[b[1]] + 1
  IN /\ refCnt' = [refs EXCEPT ![b[1]] = n]
     /\ freeList' = Rest(list, n)
     /\ pageList' = IF n = Cap THEN ToBack(b[1], pages) ELSE pages
     /\ holders' = [holders EXCEPT ![b] = @ + 1]

\* malloc with an empty free list: a new page, with its last block free.
MallocNewPage(p) ==
  /\ freeList = <<>> /\ p \notin Mapped
  /\ AllocFromFreeList(<<p>> \o pageList, [refCnt EXCEPT ![p] = 0], <<<<p, 1>>>>)

MallocFromFreeList ==
  /\ freeList # <<>>
  /\ AllocFromFreeList(pageList, refCnt, freeList)

\* free: the block goes to the front of the free list, a page without blocks in use
\* to the front of the page list.  (Mutant first: the block goes to the end of the
\* free list.)
FreeAtEnd(b) ==
  /\ holders[b] > 0
  /\ holders' = [holders EXCEPT ![b] = @ - 1]
  /\ freeList' = Append(freeList, b)
  /\ refCnt' = [refCnt EXCEPT ![b[1]] = @ - 1]
  /\ pageList' = IF refCnt'[b[1]] = 0 THEN ToFront(b[1], pageList) ELSE pageList
Free(b) ==
  /\ holders[b] > 0
  /\ holders' = [holders EXCEPT ![b] = @ - 1]
  /\ freeList' = <<b>> \o freeList
  /\ refCnt' = [refCnt EXCEPT ![b[1]] = @ - 1]
  /\ pageList' = IF refCnt'[b[1]] = 0 THEN ToFront(b[1], pageList) ELSE pageList

\* release_memory: every free block of an unused page leaves the free list, but only
\* the unused pages at the front of the page list are given back.  (Mutants first:
\* a page with one block in use counts as unused; only the block at the head
\* leaves the free list.)
UnusedOffByOne == {p \in Mapped : refCnt[p] <= 1}
Unused == {p \in Mapped : refCnt[p] = 0}

ReleaseHead ==
  /\ freeList' = IF freeList # <<>> /\ Head(freeList)[1] \in Unused
                 THEN Tail(freeList) ELSE freeList
  /\ pageList' = WithoutLeading(pageList, Unused)
  /\ UNCHANGED <<refCnt, holders>>
ReleaseMemory ==
  /\ freeList' = Without(freeList, Unused \X PageBlocks)
  /\ pageList' = WithoutLeading(pageList, Unused)
  /\ UNCHANGED <<refCnt, holders>>

Next ==
  \/ \E p \in Pages : MallocNewPage(p)
  \/ MallocFromFreeList
  \/ \E b \in Blocks : Free(b)
  \/ ReleaseMemory

Spec == Init /\ [][Next]_vars

-----------------------------------------------------------------------------
TypeOK ==
  /\ pageList \in Seq(Pages) /\ freeList \in Seq(Blocks)
  /\ refCnt \in [Pages -> 0 .. Cap]
  /\ holders \in [Blocks -> {0, 1}]

UsedIn(p) == {b \in Blocks : b[1] = p /\ holders[b] # 0}
FreeIn(p) == {b \in Range(freeList) : b[1] = p}

\* The free list has no block twice, none in use, and none of a page that has been
\* given back: what malloc hands out next is free memory of the pool.
FreeListIsFree ==
  /\ IsInjective(freeList) /\ IsInjective(pageList)
  /\ \A b \in Range(freeList) : holders[b] = 0 /\ b[1] \in Mapped

\* ref_cnt_ of a page is the number of its blocks in use, which it never leaves
\* behind: only mapped pages have blocks in use.
RefCountsUsed ==
  \A p \in Pages : Cardinality(UsedIn(p)) = IF p \in Mapped THEN refCnt[p] ELSE 0

\* The invariant on which the allocator rests.
Consistent == TypeOK /\ FreeListIsFree /\ RefCountsUsed

\* Blocks not carved yet are in one page at most, and this page's last carved
\* block ends the free list: so the block that malloc carves next to the last node is
\* always a fresh one, and inside the page.
Carved(p) == UsedIn(p) \cup FreeIn(p)
CarvedInOrder ==
  \A p \in Mapped :
    LET n == Cardinality(Carved(p))
    IN Carved(p) # {} =>
         /\ Carved(p) = {p} \X (1 .. n)
         /\ n < Cap => freeList # <<>> /\ Last(freeList) = <<p, n>>

\* A page with blocks in use and room for more has a free block, so malloc gets a
\* new page only when those in use are full.  (Pages not in use may be lost to
\* it: release_memory leaves the ones behind the front without free blocks.)
NoRoomLost ==
  \A p \in Mapped : 0 < refCnt[p] /\ refCnt[p] < Cap => FreeIn(p) # {}

\* What the destructor asserts after release_memory: when everything has been
\* freed, no page is left behind and no free block (fixed_pool_impl.hpp:271).
ReleaseComplete ==
  ReleaseMemory /\ (\A b \in Blocks : holders[b] = 0) => pageList' = <<>> /\ freeList' = <<>>

\* The pool is an allocator.
AsAllocator == INSTANCE Allocator WITH mapped <- Mapped
ImplementsAllocator == AsAllocator!Spec
=============================================================================
