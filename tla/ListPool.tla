------------------------------ MODULE ListPool ------------------------------
(***************************************************************************)
(* fixed_pool_impl_small_list: blocks of one byte.  A page is divided into *)
(* buckets, each with a free list of its blocks; the buckets that are not  *)
(* full form the free list of the page.                                    *)
(***************************************************************************)
EXTENDS PageLists

VARIABLES
  pageList,    \* page_list_
  refCnt,      \* ref_cnt_ of each page: its full buckets
  bucketList,  \* free_list_ of each page and next_block_ of its buckets
  blockList,   \* free_list_ of each bucket, and the numbers in its free blocks
  holders      \* history: how often each block has been handed out and not freed

vars == <<pageList, refCnt, bucketList, blockList, holders>>

SubPages == 1 .. SubPageCount
PageBlocks == SubPages \X (1 .. BucketSize)   \* a block of a page: its bucket and its place
Blocks == Pages \X PageBlocks
Mapped == Range(pageList)

Init ==
  /\ pageList = <<>>
  /\ refCnt = [p \in Pages |-> 0]
  /\ bucketList = [p \in Pages |-> <<>>]
  /\ blockList = [p \in Pages |-> [k \in SubPages |-> <<>>]]
  /\ holders = [b \in Blocks |-> 0]

-----------------------------------------------------------------------------
UpTo(n) == [i \in 1 .. n |-> i]

\* page::alloc, of a page with these buckets and blocks. 
IsFull(blocks) == blocks = <<>>

AllocFromPage(p, refs, buckets, blocks) ==
  LET k == Head(buckets)
      i == Head(blocks[k])
      left == Tail(blocks[k])
  IN /\ blockList' = [blockList EXCEPT ![p] = [blocks EXCEPT ![k] = left]]
     /\ bucketList' = [bucketList EXCEPT ![p] = IF IsFull(left) THEN Tail(buckets) ELSE buckets]
     /\ refCnt' = [refCnt EXCEPT ![p] = IF IsFull(left) THEN refs + 1 ELSE refs]
     /\ holders' = [holders EXCEPT ![<<p, <<k, i>>>>] = @ + 1]

\* alloc_from_page_list: a page that is full now goes to the end of the list.
FullToBack(p, pages) == IF bucketList'[p] = <<>> THEN ToBack(p, pages) ELSE pages

\* malloc: a new page unless the one at the front has a bucket that is not full.
\* ref_cnt_ has no initializer: it is 0 because the system maps zeroed pages.
FrontFull == pageList # <<>> => bucketList[Head(pageList)] = <<>>

MallocNewPage(p) ==
  /\ FrontFull /\ p \notin Mapped
  /\ AllocFromPage(p, 0, UpTo(SubPageCount), [k \in SubPages |-> UpTo(BucketSize)])
  /\ pageList' = FullToBack(p, <<p>> \o pageList)

MallocFromFront ==
  /\ ~FrontFull
  /\ LET p == Head(pageList)
     IN /\ AllocFromPage(p, refCnt[p], bucketList[p], blockList[p])
        /\ pageList' = FullToBack(p, pageList)

\* free: the bucket of the block returns to its page's list if it was full; a page
\* without full buckets goes to the front.  (Mutant first: every bucket returns.)
FreeAlways(b) ==
  LET p == b[1]
      k == b[2][1]
  IN /\ holders[b] > 0
     /\ holders' = [holders EXCEPT ![b] = @ - 1]
     /\ blockList' = [blockList EXCEPT ![p][k] = <<b[2][2]>> \o @]
     /\ bucketList' = [bucketList EXCEPT ![p] = <<k>> \o @]
     /\ refCnt' = IF IsFull(blockList[p][k]) THEN [refCnt EXCEPT ![p] = @ - 1] ELSE refCnt
     /\ pageList' = IF refCnt'[p] = 0 THEN ToFront(p, pageList) ELSE pageList
Free(b) ==
  LET p == b[1]
      k == b[2][1]
      wasFull == IsFull(blockList[p][k])
  IN /\ holders[b] > 0
     /\ holders' = [holders EXCEPT ![b] = @ - 1]
     /\ blockList' = [blockList EXCEPT ![p][k] = <<b[2][2]>> \o @]
     /\ bucketList' = IF wasFull THEN [bucketList EXCEPT ![p] = <<k>> \o @] ELSE bucketList
     /\ refCnt' = IF wasFull THEN [refCnt EXCEPT ![p] = @ - 1] ELSE refCnt
     /\ pageList' = IF refCnt'[p] = 0 THEN ToFront(p, pageList) ELSE pageList

\* is_free: all buckets are in the list, and every block in those of its bucket.
\* (Mutant first: a page without full buckets counts as free, as in free.)
IsFreeCount(p) == refCnt[p] = 0
IsFree(p) ==
  /\ Len(bucketList[p]) = SubPageCount
  /\ \A j \in DOMAIN bucketList[p] : Len(blockList[p][bucketList[p][j]]) = BucketSize

\* release_memory: every free page is given back, wherever it is in the list.
\* (Mutant first: only those at the front, as in the other pools.)
ReleaseLeading ==
  /\ pageList' = WithoutLeading(pageList, {p \in Mapped : IsFree(p)})
  /\ UNCHANGED <<refCnt, bucketList, blockList, holders>>
ReleaseMemory ==
  /\ pageList' = Without(pageList, {p \in Mapped : IsFree(p)})
  /\ UNCHANGED <<refCnt, bucketList, blockList, holders>>

Next ==
  \/ \E p \in Pages : MallocNewPage(p)
  \/ MallocFromFront
  \/ \E b \in Blocks : Free(b)
  \/ ReleaseMemory

Spec == Init /\ [][Next]_vars

-----------------------------------------------------------------------------
TypeOK ==
  /\ pageList \in Seq(Pages)
  /\ refCnt \in [Pages -> 0 .. SubPageCount]
  /\ bucketList \in [Pages -> Seq(SubPages)]
  /\ blockList \in [Pages -> [SubPages -> Seq(1 .. BucketSize)]]
  /\ holders \in [Blocks -> {0, 1}]

\* The two levels agree with what is in use: the list of a bucket has exactly its
\* blocks that are not in use, the list of a page its buckets that have such blocks,
\* each once, and ref_cnt_ counts the others.
ListsAreFree ==
  \A p \in Mapped :
    /\ IsInjective(bucketList[p])
    /\ Range(bucketList[p]) = {k \in SubPages : blockList[p][k] # <<>>}
    /\ refCnt[p] = SubPageCount - Len(bucketList[p])
    /\ \A k \in SubPages :
         /\ IsInjective(blockList[p][k])
         /\ Range(blockList[p][k]) = {i \in 1 .. BucketSize : holders[<<p, <<k, i>>>>] = 0}

\* The invariant on which the allocator rests.
Consistent == TypeOK /\ ListsAreFree

\* release_memory gives back every page without blocks in use and no other, so the
\* destructor's assertion (fixed_pool_impl.hpp:535) holds when all have been freed.
UsedPages == {b[1] : b \in {c \in Blocks : holders[c] > 0}}
ReleaseComplete == ReleaseMemory => Range(pageList') = UsedPages

\* The pool is an allocator.
AsAllocator == INSTANCE Allocator WITH mapped <- Mapped
ImplementsAllocator == AsAllocator!Spec
=============================================================================
