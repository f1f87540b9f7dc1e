------------------------------ MODULE BucketPool ------------------------------
(***************************************************************************)
(* small_memory_pool: allocations of up to 256 bytes, by size in buckets.  *)
(* A bucket has a lock and a list of pages; a page keeps, at its end, the  *)
(* list of its free blocks, how many are in use, and its bucket, by which  *)
(* free finds the bucket of a pointer.  Several threads use the pool: each *)
(* action is one critical section.  realloc to a larger block is           *)
(* bucket_alloc and then bucket_free, each under a lock of its own: Alloc  *)
(* and Free of its thread, with steps of others between them.              *)
(***************************************************************************)
EXTENDS PageLists

VARIABLES
  pageLists,  \* mPageList of each bucket
  bucketOf,   \* mBucketIndex of each page
  elemFree,   \* mFreeList of each page: numbers of its free blocks
  refCnt,     \* mUseCount of each page
  holders     \* history: how often each block has been handed out and not freed

vars == <<pageLists, bucketOf, elemFree, refCnt, holders>>

Buckets == DOMAIN ElemCounts
PageBlocks == 1 .. Max(Range(ElemCounts))
Blocks == Pages \X PageBlocks
Mapped == UNION {Range(pageLists[k]) : k \in Buckets}

Init ==
  /\ pageLists = [k \in Buckets |-> <<>>]
  /\ bucketOf \in [Pages -> {1}]
  /\ elemFree = [p \in Pages |-> <<>>]
  /\ refCnt = [p \in Pages |-> 0]
  /\ holders = [b \in Blocks |-> 0]

-----------------------------------------------------------------------------
\* bucket::alloc from page p, at the front of the list pages of bucket k, with free
\* blocks free and n in use: a page that becomes full goes to the back.
AllocFrom(k, pages, free, n) ==
  LET p == Head(pages)
  IN /\ holders' = [holders EXCEPT ![<<p, Head(free)>>] = @ + 1]
     /\ elemFree' = [elemFree EXCEPT ![p] = Tail(free)]
     /\ refCnt' = [refCnt EXCEPT ![p] = n + 1]
     /\ pageLists' = [pageLists EXCEPT ![k] = IF Tail(free) = <<>> THEN ToBack(p, pages) ELSE pages]

\* get_free_page looks at the front only.
NoFreePage(k) == pageLists[k] # <<>> => elemFree[Head(pageLists[k])] = <<>>

\* bucket_alloc, with bucket_grow.
AllocNewPage(k, p) ==
  /\ NoFreePage(k) /\ p \notin Mapped
  /\ bucketOf' = [bucketOf EXCEPT ![p] = k]
  /\ AllocFrom(k, <<p>> \o pageLists[k], [i \in 1 .. ElemCounts[k] |-> i], 0)

AllocFromFront(k) ==
  /\ ~NoFreePage(k)
  /\ LET p == Head(pageLists[k]) IN AllocFrom(k, pageLists[k], elemFree[p], refCnt[p])
  /\ UNCHANGED bucketOf

\* bucket::free, in bucket k: a page that was full goes to the front.
\* (Mutant first: it stays.)
PutBackInPlace(b, k) ==
  /\ elemFree' = [elemFree EXCEPT ![b[1]] = <<b[2]>> \o @]
  /\ refCnt' = [refCnt EXCEPT ![b[1]] = @ - 1]
  /\ UNCHANGED pageLists
PutBack(b, k) ==
  /\ elemFree' = [elemFree EXCEPT ![b[1]] = <<b[2]>> \o @]
  /\ refCnt' = [refCnt EXCEPT ![b[1]] = @ - 1]
  /\ pageLists' = [pageLists EXCEPT ![k] = IF elemFree[b[1]] = <<>> THEN ToFront(b[1], @) ELSE @]

\* bucket_free, which finds the bucket in the page of the block.
Free(b) ==
  /\ holders[b] > 0
  /\ holders' = [holders EXCEPT ![b] = @ - 1]
  /\ PutBack(b, bucketOf[b[1]])
  /\ UNCHANGED bucketOf

\* bucket_purge of one bucket: the unused pages go, up to the first full one.
Purge(k) ==
  LET leading == {i \in DOMAIN pageLists[k] : \A j \in 1 .. i : elemFree[pageLists[k][j]] # <<>>}
      gone == {pageLists[k][i] : i \in {j \in leading : refCnt[pageLists[k][j]] = 0}}
  IN /\ pageLists' = [pageLists EXCEPT ![k] = Without(@, gone)]
     /\ UNCHANGED <<bucketOf, elemFree, refCnt, holders>>

Next ==
  \/ \E k \in Buckets : AllocFromFront(k) \/ Purge(k) \/ \E p \in Pages : AllocNewPage(k, p)
  \/ \E b \in Blocks : Free(b)

Spec == Init /\ [][Next]_vars

-----------------------------------------------------------------------------
TypeOK ==
  /\ pageLists \in [Buckets -> Seq(Pages)]
  /\ bucketOf \in [Pages -> Buckets]
  /\ elemFree \in [Pages -> Seq(PageBlocks)]
  /\ refCnt \in [Pages -> 0 .. Max(PageBlocks)]
  /\ holders \in [Blocks -> {0, 1}]

UsedIn(p) == {n \in PageBlocks : holders[<<p, n>>] # 0}

\* A page is in the list of its own bucket and in no other, its free blocks are those
\* of its bucket's number that are not in use, and the count is that of the others.
PagesAgree ==
  /\ \A k \in Buckets :
       /\ IsInjective(pageLists[k])
       /\ \A p \in Range(pageLists[k]) :
            /\ bucketOf[p] = k
            /\ IsInjective(elemFree[p])
            /\ Range(elemFree[p]) = (1 .. ElemCounts[k]) \ UsedIn(p)
            /\ UsedIn(p) \subseteq 1 .. ElemCounts[k]
            /\ refCnt[p] = Cardinality(UsedIn(p))
  /\ \A p \in Pages \ Mapped : UsedIn(p) = {}

\* The invariant on which the allocator rests.
Consistent == TypeOK /\ PagesAgree

\* In each list the full pages are behind all the others: so malloc, which looks at the
\* front only, gets a new page only when all are full, and the early end of the purge
\* is right ("the remaining should all be full", memory_pool.hpp:994).
FullBehind ==
  \A k \in Buckets : \A i, j \in DOMAIN pageLists[k] :
    i < j /\ elemFree[pageLists[k][i]] = <<>> => elemFree[pageLists[k][j]] = <<>>

\* The purge leaves no unused page in the bucket.
ReleaseComplete ==
  \A k \in Buckets : Purge(k) => \A p \in Range(pageLists'[k]) : UsedIn(p) # {}

\* The pool is an allocator.
AsAllocator == INSTANCE Allocator WITH mapped <- Mapped
ImplementsAllocator == AsAllocator!Spec
=============================================================================
