------------------------------ MODULE SmallPool ------------------------------
(***************************************************************************)
(* fixed_pool_impl_small_segregate: blocks of 2 to 8 bytes, in pages that  *)
(* each have a reference count and a free list.  A free block holds the    *)
(* number of the next one; who holds a block may write what he likes there.*)
(***************************************************************************)
EXTENDS PageLists

VARIABLES
  pageList,   \* page_list_
  refCnt,     \* ref_cnt_ of each page
  firstFree,  \* free_list_ of each page: the number of its first free block
  content,    \* the first two bytes of each block, as a number
  holders     \* history: how often each block has been handed out and not freed

vars == <<pageList, refCnt, firstFree, content, holders>>

PageBlocks == 0 .. MaxElemCount - 1
Blocks == Pages \X PageBlocks
Mapped == Range(pageList)

Init ==
  /\ pageList = <<>>
  /\ refCnt = [p \in Pages |-> 0] /\ firstFree = [p \in Pages |-> 0]
  /\ content = [b \in Blocks |-> 0] /\ holders = [b \in Blocks |-> 0]

-----------------------------------------------------------------------------
\* page::page: block i holds i + 1, the last one a number that is no block's.
\* (Mutant first: the blocks are left as they are.)
NewContentStale(p) == content
NewContent(p) == [b \in Blocks |-> IF b[1] # p THEN content[b] ELSE b[2] + 1]

\* alloc_from_list and page::alloc, with the pages that malloc leaves them.
AllocFromList(pages, refs, first, text) ==
  LET p == Head(pages)
      b == <<p, first[p]>>
  IN /\ refCnt' = [refs EXCEPT ![p] = @ + 1]
     /\ firstFree' = [first EXCEPT ![p] = text[b]]
     /\ holders' = [holders EXCEPT ![b] = @ + 1]
     /\ content' = text /\ pageList' = pages

\* malloc: only the page at the front is looked at.
FrontFull == pageList # <<>> => refCnt[Head(pageList)] = MaxElemCount

MallocNewPage(p) ==
  /\ FrontFull /\ p \notin Mapped
  /\ AllocFromList(<<p>> \o pageList, [refCnt EXCEPT ![p] = 0],
                   [firstFree EXCEPT ![p] = 0], NewContent(p))

MallocFromFront ==
  /\ ~FrontFull
  /\ AllocFromList(pageList, refCnt, firstFree, content)

\* free: back to its page's list; a page without blocks in use goes to the front.
\* (Mutant first: the block does not get the number of the next one.)
FreeUnlinked(b) ==
  /\ holders[b] > 0
  /\ holders' = [holders EXCEPT ![b] = @ - 1]
  /\ refCnt' = [refCnt EXCEPT ![b[1]] = @ - 1]
  /\ firstFree' = [firstFree EXCEPT ![b[1]] = b[2]]
  /\ pageList' = IF refCnt'[b[1]] = 0 THEN ToFront(b[1], pageList) ELSE pageList
  /\ UNCHANGED content
Free(b) ==
  /\ holders[b] > 0
  /\ holders' = [holders EXCEPT ![b] = @ - 1]
  /\ refCnt' = [refCnt EXCEPT ![b[1]] = @ - 1]
  /\ content' = [content EXCEPT ![b] = firstFree[b[1]]]
  /\ firstFree' = [firstFree EXCEPT ![b[1]] = b[2]]
  /\ pageList' = IF refCnt'[b[1]] = 0 THEN ToFront(b[1], pageList) ELSE pageList

\* release_memory: the unused pages at the front are given back.
\* (Mutant first: only one page goes.)
Unused == {p \in Mapped : refCnt[p] = 0}

ReleaseOne ==
  /\ pageList' = IF pageList # <<>> /\ Head(pageList) \in Unused THEN Tail(pageList) ELSE pageList
  /\ UNCHANGED <<refCnt, firstFree, content, holders>>
ReleaseMemory ==
  /\ pageList' = WithoutLeading(pageList, Unused)
  /\ UNCHANGED <<refCnt, firstFree, content, holders>>

\* Who holds a block writes to it.
UserWrites(b, n) ==
  /\ holders[b] > 0
  /\ content' = [content EXCEPT ![b] = n]
  /\ UNCHANGED <<pageList, refCnt, firstFree, holders>>

Next ==
  \/ \E p \in Pages : MallocNewPage(p)
  \/ MallocFromFront
  \/ \E b \in Blocks : Free(b) \/ \E n \in 0 .. MaxElemCount : UserWrites(b, n)
  \/ ReleaseMemory

Spec == Init /\ [][Next]_vars

-----------------------------------------------------------------------------
TypeOK ==
  /\ pageList \in Seq(Pages)
  /\ refCnt \in [Pages -> 0 .. MaxElemCount]
  /\ firstFree \in [Pages -> 0 .. MaxElemCount]
  /\ content \in [Blocks -> 0 .. MaxElemCount]
  /\ holders \in [Blocks -> {0, 1}]

UsedIn(p) == {b \in Blocks : b[1] = p /\ holders[b] # 0}

\* The free list of a page as the program walks it: chain[k] is its k-th block.
Chain(p) ==
  LET chain[k \in 1 .. MaxElemCount + 1] ==
        IF k = 1 THEN firstFree[p]
        ELSE IF chain[k - 1] = MaxElemCount THEN MaxElemCount ELSE content[<<p, chain[k - 1]>>]
  IN chain

\* The chain of a page goes through each free block once and through none in use,
\* whatever the holders write: it ends after as many blocks as ref_cnt_ says are free.
ChainIsFree ==
  /\ IsInjective(pageList)
  /\ \A p \in Mapped :
       LET free == {n \in PageBlocks : holders[<<p, n>>] = 0}
           k == Cardinality(free)
       IN /\ k = MaxElemCount - refCnt[p]
          /\ {Chain(p)[i] : i \in 1 .. k} = free
          /\ Chain(p)[k + 1] = MaxElemCount

\* Blocks in use are in mapped pages.
UsedAreMapped == \A p \in Pages \ Mapped : UsedIn(p) = {}

\* The invariant on which the allocator rests.
Consistent == TypeOK /\ ChainIsFree /\ UsedAreMapped

\* What the destructor asserts: when everything has been freed release_memory leaves
\* no page (fixed_pool_impl.hpp:352).
ReleaseComplete ==
  ReleaseMemory /\ (\A b \in Blocks : holders[b] = 0) => pageList' = <<>>

\* The pool is an allocator.
AsAllocator == INSTANCE Allocator WITH mapped <- Mapped
ImplementsAllocator == AsAllocator!Spec
=============================================================================
