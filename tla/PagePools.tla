------------------------------ MODULE PagePools ------------------------------
(***************************************************************************)
(* The pools that cut pages into blocks of one size.  fixed_pool_impl      *)
(* selects one of three by the size of the blocks: FastPool above the size *)
(* of a pointer, SmallPool from two bytes on, ListPool for single bytes.   *)
(* The fourth, BucketPool, serves the small allocations of memory_pool.    *)
(* A behaviour is that of one pool; the variables of the others stay       *)
(* unused.                                                                 *)
(***************************************************************************)
EXTENDS PageLists

CONSTANT SmallPages   \* the Pages of SmallPool, of which the runs need fewer

VARIABLES
  kind,        \* which pool
  refCnt, holders, pageList,      \* as in the modules of the pools
  freeList,                       \* FastPool
  firstFree, content,             \* SmallPool
  bucketList, blockList,          \* ListPool
  pageLists, bucketOf, elemFree   \* BucketPool

vars == <<kind, refCnt, holders, pageList, freeList, firstFree, content, bucketList, blockList,
          pageLists, bucketOf, elemFree>>
fastVars == <<freeList>>
smallVars == <<firstFree, content>>
listVars == <<bucketList, blockList>>
bucketVars == <<pageLists, bucketOf, elemFree>>

Fast == INSTANCE FastPool
Small == INSTANCE SmallPool WITH Pages <- SmallPages
List == INSTANCE ListPool
Bucket == INSTANCE BucketPool

Init ==
  \/ /\ kind = "fast" /\ Fast!Init
     /\ firstFree = <<>> /\ content = <<>> /\ bucketList = <<>> /\ blockList = <<>>
     /\ pageLists = <<>> /\ bucketOf = <<>> /\ elemFree = <<>>
  \/ /\ kind = "small" /\ Small!Init
     /\ freeList = <<>> /\ bucketList = <<>> /\ blockList = <<>>
     /\ pageLists = <<>> /\ bucketOf = <<>> /\ elemFree = <<>>
  \/ /\ kind = "list" /\ List!Init
     /\ freeList = <<>> /\ firstFree = <<>> /\ content = <<>>
     /\ pageLists = <<>> /\ bucketOf = <<>> /\ elemFree = <<>>
  \/ /\ kind = "bucket" /\ Bucket!Init
     /\ pageList = <<>> /\ freeList = <<>> /\ firstFree = <<>> /\ content = <<>>
     /\ bucketList = <<>> /\ blockList = <<>>

Next ==
  /\ UNCHANGED kind
  /\ \/ kind = "fast" /\ Fast!Next /\ UNCHANGED <<smallVars, listVars, bucketVars>>
     \/ kind = "small" /\ Small!Next /\ UNCHANGED <<fastVars, listVars, bucketVars>>
     \/ kind = "list" /\ List!Next /\ UNCHANGED <<fastVars, smallVars, bucketVars>>
     \/ kind = "bucket" /\ Bucket!Next /\ UNCHANGED <<pageList, fastVars, smallVars, listVars>>

Spec == Init /\ [][Next]_vars

-----------------------------------------------------------------------------
\* The invariant on which each pool rests: its lists hold exactly the blocks that nobody
\* has, its counts are those of the blocks in use.
Consistent ==
  /\ kind = "fast" => Fast!Consistent
  /\ kind = "small" => Small!Consistent
  /\ kind = "list" => List!Consistent
  /\ kind = "bucket" => Bucket!Consistent

\* FastPool carves the blocks of a page in order, and the last carved one of the one page
\* that is not carved to its end is the last of the free list.
CarvedInOrder == kind = "fast" => Fast!CarvedInOrder

\* Room in pages with blocks in use is found: FastPool has a free block of each such page,
\* BucketPool has the pages with room in front of the full ones.  (The other two do look
\* past room: a full page at the front hides what is behind it.)
NoRoomLost ==
  /\ kind = "fast" => Fast!NoRoomLost
  /\ kind = "bucket" => Bucket!FullBehind

\* What release_memory gives back: FastPool and SmallPool everything when nothing is in
\* use, which the destructors assert; ListPool and BucketPool every unused page.
ReleasesUnused ==
  [][/\ kind = "fast" => Fast!ReleaseComplete
     /\ kind = "small" => Small!ReleaseComplete
     /\ kind = "list" => List!ReleaseComplete
     /\ kind = "bucket" => Bucket!ReleaseComplete]_vars

\* Whatever the pool, it is an allocator.
Mapped == IF kind = "bucket" THEN Bucket!Mapped ELSE Range(pageList)
AsAllocator == INSTANCE Allocator WITH mapped <- Mapped
ImplementsAllocator == AsAllocator!Spec
=============================================================================
