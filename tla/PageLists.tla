------------------------------ MODULE PageLists ------------------------------
(***************************************************************************)
(* What the pools that cut pages into equal blocks share: the pages of the *)
(* system, how many blocks each kind of pool gets out of one, and the      *)
(* intrusive lists of pages.                                               *)
(***************************************************************************)
EXTENDS Integers, FiniteSets, SequencesExt

CONSTANTS
  Pages,         \* addresses that virtual_alloc may return; bounds the pages mapped at once
  Cap,           \* FastPool: (page_request_size_ - sizeof(page)) / requested_size_
  MaxElemCount,  \* SmallPool: max_elem_count_
  SubPageCount,  \* ListPool: sub_page_count_, buckets in a page
  BucketSize,    \* ListPool: bucket_size_, blocks in a bucket
  ElemCounts     \* BucketPool: for each bucket, by size, the blocks in a page of it

ASSUME CapAssumption == Cap \in Nat \ {0}
ASSUME MaxElemAssumption == MaxElemCount \in Nat \ {0}
ASSUME SubPageAssumption == SubPageCount \in Nat \ {0}
ASSUME BucketAssumption == BucketSize \in Nat \ {0}
ASSUME ElemCountsAssumption == ElemCounts \in Seq(Nat \ {0}) /\ ElemCounts # <<>>

\* The list after every member that is in S has been unlinked.
Without(list, S) ==
  LET left[n \in 0 .. Len(list)] ==
        IF n = 0 THEN <<>>
        ELSE IF list[n] \in S THEN left[n - 1] ELSE Append(left[n - 1], list[n])
  IN left[Len(list)]

\* unlink and push_front; push_front of a page not in the list.
ToFront(p, list) == <<p>> \o Without(list, {p})

\* unlink and push_back.
ToBack(p, list) == Append(Without(list, {p}), p)

\* The list after pop_front while the front is in S.
WithoutLeading(list, S) ==
  LET leading == {i \in DOMAIN list : \A j \in 1 .. i : list[j] \in S}
  IN SubSeq(list, Cardinality(leading) + 1, Len(list))
=============================================================================
