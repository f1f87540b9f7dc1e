----------------------------- MODULE PoolGeometry -----------------------------
(***************************************************************************)
(* How many blocks a page of fixed_pool_impl_fast_segregate has: the       *)
(* compile-time search for a number of system pages that wastes little,    *)
(* and what follows from it.  TLC goes through the sizes of blocks.        *)
(***************************************************************************)
EXTENDS Integers, FiniteSetsExt

CONSTANTS
  PageSize,    \* PAGE_SIZE
  PageHeader,  \* sizeof(page): the links of the list and ref_cnt_
  Pointer,     \* sizeof(page*)
  MinSize,     \* MinSize: larger blocks have a header that points to their page
  NextCount,   \* NextCount, for which pools take their default
  MaxPages,    \* MAX_PAGES
  MaxSize      \* bound on the sizes gone through

\* Template arguments, all unsigned; products stay far below 2^32.
ASSUME GeometryAssumption ==
  /\ {PageSize, PageHeader, Pointer, MinSize, NextCount, MaxPages, MaxSize} \subseteq Nat \ {0}
  /\ PageHeader < PageSize

VARIABLE size   \* the size of the blocks, Size > sizeof(void*)

Init == size = Pointer + 1
Next == size < MaxSize /\ size' = size + 1
Spec == Init /\ [][Next]_size

-----------------------------------------------------------------------------
\* What k system pages leave over beside their header and blocks of a bytes.
Remainder(a, k) == (k * PageSize - PageHeader) % a

\* The better of the best number of pages so far and the next, which wins ties.
Better(a, best, k) == IF Remainder(a, best) < Remainder(a, k) THEN best ELSE k

\* MinimumK: the search goes up from one page, or M/B + 1, with MaxPages + 1 as the first
\* best; MinimumKImpl returns the smaller of its number and the rest's.
\* (Mutant first: the larger of the two.)
MinimumKLast(a) ==
  LET impl[k \in 1 .. MaxPages] ==
        [best \in 1 .. MaxPages + 1 |->
           IF k = MaxPages THEN best
           ELSE IF Remainder(a, k) = 0 THEN k
           ELSE LET cur == Better(a, best, k) IN Max({cur, impl[k + 1][cur]})]
  IN impl[PageHeader \div PageSize + 1][MaxPages + 1]
MinimumK(a) ==
  LET impl[k \in 1 .. MaxPages] ==
        [best \in 1 .. MaxPages + 1 |->
           IF k = MaxPages THEN best
           ELSE IF Remainder(a, k) = 0 THEN k
           ELSE LET cur == Better(a, best, k) IN Min({cur, impl[k + 1][cur]})]
  IN impl[PageHeader \div PageSize + 1][MaxPages + 1]

\* requested_size_, page_request_size_ and the number of blocks of a page.
RequestedSize(s) == IF s > MinSize THEN s + Pointer ELSE s
Searched(s) ==
  IF NextCount * RequestedSize(s) < PageSize THEN RequestedSize(s) ELSE NextCount * RequestedSize(s)
PageRequestSize(s) ==
  IF RequestedSize(s) > MinSize THEN MinimumK(Searched(s)) * PageSize ELSE PageSize
Capacity(s) == (PageRequestSize(s) - PageHeader) \div RequestedSize(s)

-----------------------------------------------------------------------------
\* What the search computes, in closed form: not the best number of pages but the first
\* one that is no worse than MaxPages + 1 (MaxPages itself is never tried).
FirstNoWorse ==
  LET a == Searched(size)
      noWorse == {k \in 1 .. MaxPages - 1 : Remainder(a, k) <= Remainder(a, MaxPages + 1)}
  IN MinimumK(a) = IF noWorse = {} THEN MaxPages + 1 ELSE Min(noWorse)

\* inc_ref asserts that ref_cnt_, which is 1 after the first malloc, does not
\* exceed the number of blocks (fixed_pool_impl.hpp:198): a page has at least one.
FirstBlockFits == 1 <= Capacity(size)
=============================================================================
