---------------------------- MODULE HeapRegion -----------------------------
(***************************************************************************)
(* The region that the page allocator of the kernel heap manages, counted  *)
(* in pages: kmalloc rounds every request for more than                    *)
(* DYN_ALLOC_MAX_BLOCK_SIZE bytes up to whole pages, and the region starts *)
(* on a page boundary.                                                     *)
(***************************************************************************)
EXTENDS Integers

CONSTANTS
  Start,   \* kheapPageAllocStart
  HeapMax, \* KERNEL_HEAP_MAX
  Sizes,   \* the numbers of pages that are requested
  NULL     \* what kmalloc returns when nothing fits

ASSUME RangeAssumption == Start \in Nat /\ HeapMax \in Nat /\ Start <= HeapMax
ASSUME SizesAssumption == Sizes \subseteq Nat \ {0}
ASSUME NullAssumption == NULL \notin Nat
=============================================================================
