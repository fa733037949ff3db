------------------------------- MODULE KHeap -------------------------------
(***************************************************************************)
(* The page allocator of the kernel heap, kern/mem/kheap.c, in units of    *)
(* pages.  kmalloc and kfree hold kheap_lock, and with it keep interrupts  *)
(* off, from their first line to their last, so each is one step.          *)
(* allocate_frame panics rather than fail, and the page tables of the      *)
(* region exist from boot on, so mapping the pages cannot fail here.       *)
(* Requests of at most DYN_ALLOC_MAX_BLOCK_SIZE bytes go to alloc_block    *)
(* (module DynAlloc).                                                      *)
(***************************************************************************)
EXTENDS BulkList, HeapRegion

VARIABLES
  bulks,                 \* the free list
  bulks_allocated,       \* the list of allocated bulks, newest first
  kheapPageAllocBreak,
  mapped,                \* the pages of the region that have a frame
  last                   \* the last call: size requested, address returned

vars == <<bulks, bulks_allocated, kheapPageAllocBreak, mapped, last>>

Freed == [size |-> 0, va |-> NULL]   \* the last call was a kfree

kheap_init ==
  /\ bulks = <<>> /\ bulks_allocated = <<>>
  /\ kheapPageAllocBreak = Start
  /\ mapped = {}
  /\ last = Freed
-----------------------------------------------------------------------------
PagesOf(start, size) == start .. start + size - 1

\* map_frame_range, and a new node at the head of bulks_allocated.
Allocated(start, n) ==
  /\ mapped' = mapped \cup PagesOf(start, n)
  /\ bulks_allocated' = <<NewBulk(start, n)>> \o bulks_allocated
  /\ last' = [size |-> n, va |-> start]

\* A request that would just fit is refused.
NoRoomAtLimit(n) == n >= HeapMax - kheapPageAllocBreak

NoRoom(n) == n > HeapMax - kheapPageAllocBreak

page_alloc_custom_fit(n) ==
  \/ \E b \in ExactFit(bulks, n) :
       /\ bulks' = remove_bulk(bulks, b)
       /\ Allocated(b.start, n)
       /\ UNCHANGED kheapPageAllocBreak
  \/ /\ ExactFit(bulks, n) = {}
     /\ \E b \in WorstFit(bulks, n) :
          /\ bulks' = Carved(bulks, n)
          /\ Allocated(b.start, n)
     /\ UNCHANGED kheapPageAllocBreak
  \/ /\ ExactFit(bulks, n) = {} /\ WorstFit(bulks, n) = {}
     /\ IF NoRoom(n)
          THEN /\ last' = [size |-> n, va |-> NULL]
               /\ UNCHANGED <<mapped, bulks_allocated, kheapPageAllocBreak>>
          ELSE /\ Allocated(kheapPageAllocBreak, n)
               /\ kheapPageAllocBreak' = kheapPageAllocBreak + n
     /\ UNCHANGED bulks

kmalloc(n) == page_alloc_custom_fit(n)
-----------------------------------------------------------------------------
\* The break stays where it is.
KeepBreak(bs, break) == [bulks |-> bs, break |-> break]

\* The loop at the end of kfree: while a free bulk ends at the break, the bulk
\* goes and the break comes down to its start.
RECURSIVE LowerBreak(_, _)
LowerBreak(bs, break) ==
  LET top == Before(bs, break)
  IN IF top = {} THEN [bulks |-> bs, break |-> break]
     ELSE LowerBreak(Without(bs, top), Min({bs[i].start : i \in top}))

\* kfree of a pointer that kmalloc returned; any other panics.
kfree(b) ==
  /\ bulks_allocated' = remove_bulk(bulks_allocated, b)
  /\ mapped' = mapped \ PagesOf(b.start, b.size)
  /\ LET r == LowerBreak(merge_bulks(bulks, b.start, b.size), kheapPageAllocBreak)
     IN bulks' = r.bulks /\ kheapPageAllocBreak' = r.break
  /\ last' = Freed

Next == \/ \E n \in Sizes : kmalloc(n)
        \/ \E b \in ToSet(bulks_allocated) : kfree(b)

Spec == kheap_init /\ [][Next]_vars
-----------------------------------------------------------------------------
TypeOK ==
  /\ bulks \in Seq([start: Start..HeapMax, size: 1..HeapMax])
  /\ bulks_allocated \in Seq([start: Start..HeapMax, size: 1..HeapMax])
  /\ IsInjective(bulks) /\ IsInjective(bulks_allocated)
  /\ kheapPageAllocBreak \in Start..HeapMax
  /\ mapped \subseteq Start..HeapMax
  /\ last \in [size: 0..HeapMax, va: (Start..HeapMax) \cup {NULL}]

\* The free list stays in descending order, so its head is the worst fit,
\* although page_alloc_custom_fit and merge_bulks resize nodes of the list.
WorstFitAtHead == Sorted(bulks)

Abstract == INSTANCE PageAllocator WITH
              break <- kheapPageAllocBreak,
              free <- ToSet(bulks), used <- ToSet(bulks_allocated)

\* The two lists partition the region below the break: no page is in two bulks
\* and none in no bulk, no two free bulks touch and none touches the break, and
\* a page has a frame exactly while an allocation owns it.  This is the invariant
\* that is proved inductive for the abstract allocator.
PartitionInv == Abstract!PartitionInv

\* kmalloc returns NULL only when no run of pages is left that is long enough.
NullOnlyWhenFull == Abstract!NullOnlyWhenFull

\* The lists implement the abstract allocator, step by step.
ImplementsPageAllocator == Abstract!Spec
=============================================================================
