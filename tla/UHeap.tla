------------------------------- MODULE UHeap -------------------------------
(***************************************************************************)
(* The page allocator of the user heap, lib/uheap.c, for one process, with *)
(* the system calls it makes (kern/trap/syscall.c and                      *)
(* kern/mem/chunk_operations.c).  Addresses and sizes are counted in       *)
(* pages.  Requests of at most DYN_ALLOC_MAX_BLOCK_SIZE bytes go to        *)
(* alloc_block (module DynAlloc).                                          *)
(***************************************************************************)
EXTENDS BulkList, Bags

CONSTANTS
  Start,       \* uheapPageAllocStart
  HeapMax,     \* USER_HEAP_MAX
  Sizes,       \* the numbers of pages that are requested
  FreeNodes,   \* the length of free_nodes, 2048 in merge_bulks
  MaxLive      \* bound: allocations a program holds at a time

VARIABLES
  bulks,                 \* the free list
  allocation_sizes,      \* by start page; 0 when no allocation starts there
  uheapPageAllocBreak,
  free_nodes_index,      \* nodes of free_nodes handed out so far
  marked,                \* the pages whose table entry has PERM_UHPAGE
  live,                  \* the bag of what malloc returned and was not freed
  fate                   \* "running", or how the process ended

vars == <<bulks, allocation_sizes, uheapPageAllocBreak, free_nodes_index,
          marked, live, fate>>

HeapPages == Start..HeapMax-1
PagesOf(b) == b.start .. BulkEnd(b) - 1

TypeOK ==
  /\ \A i \in 1..Len(bulks) :
       bulks[i].size > 0 /\ Start <= bulks[i].start /\ BulkEnd(bulks[i]) <= HeapMax
  /\ allocation_sizes \in [HeapPages -> 0..HeapMax]
  /\ uheapPageAllocBreak \in Start..HeapMax
  /\ free_nodes_index \in 0..FreeNodes
  /\ marked \subseteq HeapPages
  /\ \A b \in BagToSet(live) : Start <= b.start /\ BulkEnd(b) < HeapMax
  /\ fate \in {"running", "terminated", "panicked"}

uheap_init ==
  /\ bulks = <<>>
  /\ allocation_sizes = [p \in HeapPages |-> 0]
  /\ uheapPageAllocBreak = Start
  /\ free_nodes_index = 0
  /\ marked = {} /\ live = EmptyBag
  /\ fate = "running"
-----------------------------------------------------------------------------
(* user_page_alloc_custom_fit, as the choice of a place: where the pages     *)
(* come from, the free list and the break afterwards.                        *)

Place(va, bs, break) == [va |-> va, bulks |-> bs, break |-> break]

user_page_alloc_custom_fit(n) ==
  IF ExactFit(bulks, n) # {}
    THEN {Place(b.start, remove_bulk(bulks, b), uheapPageAllocBreak) : b \in ExactFit(bulks, n)}
  ELSE IF WorstFit(bulks, n) # {}
    THEN {Place(Head(bulks).start, Carved(bulks, n), uheapPageAllocBreak)}
  ELSE IF n <= HeapMax - uheapPageAllocBreak
    THEN {Place(uheapPageAllocBreak, bulks, uheapPageAllocBreak + n)}
  ELSE {}

\* sys_allocate_user_mem and sys_free_user_mem end a process that names a range
\* which reaches USER_HEAP_MAX.
LegalRange(va, n) == va + n < HeapMax

\* The free list, the size and the break are recorded around the system call.
Recorded(x, n) ==
  /\ bulks' = x.bulks
  /\ allocation_sizes' = [allocation_sizes EXCEPT ![x.va] = n]
  /\ uheapPageAllocBreak' = x.break
  /\ UNCHANGED free_nodes_index

Terminate ==
  /\ fate' = "terminated"
  /\ UNCHANGED <<bulks, allocation_sizes, uheapPageAllocBreak, free_nodes_index, marked, live>>

\* Mutant: does not ask for the pages.
MallocUnmarked(n) ==
  /\ fate = "running" /\ BagCardinality(live) < MaxLive
  /\ \E x \in user_page_alloc_custom_fit(n) :
       /\ Recorded(x, n)
       /\ live' = live (+) SetToBag({NewBulk(x.va, n)})
       /\ UNCHANGED <<marked, fate>>

\* malloc of n pages; when nothing fits it returns NULL and nothing changes.
malloc(n) ==
  /\ fate = "running" /\ BagCardinality(live) < MaxLive
  /\ \E x \in user_page_alloc_custom_fit(n) :
       IF LegalRange(x.va, n)
         THEN /\ Recorded(x, n)
              /\ marked' = marked \cup x.va .. x.va + n - 1
              /\ live' = live (+) SetToBag({NewBulk(x.va, n)})
              /\ UNCHANGED fate
         ELSE Terminate

\* smalloc or sget.  When the object is created or found its frames are mapped in
\* the marked entries, which keep the mark; when that last system call fails, the
\* entries are cleared and NULL is returned.  The allocator's own state is the
\* same either way: the range stays taken (sfree is not implemented).
Share(n) ==
  /\ fate = "running"
  /\ \E x \in user_page_alloc_custom_fit(n) :
       IF LegalRange(x.va, n)
         THEN /\ Recorded(x, n)
              /\ LET range == x.va .. x.va + n - 1
                 IN marked' = marked \cup range \/ marked' = marked \ range
              /\ UNCHANGED <<live, fate>>
         ELSE Terminate
-----------------------------------------------------------------------------
\* The break after a free: the end of the highest allocation that starts below
\* the old one.
NewBreak(sizes, break) ==
  LET starts == {p \in HeapPages : p < break /\ sizes[p] # 0}
  IN IF starts = {} THEN Start ELSE Max(starts) + sizes[Max(starts)]

NeedsNode(b) == Before(bulks, b.start) = {} /\ After(bulks, BulkEnd(b)) = {}

\* free of a pointer that malloc returned.
free(b) ==
  /\ fate = "running"
  /\ live' = live (-) SetToBag({b})
  /\ LET n == allocation_sizes[b.start]
         f == NewBulk(b.start, n)
     IN IF n = 0
          THEN UNCHANGED <<bulks, allocation_sizes, uheapPageAllocBreak,
                           free_nodes_index, marked, fate>>
        ELSE IF NeedsNode(f) /\ free_nodes_index >= FreeNodes
          THEN /\ fate' = "panicked"
               /\ allocation_sizes' = [allocation_sizes EXCEPT ![b.start] = 0]
               /\ UNCHANGED <<bulks, uheapPageAllocBreak, free_nodes_index, marked>>
        ELSE /\ allocation_sizes' = [allocation_sizes EXCEPT ![b.start] = 0]
             /\ bulks' = merge_bulks(bulks, b.start, n)
             /\ free_nodes_index' = free_nodes_index + (IF NeedsNode(f) THEN 1 ELSE 0)
             /\ uheapPageAllocBreak' = NewBreak(allocation_sizes', uheapPageAllocBreak)
             /\ IF LegalRange(b.start, n)
                  THEN marked' = marked \ PagesOf(f) /\ UNCHANGED fate
                  ELSE fate' = "terminated" /\ UNCHANGED marked

Next ==
  \/ \E n \in Sizes : malloc(n) \/ Share(n)
  \/ \E b \in BagToSet(live) : free(b)

Spec == uheap_init /\ [][Next]_vars
-----------------------------------------------------------------------------
Apart(b, c) == BulkEnd(b) <= c.start \/ BulkEnd(c) <= b.start

DisjointBag(B) ==
  /\ \A b \in BagToSet(B) : B[b] = 1
  /\ \A b, c \in BagToSet(B) : b = c \/ Apart(b, c)

\* Two allocations that the program has not freed never share a page.
AllocationsDisjoint == DisjointBag(live)

\* The free list stays in descending order, so its head is the worst fit,
\* although malloc and merge_bulks resize nodes of the list.
WorstFitAtHead == Sorted(bulks)

\* A page of a live allocation may be used: its table entry carries the mark
\* that the page fault handler looks for.
LivePagesMarked == \A b \in BagToSet(live) : PagesOf(b) \subseteq marked

\* What allocation_sizes and the free list describe overlaps nowhere, lies
\* below the break, and includes what is live and usable.
Held == {NewBulk(p, allocation_sizes[p]) : p \in {q \in HeapPages : allocation_sizes[q] # 0}}
FreeBag == [b \in ToSet(bulks) |-> Cardinality({i \in DOMAIN bulks : bulks[i] = b})]
Tidy ==
  LET all == SetToBag(Held) (+) FreeBag
  IN /\ DisjointBag(all)
     /\ \A b \in BagToSet(all) : BulkEnd(b) <= uheapPageAllocBreak
     /\ BagToSet(live) \subseteq Held /\ DisjointBag(live) /\ LivePagesMarked

\* As long as the heap is tidy every call is safe: what is live stays disjoint
\* and usable.  And every call that does not lower the break keeps it tidy, so
\* two live allocations can only overlap after a free has left a free bulk above
\* the break.
OverlapNeedsBulkAboveBreak ==
  [][Tidy => /\ AllocationsDisjoint' /\ LivePagesMarked'
             /\ uheapPageAllocBreak' >= uheapPageAllocBreak => Tidy']_vars
=============================================================================
