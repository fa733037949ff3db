--------------------------- MODULE PageAllocator ---------------------------
(***************************************************************************)
(* What the page allocator of the kernel heap (kern/mem/kheap.c) promises, *)
(* with its lists abstracted to sets.  Addresses and sizes are counted in  *)
(* pages.  kheap_lock makes each operation one step.                       *)
(***************************************************************************)
EXTENDS HeapRegion

VARIABLES
  free,     \* the free bulks below the break
  used,     \* the allocated bulks
  break,    \* kheapPageAllocBreak
  mapped,   \* the pages of the region that have a frame
  last      \* the last call: the size requested and the address returned

vars == <<free, used, break, mapped, last>>

Bulks == [start: Nat, size: Nat]
End(b) == b.start + b.size
Pages(b) == b.start .. End(b) - 1
Bulk(start, size) == [start |-> start, size |-> size]

Reply(n, va) == [size |-> n, va |-> va]
Freed == Reply(0, NULL)   \* the last call was a kfree

TypeOK ==
  /\ free \subseteq Bulks /\ used \subseteq Bulks
  /\ break \in Nat
  /\ mapped \subseteq Nat
  /\ last \in [size: Nat, va: Nat \cup {NULL}]

Init ==
  /\ free = {} /\ used = {}
  /\ break = Start
  /\ mapped = {}
  /\ last = Freed
-----------------------------------------------------------------------------
(* page_alloc_custom_fit: exact fit, else worst fit, else a higher break. *)

Grant(b) ==
  /\ used' = used \cup {b}
  /\ mapped' = mapped \cup Pages(b)
  /\ last' = Reply(b.size, b.start)

ExactFit(n) ==
  \E b \in free :
    /\ b.size = n
    /\ free' = free \ {b}
    /\ Grant(b)
    /\ UNCHANGED break

NoExactFit(n) == \A b \in free : b.size # n

\* A largest bulk gives its first n pages.
WorstFit(n) ==
  /\ NoExactFit(n)
  /\ \E b \in free :
       /\ b.size > n
       /\ \A c \in free : c.size <= b.size
       /\ free' = (free \ {b}) \cup {Bulk(b.start + n, b.size - n)}
       /\ Grant(Bulk(b.start, n))
  /\ UNCHANGED break

NoFit(n) == \A b \in free : b.size < n

ExtendBreak(n) ==
  /\ NoFit(n) /\ break + n <= HeapMax
  /\ Grant(Bulk(break, n))
  /\ break' = break + n
  /\ UNCHANGED free

Fail(n) ==
  /\ NoFit(n) /\ break + n > HeapMax
  /\ last' = Reply(n, NULL)
  /\ UNCHANGED <<free, used, break, mapped>>

Alloc(n) == ExactFit(n) \/ WorstFit(n) \/ ExtendBreak(n) \/ Fail(n)
-----------------------------------------------------------------------------
(* kfree of the start of an allocated bulk. *)

Before(b) == {c \in free : End(c) = b.start}
After(b) == {c \in free : c.start = End(b)}
Neighbours(b) == Before(b) \cup After(b)

\* merge_bulks: the freed bulk together with its free neighbours.
Merged(b) ==
  LET low == IF Before(b) = {} THEN b.start ELSE (CHOOSE c \in Before(b) : TRUE).start
      high == IF After(b) = {} THEN End(b) ELSE End(CHOOSE c \in After(b) : TRUE)
  IN Bulk(low, high - low)

\* A free bulk that reaches the break is given back to it.
Free(b) ==
  /\ b \in used
  /\ used' = used \ {b}
  /\ mapped' = mapped \ Pages(b)
  /\ IF End(Merged(b)) = break
       THEN free' = free \ Neighbours(b) /\ break' = Merged(b).start
       ELSE free' = (free \ Neighbours(b)) \cup {Merged(b)} /\ UNCHANGED break
  /\ last' = Freed

Next == \/ \E n \in Sizes : Alloc(n)
        \/ \E b \in used : Free(b)

Spec == Init /\ [][Next]_vars
-----------------------------------------------------------------------------
Apart(b, c) == End(b) <= c.start \/ End(c) <= b.start

\* No page belongs to two bulks, allocated or free: two live allocations of
\* kmalloc never overlap, and none lies in what is listed as free.
Disjoint ==
  /\ \A b, c \in used : b = c \/ Apart(b, c)
  /\ \A b, c \in free : b = c \/ Apart(b, c)
  /\ \A b \in used, c \in free : Apart(b, c)

InRange(b) == b.size > 0 /\ Start <= b.start /\ End(b) <= break

\* Every page below the break is accounted for, by an allocation or by the
\* free list: nothing is lost whatever the order of kmalloc and kfree.
Covered == \A p \in Start..break-1 : \E b \in used \cup free : p \in Pages(b)

\* Free space is kept merged: no two free bulks touch, and none touches the
\* break.
Coalesced ==
  /\ \A b, c \in free : End(b) # c.start
  /\ \A b \in free : End(b) # break

\* A page of the region has a frame exactly while an allocation owns it.
MappedIsUsed ==
  /\ mapped \subseteq Start..HeapMax-1
  /\ \A p \in Start..HeapMax-1 : p \in mapped <=> \E b \in used : p \in Pages(b)

\* The inductive invariant.
PartitionInv ==
  /\ TypeOK
  /\ break <= HeapMax /\ Start <= break
  /\ \A b \in used \cup free : InRange(b)
  /\ Disjoint /\ Covered /\ Coalesced /\ MappedIsUsed

Run(p, n) == p .. p + n - 1

\* kmalloc returns NULL only when no run of n unallocated pages is left in the
\* whole region, so fragmentation is never the allocator's own doing.
NullOnlyWhenFull ==
  [][last'.size > 0 /\ last'.va = NULL =>
       \A p \in Start..HeapMax : p + last'.size <= HeapMax =>
         \E q \in Run(p, last'.size) : q \in mapped]_vars
=============================================================================
