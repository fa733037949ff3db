------------------------ MODULE PageAllocatorProofs ------------------------
(***************************************************************************)
(* PartitionInv is an invariant of the page allocator for every region and *)
(* every set of request sizes, and a kmalloc that returns NULL found no    *)
(* run of free pages that is long enough.                                  *)
(***************************************************************************)
EXTENDS PageAllocator, TLAPS

\* A bulk is determined by its two fields, and Bulk() builds one.
LEMMA BulkFields ==
  /\ \A s, n \in Nat : /\ Bulk(s, n) \in Bulks
                       /\ Bulk(s, n).start = s /\ Bulk(s, n).size = n
                       /\ End(Bulk(s, n)) = s + n
  /\ \A b \in Bulks : b.start \in Nat /\ b.size \in Nat /\ End(b) \in Nat
BY DEF Bulk, Bulks, End

\* The empty heap of kheap_init is partitioned.
LEMMA InitPartition == Init => PartitionInv
BY RangeAssumption
DEF Init, PartitionInv, TypeOK, Freed, Reply, Bulks, InRange, Disjoint, Covered,
    Coalesced, MappedIsUsed

\* Mapping the pages of a bulk and listing it as allocated keeps the page table
\* and the list in agreement.
LEMMA GrantMaps ==
  ASSUME TypeOK, MappedIsUsed, NEW b \in Bulks, Grant(b),
         b.size > 0, Start <= b.start, End(b) <= HeapMax
  PROVE  /\ used' \subseteq Bulks /\ mapped' \subseteq Nat
         /\ last' \in [size: Nat, va: Nat \cup {NULL}]
         /\ MappedIsUsed'
<1>1. b.start \in Nat /\ b.size \in Nat /\ End(b) = b.start + b.size
  BY DEF Bulks, End
<1>2. ASSUME NEW q \in Pages(b) PROVE q \in Nat /\ q \in Start..HeapMax-1
  BY <1>1, RangeAssumption DEF Pages
<1>3. used' = used \cup {b} /\ mapped' = mapped \cup Pages(b)
  BY DEF Grant
<1>4. used' \subseteq Bulks /\ mapped' \subseteq Nat
  BY <1>2, <1>3, Zenon DEF TypeOK
<1>5. last' \in [size: Nat, va: Nat \cup {NULL}]
  <2>1. last' = [size |-> b.size, va |-> b.start]
    BY DEF Grant, Reply
  <2>. QED  BY <1>1, <2>1
<1>6. mapped' \subseteq Start..HeapMax-1
  BY <1>2, <1>3, Zenon DEF MappedIsUsed
<1>7. ASSUME NEW q \in Start..HeapMax-1
      PROVE  q \in mapped' <=> \E c \in used' : q \in Pages(c)
  <2>1. q \in mapped <=> \E c \in used : q \in Pages(c)
    BY DEF MappedIsUsed
  <2>. QED  BY <1>3, <2>1, Zenon
<1>. QED  BY <1>4, <1>5, <1>6, <1>7 DEF MappedIsUsed
-----------------------------------------------------------------------------
\* page_alloc_custom_fit keeps the partition when it hands out a free bulk
\* whole (remove_bulk takes it out of the list).
LEMMA ExactFitPartition ==
  ASSUME PartitionInv, NEW n \in Sizes, ExactFit(n)
  PROVE  PartitionInv'
<1>. PICK b \in free : b.size = n /\ free' = free \ {b} /\ Grant(b) /\ break' = break
  BY DEF ExactFit
<1>. b \in Bulks /\ b.size > 0 /\ Start <= b.start /\ End(b) <= break
  BY DEF PartitionInv, TypeOK, InRange
<1>. End(b) <= HeapMax
  BY BulkFields, RangeAssumption DEF PartitionInv, TypeOK
<1>1. TypeOK'
  BY GrantMaps DEF PartitionInv, TypeOK
<1>2. used' \cup free' = used \cup free
  BY DEF Grant
<1>3. (break <= HeapMax /\ Start <= break)' /\ (\A c \in used \cup free : InRange(c))'
  BY <1>2 DEF PartitionInv, InRange
<1>4. Disjoint'
  BY DEF PartitionInv, Disjoint, Grant, Apart
<1>5. Covered'
  BY <1>2 DEF PartitionInv, Covered
<1>6. Coalesced'
  BY DEF PartitionInv, Coalesced
<1>7. MappedIsUsed'
  BY GrantMaps DEF PartitionInv
<1>. QED  BY <1>1, <1>3, <1>4, <1>5, <1>6, <1>7 DEF PartitionInv

\* ... when it carves the first n pages off a larger bulk,
LEMMA WorstFitPartition ==
  ASSUME PartitionInv, NEW n \in Sizes, WorstFit(n)
  PROVE  PartitionInv'
<1>. PICK b \in free : /\ b.size > n
                       /\ free' = (free \ {b}) \cup {Bulk(b.start + n, b.size - n)}
                       /\ Grant(Bulk(b.start, n)) /\ break' = break
  BY DEF WorstFit
<1>. n \in Nat /\ n > 0
  BY SizesAssumption
<1>. b \in Bulks /\ b.size > 0 /\ Start <= b.start /\ End(b) <= break
  BY DEF PartitionInv, TypeOK, InRange
<1>. DEFINE g == Bulk(b.start, n)
           r == Bulk(b.start + n, b.size - n)
<1>1. /\ g \in Bulks /\ g.start = b.start /\ g.size = n /\ End(g) = b.start + n
      /\ r \in Bulks /\ r.start = b.start + n /\ r.size = b.size - n /\ End(r) = End(b)
      /\ b.start \in Nat /\ b.size \in Nat /\ End(b) = b.start + b.size
  BY DEF Bulk, Bulks, End
<1>2. used' = used \cup {g} /\ free' = (free \ {b}) \cup {r}
      /\ Grant(g)
  BY DEF Grant
<1>. HIDE DEF g, r
<1>. End(g) <= HeapMax
  BY <1>1, RangeAssumption DEF PartitionInv, TypeOK
<1>3. TypeOK'
  BY <1>1, <1>2, GrantMaps DEF PartitionInv, TypeOK
<1>4. (break <= HeapMax /\ Start <= break)' /\ (\A c \in used \cup free : InRange(c))'
  BY <1>1, <1>2, RangeAssumption DEF PartitionInv, InRange, TypeOK
<1>5. Disjoint'
  <2>1. ASSUME NEW c \in Bulks, Apart(c, b) \/ Apart(b, c)
        PROVE  Apart(c, g) /\ Apart(g, c) /\ Apart(c, r) /\ Apart(r, c)
    <3>1. c.start \in Nat /\ c.size \in Nat /\ End(c) = c.start + c.size
      BY DEF Bulks, End
    <3>. QED  BY <1>1, <2>1, <3>1 DEF Apart
  <2>2. \A c \in used \cup (free \ {b}) :
           Apart(c, g) /\ Apart(g, c) /\ Apart(c, r) /\ Apart(r, c)
    BY <2>1 DEF PartitionInv, Disjoint, TypeOK
  <2>3. Apart(g, r)
    BY <1>1 DEF Apart
  <2>. QED  BY <1>2, <2>2, <2>3 DEF PartitionInv, Disjoint, Apart
<1>6. Covered'
  <2>. SUFFICES ASSUME NEW p \in Start..break-1
               PROVE  \E c \in used' \cup free' : p \in Pages(c)
    BY DEF Covered
  <2>1. PICK c \in used \cup free : p \in Pages(c)
    BY DEF PartitionInv, Covered
  <2>2. CASE c # b
    BY <1>2, <2>1, <2>2
  <2>3. CASE c = b
    <3>1. p \in Pages(g) \/ p \in Pages(r)
      BY <1>1, <2>1, <2>3, RangeAssumption DEF Pages, PartitionInv, TypeOK
    <3>. QED  BY <1>2, <3>1
  <2>. QED  BY <2>2, <2>3
<1>7. Coalesced'
  <2>1. ASSUME NEW c \in free \ {b} PROVE End(c) # r.start /\ End(r) # c.start
    <3>1. /\ c.start \in Nat /\ c.size \in Nat /\ c.size > 0
          /\ End(c) = c.start + c.size /\ Apart(b, c)
      BY DEF PartitionInv, TypeOK, Bulks, End, InRange, Disjoint
    <3>2. End(b) # c.start
      BY DEF PartitionInv, Coalesced
    <3>. QED  BY <1>1, <3>1, <3>2 DEF Apart
  <2>2. End(r) # r.start /\ End(r) # break
    BY <1>1 DEF PartitionInv, Coalesced
  <2>. QED  BY <1>2, <2>1, <2>2 DEF PartitionInv, Coalesced
<1>8. MappedIsUsed'
  BY <1>1, <1>2, GrantMaps DEF PartitionInv
<1>. QED  BY <1>3, <1>4, <1>5, <1>6, <1>7, <1>8 DEF PartitionInv

\* ... and when it raises the break.
LEMMA ExtendBreakPartition ==
  ASSUME PartitionInv, NEW n \in Sizes, ExtendBreak(n)
  PROVE  PartitionInv'
<1>. n \in Nat /\ n > 0
  BY SizesAssumption
<1>. DEFINE g == Bulk(break, n)
<1>1. break \in Nat /\ Start <= break /\ break + n <= HeapMax /\ break' = break + n
  BY DEF PartitionInv, TypeOK, ExtendBreak
<1>2. g \in Bulks /\ g.start = break /\ g.size = n /\ End(g) = break + n
  BY <1>1 DEF Bulk, Bulks, End
<1>3. used' = used \cup {g} /\ free' = free
      /\ Grant(g)
  BY DEF Grant, ExtendBreak
<1>. HIDE DEF g
<1>4. TypeOK'
  BY <1>1, <1>2, <1>3, GrantMaps DEF PartitionInv, TypeOK
<1>5. (break <= HeapMax /\ Start <= break)' /\ (\A c \in used \cup free : InRange(c))'
  <2>1. ASSUME NEW c \in used \cup free PROVE InRange(c)'
    <3>1. c \in Bulks /\ InRange(c)
      BY DEF PartitionInv, TypeOK
    <3>. QED  BY <1>1, <3>1, BulkFields DEF InRange
  <2>2. g.size > 0 /\ Start <= g.start /\ End(g) <= break'
    BY <1>1, <1>2, RangeAssumption
  <2>3. \A c \in used' \cup free' : c.size > 0 /\ Start <= c.start /\ End(c) <= break'
    BY <1>3, <2>1, <2>2 DEF InRange
  <2>. QED  BY <1>1, <2>3, RangeAssumption DEF InRange
<1>6. Disjoint'
  <2>1. \A c \in used \cup free : Apart(c, g) /\ Apart(g, c)
    BY <1>2 DEF PartitionInv, InRange, Apart
  <2>. QED  BY <1>3, <2>1 DEF PartitionInv, Disjoint
<1>7. Covered'
  <2>. SUFFICES ASSUME NEW p \in Start..break'-1
               PROVE  \E c \in used' \cup free' : p \in Pages(c)
    BY DEF Covered
  <2>1. CASE p < break
    BY <1>1, <1>3, <2>1, RangeAssumption DEF PartitionInv, Covered
  <2>2. CASE p >= break
    BY <1>1, <1>2, <1>3, <2>2, RangeAssumption DEF Pages
  <2>. QED  BY <1>1, <2>1, <2>2, RangeAssumption
<1>8. Coalesced'
  BY <1>1, <1>3, BulkFields DEF PartitionInv, Coalesced, InRange, TypeOK
<1>9. MappedIsUsed'
  BY <1>1, <1>2, <1>3, GrantMaps DEF PartitionInv
<1>. QED  BY <1>4, <1>5, <1>6, <1>7, <1>8, <1>9 DEF PartitionInv
-----------------------------------------------------------------------------
(* kfree.  m is the freed bulk b joined with its free neighbours.            *)

\* Two free bulks cannot end at one page, nor start at one.
LEMMA OneNeighbour ==
  ASSUME PartitionInv, NEW b \in free, NEW c \in free,
         End(b) = End(c) \/ b.start = c.start
  PROVE  b = c
<1>1. /\ b.start \in Nat /\ b.size \in Nat /\ b.size > 0 /\ End(b) = b.start + b.size
      /\ c.start \in Nat /\ c.size \in Nat /\ c.size > 0 /\ End(c) = c.start + c.size
  BY DEF PartitionInv, TypeOK, Bulks, InRange, End
<1>2. b = c \/ Apart(b, c)
  BY DEF PartitionInv, Disjoint
<1>. QED  BY <1>1, <1>2 DEF Apart

\* What merge_bulks makes of b: a bulk from the start of the neighbour below
\* to the end of the neighbour above.
LEMMA MergedEnds ==
  ASSUME PartitionInv, NEW b \in used
  PROVE  /\ Merged(b) \in Bulks
         /\ Start <= Merged(b).start /\ Merged(b).start <= b.start
         /\ End(b) <= End(Merged(b)) /\ End(Merged(b)) <= break
         /\ Merged(b).start = b.start \/ \E c \in Before(b) : Merged(b).start = c.start
         /\ End(Merged(b)) = End(b) \/ \E c \in After(b) : End(Merged(b)) = End(c)
         /\ \A c \in Before(b) : Merged(b).start = c.start
         /\ \A c \in After(b) : End(Merged(b)) = End(c)
<1>. DEFINE lo == IF Before(b) = {} THEN b.start ELSE (CHOOSE c \in Before(b) : TRUE).start
           hi == IF After(b) = {} THEN End(b) ELSE End(CHOOSE c \in After(b) : TRUE)
<1>1. b.start \in Nat /\ b.size \in Nat /\ b.size > 0 /\ End(b) = b.start + b.size
      /\ Start <= b.start /\ End(b) <= break
  BY DEF PartitionInv, TypeOK, Bulks, InRange, End
<1>2. \A c \in free : /\ c.start \in Nat /\ c.size \in Nat /\ c.size > 0
                      /\ End(c) = c.start + c.size /\ Start <= c.start /\ End(c) <= break
  BY DEF PartitionInv, TypeOK, Bulks, InRange, End
<1>3. /\ lo = b.start \/ \E c \in Before(b) : lo = c.start
      /\ \A c \in Before(b) : lo = c.start
  <2>1. CASE Before(b) = {}
    BY <2>1
  <2>2. CASE Before(b) # {}
    <3>1. PICK d \in Before(b) : d = CHOOSE c \in Before(b) : TRUE
      BY <2>2
    <3>2. \A c \in Before(b) : c = d
      BY OneNeighbour DEF Before
    <3>. QED  BY Zenon, <2>2, <3>1, <3>2
  <2>. QED  BY <2>1, <2>2
<1>4. /\ hi = End(b) \/ \E c \in After(b) : hi = End(c)
      /\ \A c \in After(b) : hi = End(c)
  <2>1. CASE After(b) = {}
    BY <2>1
  <2>2. CASE After(b) # {}
    <3>1. PICK d \in After(b) : d = CHOOSE c \in After(b) : TRUE
      BY <2>2
    <3>2. \A c \in After(b) : c = d
      BY OneNeighbour DEF After
    <3>. QED  BY Zenon, <2>2, <3>1, <3>2
  <2>. QED  BY <2>1, <2>2
<1>5. Merged(b) = Bulk(lo, hi - lo)
  BY DEF Merged
<1>. HIDE DEF lo, hi
<1>6. lo \in Nat /\ Start <= lo /\ lo <= b.start
  BY <1>1, <1>2, <1>3, RangeAssumption DEF Before
<1>7. hi \in Nat /\ End(b) <= hi /\ hi <= break
  BY <1>1, <1>2, <1>4 DEF After
<1>8. hi - lo \in Nat
  BY <1>1, <1>6, <1>7
<1>9. Merged(b) \in Bulks /\ Merged(b).start = lo /\ End(Merged(b)) = hi
  BY <1>5, <1>6, <1>7, <1>8 DEF Bulk, Bulks, End
<1>. QED  BY <1>3, <1>4, <1>6, <1>7, <1>9

\* Whatever stays listed is apart from the merged bulk, and no free bulk that
\* stays touches it.
LEMMA MergedApart ==
  ASSUME PartitionInv, NEW b \in used, NEW m, m = Merged(b),
         NEW c \in (used \ {b}) \cup (free \ Neighbours(b))
  PROVE  /\ Apart(c, m) /\ Apart(m, c)
         /\ c \in free => End(c) # m.start /\ c.start # End(m)
<1>1. /\ b.start \in Nat /\ b.size \in Nat /\ b.size > 0 /\ End(b) = b.start + b.size
      /\ c.start \in Nat /\ c.size \in Nat /\ c.size > 0 /\ End(c) = c.start + c.size
  BY DEF PartitionInv, TypeOK, Bulks, InRange, End
<1>2. Apart(c, b) \/ Apart(b, c)
  BY DEF PartitionInv, Disjoint
<1>3. m.start \in Nat /\ End(m) \in Nat /\ m.start <= b.start /\ End(b) <= End(m)
  BY Zenon, MergedEnds, BulkFields
<1>4. \A d \in Neighbours(b) :
         /\ d.start \in Nat /\ d.size \in Nat /\ d.size > 0 /\ End(d) = d.start + d.size
         /\ Apart(c, d) \/ Apart(d, c)
         /\ c \in free => End(c) # d.start /\ End(d) # c.start
  BY DEF PartitionInv, TypeOK, Bulks, InRange, End, Disjoint, Coalesced,
         Neighbours, Before, After
<1>5. End(c) <= b.start => End(c) <= m.start
  <2>1. CASE m.start = b.start
    BY <2>1
  <2>2. ASSUME NEW d \in Before(b), m.start = d.start
        PROVE  End(c) <= b.start => End(c) <= m.start
    BY <1>1, <1>4, <2>2 DEF Apart, Before, Neighbours
  <2>. QED  BY <2>1, <2>2, MergedEnds
<1>6. End(b) <= c.start => End(m) <= c.start
  <2>1. CASE End(m) = End(b)
    BY <2>1
  <2>2. ASSUME NEW d \in After(b), End(m) = End(d)
        PROVE  End(b) <= c.start => End(m) <= c.start
    BY <1>1, <1>4, <2>2 DEF Apart, After, Neighbours
  <2>. QED  BY <2>1, <2>2, MergedEnds
<1>7. Apart(c, m) /\ Apart(m, c)
  BY <1>2, <1>5, <1>6 DEF Apart
<1>8. ASSUME c \in free PROVE End(c) # m.start
  <2>1. CASE m.start = b.start
    <3>1. c \in free \ Neighbours(b)
      BY <1>1, <1>2, <1>8 DEF PartitionInv, Disjoint, Apart
    <3>. QED  BY <2>1, <3>1 DEF Neighbours, Before
  <2>2. ASSUME NEW d \in Before(b), m.start = d.start PROVE End(c) # m.start
    BY <1>4, <1>8, <2>2 DEF Neighbours
  <2>. QED  BY <2>1, <2>2, MergedEnds
<1>9. ASSUME c \in free PROVE c.start # End(m)
  <2>1. CASE End(m) = End(b)
    <3>1. c \in free \ Neighbours(b)
      BY <1>1, <1>2, <1>9 DEF PartitionInv, Disjoint, Apart
    <3>. QED  BY <2>1, <3>1 DEF Neighbours, After
  <2>2. ASSUME NEW d \in After(b), End(m) = End(d) PROVE c.start # End(m)
    BY <1>4, <1>9, <2>2 DEF Neighbours
  <2>. QED  BY <2>1, <2>2, MergedEnds
<1>. QED  BY <1>7, <1>8, <1>9

\* The merged bulk holds every page of what it replaces.
LEMMA MergedCovers ==
  ASSUME PartitionInv, NEW b \in used, NEW m, m = Merged(b),
         NEW c \in {b} \cup Neighbours(b), NEW p \in Pages(c)
  PROVE  p \in Pages(m)
<1>1. /\ b.start \in Nat /\ b.size \in Nat /\ End(b) = b.start + b.size
      /\ c.start \in Nat /\ c.size \in Nat /\ End(c) = c.start + c.size
  BY DEF PartitionInv, TypeOK, Bulks, End, Neighbours, Before, After
<1>2. m.start \in Nat /\ End(m) \in Nat /\ m.start <= b.start /\ End(b) <= End(m)
  BY Zenon, MergedEnds, BulkFields
<1>3. p \in Int /\ c.start <= p /\ p < End(c)
  BY <1>1 DEF Pages
<1>4. m.start <= c.start /\ End(c) <= End(m)
  <2>1. CASE c = b
    BY <1>2, <2>1
  <2>2. CASE c \in Before(b)
    BY <1>1, <1>2, <2>2, MergedEnds DEF Before
  <2>3. CASE c \in After(b)
    BY <1>1, <1>2, <2>3, MergedEnds DEF After
  <2>. QED  BY <2>1, <2>2, <2>3 DEF Neighbours
<1>. QED  BY <1>1, <1>2, <1>3, <1>4 DEF Pages

\* kfree keeps the partition, whether or not the merged bulk reaches the break.
LEMMA FreePartition ==
  ASSUME PartitionInv, NEW b \in used, Free(b)
  PROVE  PartitionInv'
<1>. PICK m : m = Merged(b)
  OBVIOUS
<1>. DEFINE rest == (used \ {b}) \cup (free \ Neighbours(b))
<1>1. /\ m \in Bulks /\ m.start \in Nat /\ m.size \in Nat /\ End(m) = m.start + m.size
      /\ Start <= m.start /\ m.start <= b.start
      /\ End(b) <= End(m) /\ End(m) <= break
      /\ b.start \in Nat /\ b.size \in Nat /\ b.size > 0 /\ End(b) = b.start + b.size
      /\ break \in Nat
  BY MergedEnds DEF PartitionInv, TypeOK, Bulks, InRange, End
<1>2. /\ used' = used \ {b} /\ mapped' = mapped \ Pages(b) /\ last' = Freed
      /\ IF End(m) = break
           THEN free' = free \ Neighbours(b) /\ break' = m.start
           ELSE free' = (free \ Neighbours(b)) \cup {m} /\ break' = break
  BY DEF Free
<1>3. TypeOK'
  <2>1. free' \subseteq Bulks /\ used' \subseteq Bulks /\ mapped' \subseteq Nat
        /\ break' \in Nat
    BY Zenon, <1>1, <1>2 DEF PartitionInv, TypeOK
  <2>2. last' \in [size: Nat, va: Nat \cup {NULL}]
    BY <1>2 DEF Freed, Reply
  <2>. QED  BY <2>1, <2>2 DEF TypeOK
<1>4. \A c \in rest : /\ c.start \in Nat /\ c.size \in Nat /\ c.size > 0
                      /\ End(c) = c.start + c.size /\ Start <= c.start /\ End(c) <= break
                      /\ Apart(c, m) /\ Apart(m, c)
                      /\ c \in free => End(c) # m.start /\ c.start # End(m)
  <2>. SUFFICES ASSUME NEW c \in rest
               PROVE  /\ c.start \in Nat /\ c.size \in Nat /\ c.size > 0
                      /\ End(c) = c.start + c.size /\ Start <= c.start /\ End(c) <= break
                      /\ Apart(c, m) /\ Apart(m, c)
                      /\ c \in free => End(c) # m.start /\ c.start # End(m)
    OBVIOUS
  <2>1. /\ c.start \in Nat /\ c.size \in Nat /\ c.size > 0
        /\ End(c) = c.start + c.size /\ Start <= c.start /\ End(c) <= break
    BY DEF PartitionInv, TypeOK, Bulks, InRange, End
  <2>. QED  BY <2>1, MergedApart
<1>5. break' <= break /\ \A c \in rest : End(c) <= break'
  <2>1. CASE End(m) = break
    BY <1>1, <1>2, <1>4, <2>1 DEF Apart
  <2>2. CASE End(m) # break
    BY <1>1, <1>2, <1>4, <2>2
  <2>. QED  BY <2>1, <2>2
<1>6. (break <= HeapMax /\ Start <= break)' /\ (\A c \in used \cup free : InRange(c))'
  <2>1. break' <= HeapMax /\ Start <= break'
    BY <1>1, <1>2, RangeAssumption DEF PartitionInv
  <2>2. \A c \in used' \cup free' : c.size > 0 /\ Start <= c.start /\ End(c) <= break'
    <3>1. CASE End(m) = break
      BY <1>2, <1>4, <1>5, <3>1
    <3>2. CASE End(m) # break
      <4>1. m.size > 0 /\ Start <= m.start /\ End(m) <= break'
        BY <1>1, <1>2, <3>2
      <4>. QED  BY <1>2, <1>4, <1>5, <3>2, <4>1
    <3>. QED  BY <3>1, <3>2
  <2>. QED  BY <2>1, <2>2 DEF InRange
<1>7. Disjoint'
  BY <1>2, <1>4 DEF PartitionInv, Disjoint
<1>8. Covered'
  <2>. SUFFICES ASSUME NEW p \in Start..break'-1
               PROVE  \E c \in used' \cup free' : p \in Pages(c)
    BY DEF Covered
  <2>1. p \in Start..break-1 /\ p \in Int /\ p < break'
    BY <1>1, <1>2, <1>5, RangeAssumption
  <2>2. PICK c \in used \cup free : p \in Pages(c)
    BY <2>1 DEF PartitionInv, Covered
  <2>3. CASE c \in rest
    BY <1>2, <2>2, <2>3
  <2>4. CASE c \in {b} \cup Neighbours(b)
    <3>1. p \in Pages(m)
      BY <2>2, <2>4, MergedCovers
    <3>2. End(m) # break
      BY <1>1, <1>2, <2>1, <3>1 DEF Pages
    <3>. QED  BY <1>2, <3>1, <3>2
  <2>. QED  BY <2>2, <2>3, <2>4
<1>9. Coalesced'
  <2>1. CASE End(m) = break
    BY <1>2, <1>4, <2>1 DEF PartitionInv, Coalesced
  <2>2. CASE End(m) # break
    <3>1. End(m) # m.start
      BY <1>1
    <3>. QED  BY <1>2, <1>4, <2>2, <3>1 DEF PartitionInv, Coalesced
  <2>. QED  BY <2>1, <2>2
<1>10. MappedIsUsed'
  <2>1. \A c \in used \ {b} : \A p : ~(p \in Pages(c) /\ p \in Pages(b))
    <3>. SUFFICES ASSUME NEW c \in used \ {b}, NEW p, p \in Pages(c), p \in Pages(b)
                 PROVE  FALSE
      OBVIOUS
    <3>1. Apart(b, c) \/ Apart(c, b)
      BY DEF PartitionInv, Disjoint
    <3>2. c.start \in Nat /\ c.size \in Nat /\ End(c) = c.start + c.size
      BY <1>4
    <3>. QED  BY <1>1, <3>1, <3>2 DEF Apart, Pages
  <2>. QED  BY Zenon, <1>2, <2>1 DEF PartitionInv, MappedIsUsed
<1>. QED  BY <1>3, <1>6, <1>7, <1>8, <1>9, <1>10 DEF PartitionInv

\* Every step keeps the partition.
LEMMA NextPartition == PartitionInv /\ [Next]_vars => PartitionInv'
<1>. SUFFICES ASSUME PartitionInv, [Next]_vars PROVE PartitionInv'
  OBVIOUS
<1>1. ASSUME NEW n \in Sizes, Fail(n) PROVE PartitionInv'
  <2>1. UNCHANGED <<free, used, break, mapped>>
    BY <1>1 DEF Fail
  <2>2. last' \in [size: Nat, va: Nat \cup {NULL}]
    <3>1. n \in Nat
      BY SizesAssumption
    <3>. QED  BY <1>1, <3>1 DEF Fail, Reply
  <2>. QED  BY <2>1, <2>2 DEF PartitionInv, TypeOK, InRange, Disjoint, Covered,
                              Coalesced, MappedIsUsed
<1>2. CASE UNCHANGED vars
  BY <1>2 DEF vars, PartitionInv, TypeOK, InRange, Disjoint, Covered, Coalesced,
              MappedIsUsed
<1>. QED  BY <1>1, <1>2, ExactFitPartition, WorstFitPartition, ExtendBreakPartition,
             FreePartition DEF Next, Alloc

\* For every region and every history of kmalloc and kfree, the bulks of the
\* two lists partition the region below kheapPageAllocBreak.
THEOREM PartitionKept == Spec => []PartitionInv
BY InitPartition, NextPartition, PTL DEF Spec

\* Two live kmalloc allocations never overlap, nor does one overlap what the
\* free list offers to the next kmalloc.
THEOREM NoOverlap == Spec => []Disjoint
<1>1. PartitionInv => Disjoint
  BY DEF PartitionInv
<1>. QED  BY <1>1, PartitionKept, PTL

\* kmalloc and kfree lose no page below the break.
THEOREM NoPageLost == Spec => []Covered
<1>1. PartitionInv => Covered
  BY DEF PartitionInv
<1>. QED  BY <1>1, PartitionKept, PTL

\* kfree unmaps exactly what kmalloc mapped.
THEOREM FrameIffOwned == Spec => []MappedIsUsed
<1>1. PartitionInv => MappedIsUsed
  BY DEF PartitionInv
<1>. QED  BY <1>1, PartitionKept, PTL
-----------------------------------------------------------------------------
\* When page_alloc_custom_fit finds no bulk of n pages and cannot raise the
\* break, every run of n pages in the region has an allocated page: free bulks
\* are merged, so a run without one would lie in a single bulk, or above the
\* break.
LEMMA FailFindsNoRun ==
  ASSUME PartitionInv, NEW n \in Sizes, NoFit(n), break + n > HeapMax,
         NEW p \in Start..HeapMax, p + n <= HeapMax
  PROVE  \E q \in Run(p, n) : q \in mapped
<1>. SUFFICES ASSUME \A q \in Run(p, n) : q \notin mapped PROVE FALSE
  OBVIOUS
<1>1. /\ n \in Nat /\ n > 0 /\ p \in Nat /\ Start <= p
      /\ break \in Nat /\ break <= HeapMax /\ Start <= break
  BY SizesAssumption, RangeAssumption DEF PartitionInv, TypeOK
<1>2. p < break
  BY <1>1, RangeAssumption
<1>3. ASSUME NEW q \in Int, p <= q, q < p + n, q < break
      PROVE  \E c \in free : q \in Pages(c)
  <2>1. q \in Run(p, n) /\ q \in Start..break-1 /\ q \in Start..HeapMax-1
    BY <1>1, <1>3, RangeAssumption DEF Run
  <2>2. PICK c \in used \cup free : q \in Pages(c)
    BY <2>1 DEF PartitionInv, Covered
  <2>3. c \notin used
    BY <2>1, <2>2 DEF PartitionInv, MappedIsUsed
  <2>. QED  BY <2>2, <2>3
<1>4. \A c \in free : /\ c.start \in Nat /\ c.size \in Nat /\ c.size > 0
                      /\ End(c) = c.start + c.size /\ End(c) < break
                      /\ c.size < n
  BY <1>1 DEF PartitionInv, TypeOK, Bulks, InRange, End, Coalesced, NoFit
<1>5. PICK b \in free : p \in Pages(b)
  BY <1>1, <1>2, <1>3
<1>6. b.start <= p /\ p < End(b) /\ End(b) < p + n /\ End(b) < break /\ End(b) \in Nat
  BY <1>1, <1>4, <1>5 DEF Pages
<1>7. PICK c \in free : End(b) \in Pages(c)
  BY <1>1, <1>3, <1>6
<1>8. c.start <= End(b) /\ End(b) < End(c)
  BY <1>4, <1>7 DEF Pages
<1>9. b = c \/ Apart(b, c)
  BY DEF PartitionInv, Disjoint
<1>10. End(b) # c.start
  BY DEF PartitionInv, Coalesced
<1>. QED  BY <1>4, <1>6, <1>8, <1>9, <1>10 DEF Apart

\* A kmalloc that returns NULL is right: no run of that many free pages is left
\* anywhere in the region.
THEOREM NoNeedlessNull == Spec => NullOnlyWhenFull
<1>. DEFINE Justified ==
       last'.size > 0 /\ last'.va = NULL =>
         \A p \in Start..HeapMax : p + last'.size <= HeapMax =>
           \E q \in Run(p, last'.size) : q \in mapped
<1>1. PartitionInv /\ [Next]_vars => [Justified]_vars
  <2>. SUFFICES ASSUME PartitionInv, Next PROVE Justified
    OBVIOUS
  <2>1. ASSUME NEW b \in Bulks, Grant(b) PROVE Justified
    <3>1. last'.va = b.start /\ b.start \in Nat
      BY <2>1 DEF Grant, Reply, Bulks
    <3>. QED  BY <3>1, NullAssumption
  <2>2. ASSUME NEW n \in Sizes, ExactFit(n) PROVE Justified
    <3>1. PICK b \in free : Grant(b)
      BY <2>2 DEF ExactFit
    <3>2. b \in Bulks
      BY DEF PartitionInv, TypeOK
    <3>. HIDE DEF Justified
    <3>. QED  BY <2>1, <3>1, <3>2
  <2>3. ASSUME NEW n \in Sizes, WorstFit(n) PROVE Justified
    <3>1. PICK b \in free : Grant(Bulk(b.start, n))
      BY <2>3 DEF WorstFit
    <3>2. Bulk(b.start, n) \in Bulks
      BY Zenon, BulkFields, SizesAssumption DEF PartitionInv, TypeOK
    <3>. HIDE DEF Justified
    <3>. QED  BY <2>1, <3>1, <3>2
  <2>4. ASSUME NEW n \in Sizes, ExtendBreak(n) PROVE Justified
    <3>1. Grant(Bulk(break, n))
      BY <2>4 DEF ExtendBreak
    <3>2. Bulk(break, n) \in Bulks
      BY BulkFields, SizesAssumption DEF PartitionInv, TypeOK
    <3>. HIDE DEF Justified
    <3>3. PICK g \in Bulks : Grant(g)
      BY <3>1, <3>2
    <3>. QED  BY <2>1, <3>3
  <2>5. ASSUME NEW n \in Sizes, Fail(n) PROVE Justified
    <3>1. last'.size = n /\ NoFit(n) /\ break + n > HeapMax
      BY <2>5 DEF Fail, Reply
    <3>. QED  BY <3>1, FailFindsNoRun
  <2>6. ASSUME NEW b \in used, Free(b) PROVE Justified
    <3>1. last'.size = 0
      BY <2>6 DEF Free, Freed, Reply
    <3>. QED  BY <3>1
  <2>. HIDE DEF Justified
  <2>. QED  BY <2>2, <2>3, <2>4, <2>5, <2>6 DEF Next, Alloc
<1>. QED  BY <1>1, PartitionKept, PTL DEF Spec, NullOnlyWhenFull
=============================================================================
