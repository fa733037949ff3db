------------------------------ MODULE BulkList ------------------------------
(***************************************************************************)
(* The lists of bulks that both heaps keep (kern/mem/kheap.c and           *)
(* lib/uheap.c have the same three functions).  A bulk is a run of whole   *)
(* pages; a list is the sequence of its nodes from the head.               *)
(***************************************************************************)
EXTENDS Integers, Sequences, FiniteSets, SequencesExt

NewBulk(start, size) == [start |-> start, size |-> size]
BulkEnd(b) == b.start + b.size

\* Mutant: walks past the nodes that are smaller.
insert_bulk_asc(bs, b) ==
  LET k == Max({i \in 0..Len(bs) : \A j \in 1..i : bs[j].size < b.size})
  IN InsertAt(bs, k + 1, b)

\* In front of the first node that is not larger.
insert_bulk_desc(bs, b) ==
  LET k == Max({i \in 0..Len(bs) : \A j \in 1..i : bs[j].size > b.size})
  IN InsertAt(bs, k + 1, b)

remove_bulk(bs, b) == Remove(bs, b)

\* The last node, if any, that satisfies the test, as a set of positions.
LastAt(bs, Test(_)) ==
  LET S == {i \in DOMAIN bs : Test(bs[i])} IN IF S = {} THEN {} ELSE {Max(S)}
Before(bs, start) == LastAt(bs, LAMBDA b : BulkEnd(b) = start)
After(bs, end) == LastAt(bs, LAMBDA b : b.start = end)

Without(bs, S) ==
  LET keep == SetToSortSeq(DOMAIN bs \ S, <)
  IN [k \in 1..Len(keep) |-> bs[keep[k]]]

\* Mutant: looks for the neighbour below only.
merge_bulks_below(bs, start, size) ==
  LET before == Before(bs, start)
      low == Min({start} \cup {bs[i].start : i \in before})
  IN insert_bulk_desc(Without(bs, before), NewBulk(low, start + size - low))

\* Joins the freed run with the free bulk that ends where it starts and with
\* the one that starts where it ends.
merge_bulks(bs, start, size) ==
  LET before == Before(bs, start)
      after == After(bs, start + size)
      low == Min({start} \cup {bs[i].start : i \in before})
      high == Max({start + size} \cup {BulkEnd(bs[i]) : i \in after})
  IN insert_bulk_desc(Without(bs, before \cup after), NewBulk(low, high - low))

\* The first node of exactly n pages, as a set of at most one.
ExactFit(bs, n) ==
  LET S == {i \in 1..Len(bs) : bs[i].size = n}
  IN IF S = {} THEN {} ELSE {bs[Min(S)]}

\* The head, if it is larger than n: the list is sorted, so it is the largest.
WorstFit(bs, n) == IF bs # <<>> /\ Head(bs).size > n THEN {Head(bs)} ELSE {}

\* The list after a worst fit of n pages: the remainder is put back in order.
Carved(bs, n) ==
  insert_bulk_desc(Tail(bs), NewBulk(Head(bs).start + n, Head(bs).size - n))

Sorted(bs) == \A i, j \in 1..Len(bs) : i < j => bs[i].size >= bs[j].size
=============================================================================
