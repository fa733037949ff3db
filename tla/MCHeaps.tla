------------------------------ MODULE MCHeaps ------------------------------
(***************************************************************************)
(* The three allocators on small regions.  They share no state, so a       *)
(* behaviour takes steps of one of them only, and the states are the sum   *)
(* and not the product of theirs.                                          *)
(***************************************************************************)
EXTENDS KHeap

CONSTANTS UStart, UHeapMax, USizes, FreeNodes, MaxLive
VARIABLES ubulks, allocation_sizes, uheapPageAllocBreak, free_nodes_index, marked,
          ulive, fate
U == INSTANCE UHeap WITH
       Start <- UStart, HeapMax <- UHeapMax, Sizes <- USizes, bulks <- ubulks, live <- ulive

uvars == <<ubulks, allocation_sizes, uheapPageAllocBreak, free_nodes_index, marked,
           ulive, fate>>

CONSTANTS NumPages, Classes, Requests
VARIABLES freeBlockLists, freePagesList, block_size, num_of_free_blocks, dmapped,
          panicked, dlive
D == INSTANCE DynAlloc WITH mapped <- dmapped, live <- dlive
dvars == <<freeBlockLists, freePagesList, block_size, num_of_free_blocks, dmapped,
           panicked, dlive>>

HeapsInit == kheap_init /\ U!uheap_init /\ D!initialize_dynamic_allocator

HeapsNext ==
  \/ U!uheap_init /\ D!initialize_dynamic_allocator /\ Next /\ UNCHANGED <<uvars, dvars>>
  \/ kheap_init /\ D!initialize_dynamic_allocator /\ U!Next /\ UNCHANGED <<vars, dvars>>
  \/ kheap_init /\ U!uheap_init /\ D!Next /\ UNCHANGED <<vars, uvars>>

HeapsSpec == HeapsInit /\ [][HeapsNext]_<<vars, uvars, dvars>>

\* The user heap: see OverlapNeedsBulkAboveBreak in module UHeap.
OverlapNeedsBulkAboveBreak == U!OverlapNeedsBulkAboveBreak

\* The block allocator: see BlocksUsable in module DynAlloc.
BlocksUsable == D!BlocksUsable

\* The block allocator's counters, lists and pages agree: CountersAgree and
\* PagesAccounted in module DynAlloc.
BlocksAccounted == D!CountersAgree /\ D!PagesAccounted
=============================================================================
