------------------------------ MODULE DynAlloc ------------------------------
(***************************************************************************)
(* The block allocator, lib/dynamic_allocator.c, which both heaps use for  *)
(* requests of at most DYN_ALLOC_MAX_BLOCK_SIZE bytes.  Block sizes are    *)
(* 2^0 .. 2^(Classes-1) units and a page is 2^Classes units, as there:     *)
(* sizes 2^LOG2_MIN_SIZE .. 2^LOG2_MAX_SIZE and a page twice the largest.  *)
(* A block is named by its page and its position in the page.  The lists   *)
(* of free blocks and of free pages are sets: which element is first does  *)
(* not matter below, and LIST_FIRST is any of them.                        *)
(***************************************************************************)
EXTENDS Integers, FiniteSets, FiniteSetsExt

CONSTANTS
  NumPages,    \* the pages of the allocator's region
  Classes,     \* LOG2_MAX_SIZE - LOG2_MIN_SIZE + 1
  Requests     \* the sizes that are asked for, in 1..2^(Classes-1)

VARIABLES
  freeBlockLists,      \* for each class its free blocks
  freePagesList,       \* the pages without blocks
  block_size,          \* pageBlockInfoArr[].block_size, 0 without blocks
  num_of_free_blocks,  \* pageBlockInfoArr[].num_of_free_blocks
  mapped,              \* the pages that get_page mapped
  panicked,            \* alloc_block has panicked
  live                 \* history: block -> size requested, for what is in use

vars == <<freeBlockLists, freePagesList, block_size, num_of_free_blocks, mapped,
          panicked, live>>

PageSet == 1..NumPages
ClassIdx == 0..Classes-1
SizeOf(idx) == 2^idx
PAGE_SIZE == 2^Classes
BlocksPerPage(size) == PAGE_SIZE \div size

Block(pg, i) == [page |-> pg, at |-> i]
AllBlocks == [page: PageSet, at: 0..PAGE_SIZE-1]
BlocksOf(pg, size) == {Block(pg, i * size) : i \in 0..BlocksPerPage(size)-1}

TypeOK ==
  /\ freeBlockLists \in [ClassIdx -> SUBSET AllBlocks]
  /\ freePagesList \subseteq PageSet
  /\ block_size \in [PageSet -> {0} \cup {SizeOf(idx) : idx \in ClassIdx}]
  /\ num_of_free_blocks \in [PageSet -> 0..PAGE_SIZE]
  /\ mapped \subseteq PageSet /\ panicked \in BOOLEAN
  /\ \A b \in DOMAIN live : b \in AllBlocks /\ live[b] \in Requests

initialize_dynamic_allocator ==
  /\ freeBlockLists = [idx \in ClassIdx |-> {}]
  /\ freePagesList = PageSet
  /\ block_size = [pg \in PageSet |-> 0]
  /\ num_of_free_blocks = [pg \in PageSet |-> 0]
  /\ mapped = {} /\ panicked = FALSE
  /\ live = <<>>
-----------------------------------------------------------------------------
(* alloc_block *)

\* The class below the one that fits.
ClassBelow(size) == Min({idx \in ClassIdx : 2 * SizeOf(idx) >= size})

\* The smallest class whose blocks are large enough.
ClassFor(size) == Min({idx \in ClassIdx : SizeOf(idx) >= size})

Use(b, size) == live' = [c \in DOMAIN live \cup {b} |-> IF c = b THEN size ELSE live[c]]

\* Takes a free block of the class.
TakeBlock(idx, size) ==
  \E b \in freeBlockLists[idx] :
    /\ freeBlockLists' = [freeBlockLists EXCEPT ![idx] = @ \ {b}]
    /\ num_of_free_blocks' = [num_of_free_blocks EXCEPT ![b.page] = @ - 1]
    /\ Use(b, size)
    /\ UNCHANGED <<freePagesList, block_size, mapped, panicked>>

\* Cuts a free page into blocks of the class, and takes the first of them.
TakePage(idx, size) ==
  \E pg \in freePagesList :
    LET blocks == BlocksOf(pg, SizeOf(idx))
    IN /\ freePagesList' = freePagesList \ {pg}
       /\ mapped' = mapped \cup {pg}
       /\ block_size' = [block_size EXCEPT ![pg] = SizeOf(idx)]
       /\ num_of_free_blocks' = [num_of_free_blocks EXCEPT ![pg] = Cardinality(blocks) - 1]
       /\ freeBlockLists' = [freeBlockLists EXCEPT ![idx] = blocks \ {Block(pg, 0)}]
       /\ Use(Block(pg, 0), size)
       /\ UNCHANGED panicked

\* The classes above idx that have a free block.
Larger(idx) == {i \in ClassIdx : i > idx /\ freeBlockLists[i] # {}}

\* alloc_block; with no free block, no free page and no larger block it panics.
\* A request of 0 returns NULL and is no step.
alloc_block(size) ==
  LET idx == ClassFor(size)
  IN \/ freeBlockLists[idx] # {} /\ TakeBlock(idx, size)
     \/ freeBlockLists[idx] = {} /\ freePagesList # {} /\ TakePage(idx, size)
     \/ /\ freeBlockLists[idx] = {} /\ freePagesList = {} /\ Larger(idx) # {}
        /\ TakeBlock(Min(Larger(idx)), size)
     \/ /\ freeBlockLists[idx] = {} /\ freePagesList = {} /\ Larger(idx) = {}
        /\ panicked' = TRUE
        /\ UNCHANGED <<freeBlockLists, freePagesList, block_size, num_of_free_blocks, mapped, live>>
-----------------------------------------------------------------------------
(* free_block *)

\* The list that a page's blocks belong to.
ClassOf(size) == CHOOSE idx \in ClassIdx : SizeOf(idx) = size

\* The page is never returned.
FreeKeepsPage(b) ==
  LET idx == ClassOf(block_size[b.page])
  IN /\ live' = [c \in DOMAIN live \ {b} |-> live[c]]
     /\ freeBlockLists' = [freeBlockLists EXCEPT ![idx] = @ \cup {b}]
     /\ num_of_free_blocks' = [num_of_free_blocks EXCEPT ![b.page] = @ + 1]
     /\ UNCHANGED <<freePagesList, block_size, mapped, panicked>>

\* When the block is the last of its page in use, the blocks of the page leave
\* the list and the page is returned.
free_block(b) ==
  LET pg == b.page
      idx == ClassOf(block_size[pg])
      freed == freeBlockLists[idx] \cup {b}
  IN /\ live' = [c \in DOMAIN live \ {b} |-> live[c]]
     /\ IF num_of_free_blocks[pg] + 1 = BlocksPerPage(block_size[pg])
          THEN /\ freeBlockLists' = [freeBlockLists EXCEPT
                                       ![idx] = freed \ BlocksOf(pg, block_size[pg])]
               /\ mapped' = mapped \ {pg}
               /\ block_size' = [block_size EXCEPT ![pg] = 0]
               /\ num_of_free_blocks' = [num_of_free_blocks EXCEPT ![pg] = 0]
               /\ freePagesList' = freePagesList \cup {pg}
          ELSE /\ freeBlockLists' = [freeBlockLists EXCEPT ![idx] = freed]
               /\ num_of_free_blocks' = [num_of_free_blocks EXCEPT ![pg] = @ + 1]
               /\ UNCHANGED <<freePagesList, block_size, mapped>>
     /\ UNCHANGED panicked

Next ==
  /\ ~panicked
  /\ \/ \E size \in Requests : alloc_block(size)
     \/ \E b \in DOMAIN live : free_block(b)

Spec == initialize_dynamic_allocator /\ [][Next]_vars
-----------------------------------------------------------------------------
FreeBlocks(pg) ==
  {<<idx, b>> \in ClassIdx \X AllBlocks : b \in freeBlockLists[idx] /\ b.page = pg}
LiveBlocks(pg) == {b \in DOMAIN live : b.page = pg}

Overlap(b, c) ==
  /\ b.page = c.page
  /\ b.at < c.at + block_size[c.page] /\ c.at < b.at + block_size[b.page]

\* What alloc_block hands out is its caller's alone: it overlaps no other block
\* in use and no block of the free lists, it is at least as large as was asked,
\* and its page is mapped, also when a larger block was taken for want of pages.
BlocksUsable ==
  \A b \in DOMAIN live :
    /\ b.page \in mapped /\ live[b] <= block_size[b.page]
    /\ b.at + block_size[b.page] <= PAGE_SIZE
    /\ \A c \in DOMAIN live \ {b} : ~Overlap(b, c)
    /\ \A idx \in ClassIdx : \A c \in freeBlockLists[idx] : ~Overlap(b, c)

\* The counters of pageBlockInfoArr agree with the lists: a page with blocks has
\* as many free ones as its counter says, all in the list of its size, and the
\* others are in use; so the page can be given back exactly when all are free.
CountersAgree ==
  \A pg \in PageSet :
    /\ Cardinality(FreeBlocks(pg)) = num_of_free_blocks[pg]
    /\ block_size[pg] # 0 =>
         /\ Cardinality(LiveBlocks(pg)) + num_of_free_blocks[pg] = BlocksPerPage(block_size[pg])
         /\ \A f \in FreeBlocks(pg) : SizeOf(f[1]) = block_size[pg]

\* No page is lost or kept for nothing: a page is in freePagesList exactly
\* when it is not mapped, and exactly when none of its blocks is in use.
PagesAccounted ==
  \A pg \in PageSet :
    /\ pg \notin mapped <=> pg \in freePagesList
    /\ pg \notin mapped <=> LiveBlocks(pg) = {}
    /\ pg \notin mapped <=> block_size[pg] = 0
=============================================================================
