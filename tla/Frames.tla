------------------------------- MODULE Frames -------------------------------
(***************************************************************************)
(* Physical frames, page tables and the TLB: kern/mem/memory_manager.c and *)
(* kern/mem/paging_helpers.c as operators on a record m of the machine's   *)
(* memory.  The pages a directory has here lie in one page table, which is *)
(* itself a page of the kernel heap, that is, one frame.                   *)
(***************************************************************************)
EXTENDS Integers, Sequences, FiniteSets

CONSTANTS
  Env,          \* processes
  Kernel,       \* ptr_page_directory, loaded while no process runs
  NumFrames,    \* frames of memory
  NumPages      \* user pages of a directory

Frame == 1 .. NumFrames
Page == 1 .. NumPages
NoFrame == 0
Dir == Env \cup {Kernel}
Slots == Dir \X Page

\* A page table entry.  PERM_UHPAGE is one of the PERM_AVAILABLE bits.
Entry == [frame : Frame \cup {NoFrame}, present : BOOLEAN, uhpage : BOOLEAN,
          writeable : BOOLEAN, modified : BOOLEAN]
NoEntry == [frame |-> NoFrame, present |-> FALSE, uhpage |-> FALSE,
            writeable |-> FALSE, modified |-> FALSE]
EmptyTable == [p \in Page |-> NoEntry]
EmptyTLB == [p \in Page |-> NoFrame]

\* m.va tells which kind of address FrameInfo.va is: none is 0.  m.table has the
\* frame numbers in the directories' entries, m.removed those that are not present.
Memory ==
  [free : Seq(Frame), refs : [Frame -> Nat], va : [Frame -> {"none", "user", "kheap"}],
   table : [Dir -> Frame \cup {NoFrame}], removed : SUBSET Dir, entry : [Dir -> [Page -> Entry]],
   loaded : Dir, tlb : [Page -> Frame \cup {NoFrame}]]

\* All frames are free, the last one first, and no user page has a table.
initialize_paging ==
  [free |-> [i \in Frame |-> NumFrames + 1 - i], refs |-> [f \in Frame |-> 0], va |-> [f \in Frame |-> "none"],
   table |-> [d \in Dir |-> NoFrame], removed |-> {}, entry |-> [d \in Dir |-> EmptyTable],
   loaded |-> Kernel, tlb |-> EmptyTLB]

(***************************************************************************)
(* The frame list.  allocate_frame panics when it is empty, so its callers *)
(* here are guarded by HasFrames.                                          *)
(***************************************************************************)
HasFrames(m, n) == Len(m.free) >= n
FirstFree(m) == Head(m.free)

allocate_frame(m) ==
  [m EXCEPT !.free = Tail(@), !.refs[FirstFree(m)] = 0, !.va[FirstFree(m)] = "none"]

free_frame(m, f) ==
  [m EXCEPT !.free = <<f>> \o @, !.refs[f] = 0, !.va[f] = "none"]

decrement_references(m, f) ==
  IF m.refs[f] = 1 THEN free_frame(m, f) ELSE [m EXCEPT !.refs[f] = @ - 1]

(***************************************************************************)
(* The TLB holds translations of the loaded directory.                     *)
(***************************************************************************)
tlbflush(m) == [m EXCEPT !.tlb = EmptyTLB]
lcr3(m, d) == [m EXCEPT !.loaded = d, !.tlb = EmptyTLB]

\* With no process running the entry is flushed whatever the directory is.
tlb_invalidate(m, d, p) ==
  IF m.loaded \in {Kernel, d} THEN [m EXCEPT !.tlb[p] = NoFrame] ELSE m

(***************************************************************************)
(* Page tables.  kheap_virtual_address finds a table through the va of its *)
(* frame, and returns 0 when that is not an address of the kernel heap.    *)
(* For an entry that is not present but has a frame number get_page_table  *)
(* calls fault_handler(NULL), which goes through that pointer: the process *)
(* ends, and the prompt panics (GetTableFails).                            *)
(***************************************************************************)
TableExists(m, d) == m.table[d] # NoFrame /\ d \notin m.removed
GetTableFails(m, d) == d \in m.removed
kheap_virtual_address(m, f) == f # NoFrame /\ m.va[f] = "kheap"
get_page_table(m, d) == TableExists(m, d) /\ kheap_virtual_address(m, m.table[d])

create_page_table(m, d) ==
  LET f == FirstFree(m)
  IN tlbflush([allocate_frame(m) EXCEPT !.refs[f] = 1, !.va[f] = "kheap",
                                        !.table[d] = f, !.removed = @ \ {d},
                                        !.entry[d] = EmptyTable])

\* The directory names a table that cannot be found.
TableLost(m, d) == TableExists(m, d) /\ ~get_page_table(m, d)

WithTable(m, d) == IF TableExists(m, d) THEN m ELSE create_page_table(m, d)

(***************************************************************************)
(* Mapping.  An entry keeps its available bits whatever is mapped.         *)
(***************************************************************************)
\* Mutant: the entry only loses its present bit and keeps the frame number.
ClearPresentOnly(m, d, p) ==
  tlb_invalidate([m EXCEPT !.va[m.entry[d][p].frame] = "none", !.entry[d][p].present = FALSE], d, p)

\* The second half of unmap_frame, after decrement_references.
ClearEntry(m, d, p) ==
  tlb_invalidate([m EXCEPT !.va[m.entry[d][p].frame] = "none",
                           !.entry[d][p] = [NoEntry EXCEPT !.uhpage = m.entry[d][p].uhpage]],
                 d, p)

get_frame_info(m, d, p) == IF get_page_table(m, d) THEN m.entry[d][p].frame ELSE NoFrame

\* Mutant: the reference is not given up.
UnmapKeepsReference(m, d, p) ==
  IF get_frame_info(m, d, p) = NoFrame THEN m ELSE ClearEntry(m, d, p)

unmap_frame(m, d, p) ==
  IF get_frame_info(m, d, p) = NoFrame THEN m
  ELSE ClearEntry(decrement_references(m, get_frame_info(m, d, p)), d, p)

\* The entry that map_frame writes; n is the new reference count.
Mapped(m, d, f, p, w, n) ==
  [m EXCEPT !.refs[f] = n, !.va[f] = "user",
            !.entry[d][p] = [@ EXCEPT !.frame = f, !.present = TRUE, !.writeable = w,
                                      !.modified = FALSE]]

map_frame(m, d, f, p, w) ==
  IF m.entry[d][p].present /\ m.entry[d][p].frame = f THEN m
  ELSE LET u == IF m.entry[d][p].present THEN unmap_frame(m, d, p) ELSE m
       IN Mapped(u, d, f, p, w, u.refs[f] + 1)

pt_set_page_permissions(m, d, p, mark) ==
  tlb_invalidate([m EXCEPT !.entry[d][p].uhpage = mark], d, p)

\* A page that is mapped already is left alone.  set_to_zero writes to it.
alloc_page(m, d, p, mark) ==
  IF get_frame_info(m, d, p) # NoFrame THEN m
  ELSE LET f == FirstFree(m)
           t == WithTable(allocate_frame(m), d)
       IN [map_frame(t, d, f, p, TRUE) EXCEPT !.entry[d][p].uhpage = @ \/ mark,
                                              !.entry[d][p].modified = mark]
FramesForPage(m, d, p) ==
  IF get_frame_info(m, d, p) # NoFrame THEN 0 ELSE IF TableExists(m, d) THEN 1 ELSE 2

\* Only the table is freed: the frames mapped in it keep their references.  It is
\* always a table of the kernel's directory, whichever directory is passed.
del_page_table(m) ==
  IF ~get_page_table(m, Kernel) THEN m
  ELSE tlbflush([free_frame(m, m.table[Kernel])
                   EXCEPT !.table[Kernel] = NoFrame, !.entry[Kernel] = EmptyTable])
=============================================================================
