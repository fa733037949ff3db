---------------------------- MODULE SharedMemory ----------------------------
(***************************************************************************)
(* The memory of several processes at once: the system calls behind        *)
(* malloc, free, smalloc and sget (lib/uheap.c, kern/trap/syscall.c,       *)
(* kern/mem/chunk_operations.c, kern/mem/shared_memory_manager.c), page    *)
(* faults, the page file (kern/disk/pagefile_manager.c), and the prompt's  *)
(* commands on pages.                                                      *)
(*                                                                         *)
(* A system call runs with interrupts enabled, so another process may run  *)
(* between any two of its steps; a page fault, which runs with interrupts  *)
(* disabled, is one step.  The build does not optimize: references++ reads *)
(* the count and writes it back in two instructions.                       *)
(***************************************************************************)
EXTENDS Frames, SequencesExt

CONSTANTS
  Name,         \* names of shared objects
  MallocSizes,  \* the numbers of pages that malloc is called for
  ShareSizes,   \* and smalloc
  Rights,       \* isWritable of a shared object, and the right aup gives
  BlockPages,   \* pages 1 .. BlockPages are the block allocator's, below uheapPageAllocStart
  DiskFrame,    \* frames of the page file; 0 is none of them
  MaxWS,        \* page_WS_max_size
  MaxCalls      \* bound: the system calls and commands of a behaviour

VARIABLES
  m,            \* the memory
  shares,       \* shares_list
  pf,           \* the page file: its free frames, and the frame of each page
  ws,           \* the pages in each working set
  held,         \* what each user heap has given out
  call,         \* the system call each process is in
  ran,          \* processes the prompt has started
  ended,        \* processes in the EXIT queue
  status        \* "running", or why the kernel panicked

VARIABLES       \* history
  calls,        \* system calls and commands so far
  raced,        \* frames whose count was written over by a stale value
  orphans,      \* for each frame, its entries that were overwritten, or lost with their table
  undone,       \* frames given back although a shared object records them
  untabled      \* directories whose table another one's stale entry gave back

vars == <<m, shares, pf, ws, held, call, ran, ended, status, calls, raced, orphans,
          undone, untabled>>
ghosts == <<raced, orphans, undone, untabled>>

InUser == [at |-> "user"]
PagesOf(b) == b.base .. b.base + b.size - 1
HeldPages(e) == UNION {PagesOf(b) : b \in held[e]}

\* sharing_init, initialize_disk_page_file, and processes that env_create made.
Init ==
  /\ m = initialize_paging
  /\ shares = <<>>
  /\ pf = [free |-> DiskFrame, at |-> [e \in Env |-> [p \in Page |-> 0]]]
  /\ ws = [e \in Env |-> {}]
  /\ held = [e \in Env |-> {}]
  /\ call = [e \in Env |-> InUser]
  /\ ran = {} /\ ended = {} /\ status = "running"
  /\ calls = 0 /\ raced = {} /\ orphans = [f \in Frame |-> 0] /\ undone = {} /\ untabled = {}
-----------------------------------------------------------------------------
Runs(e) == status = "running" /\ m.loaded = e
Calls(e, step) == Runs(e) /\ call[e].at = step

\* panic: modelled up to here.
Panic(why) ==
  /\ status' = why
  /\ UNCHANGED <<m, shares, pf, ws, held, call, ran, ended, ghosts>>

\* env_exit.  What the process has mapped stays mapped: env_free is never
\* reached.  The next process to run loads its own directory.
env_exit(e, mem) ==
  /\ ended' = ended \cup {e}
  /\ call' = [call EXCEPT ![e] = InUser]
  /\ held' = [held EXCEPT ![e] = {}]
  /\ m' = lcr3(mem, Kernel)
  /\ UNCHANGED <<shares, pf, ws, ran, status, ghosts>>

Exit(e) == Calls(e, "user") /\ env_exit(e, m)

\* The scheduler gives the processor to another process, at any point of a
\* system call; without a process that could run the prompt comes back.
Switch(e) ==
  /\ status = "running" /\ e \notin ended \cup {m.loaded}
  /\ m' = lcr3(m, e)
  /\ ran' = ran \cup {e}
  /\ UNCHANGED <<shares, pf, ws, held, call, ended, status, ghosts>>

\* The entries of these pages, and the frames in tables, are no longer reached.
Lose(d, pages, tables) ==
  orphans' = [f \in Frame |-> orphans[f] + Cardinality({p \in pages : m.entry[d][p].frame = f})
                                         + Cardinality({f} \cap tables)]
-----------------------------------------------------------------------------
(* The heap chooses where; allocate_user_mem marks the pages.  Module UHeap   *)
(* has the choice; here it is any range that is not given out.               *)

BlockPage == 1 .. BlockPages
Fits(e, b) == PagesOf(b) \subseteq Page \ BlockPage /\ PagesOf(b) \cap HeldPages(e) = {}

\* A table that is not found is made anew.
allocate_user_mem(e, b) ==
  LET t == IF get_page_table(m, e) THEN m ELSE create_page_table(m, e)
  IN [t EXCEPT !.entry[e] = [p \in Page |->
        IF p \in PagesOf(b) THEN [NoEntry EXCEPT !.uhpage = TRUE] ELSE @[p]]]

\* malloc, smalloc and sget all begin by taking a range and marking its pages.
Reserve(e, b, next) ==
  /\ Fits(e, b)
  /\ IF GetTableFails(m, e) THEN env_exit(e, m)
     ELSE IF get_page_table(m, e) \/ HasFrames(m, 1)
       THEN /\ m' = allocate_user_mem(e, b)
            /\ held' = [held EXCEPT ![e] = @ \cup {b}]
            /\ call' = [call EXCEPT ![e] = next]
            /\ IF TableLost(m, e) THEN Lose(e, Page, {m.table[e]}) ELSE Lose(e, PagesOf(b), {})
            /\ UNCHANGED <<shares, pf, ws, ran, ended, status, raced, undone, untabled>>
       ELSE Panic("no kernel heap")

malloc(e, base, size) ==
  /\ Calls(e, "user")
  /\ Reserve(e, [base |-> base, size |-> size, kind |-> "private", of |-> <<>>], InUser)
-----------------------------------------------------------------------------
(* free_user_mem, one page at a time.                                        *)

\* Mutant: the disk page table still names the frame.
RemoveKeepsEntry(e, p) ==
  [free |-> pf.free \cup ({pf.at[e][p]} \ {0}), at |-> pf.at]

pf_remove_env_page(e, p) ==
  [free |-> pf.free \cup ({pf.at[e][p]} \ {0}), at |-> [pf.at EXCEPT ![e][p] = 0]]

\* The frames that the shared objects record.
Recorded == UNION {ToSet(shares[s].frames) : s \in DOMAIN shares}

AfterPage(c) == IF c.p = c.last THEN InUser ELSE [c EXCEPT !.at = "free", !.p = @ + 1]

\* What malloc, smalloc or sget returned: allocation_sizes has all of them.
free(e, b) ==
  /\ Calls(e, "user") /\ b \in held[e] /\ b.kind \in {"private", "shared"}
  /\ held' = [held EXCEPT ![e] = @ \ {b}]
  /\ call' = [call EXCEPT ![e] = [at |-> "free", p |-> b.base, last |-> b.base + b.size - 1]]
  /\ UNCHANGED <<m, shares, pf, ws, ran, ended, status, ghosts>>

\* The mark, the page file and the working set, and the first half of
\* unmap_frame: the frame may be on the free list when the step ends.
FreePage(e) ==
  /\ Calls(e, "free")
  /\ LET c == call[e]
         f == get_frame_info(m, e, c.p)
         u == pt_set_page_permissions(m, e, c.p, FALSE)
     IN IF GetTableFails(m, e) THEN env_exit(e, m)
        ELSE IF ~get_page_table(m, e) THEN Panic("lost table")
        ELSE /\ pf' = pf_remove_env_page(e, c.p)
             /\ ws' = [ws EXCEPT ![e] = @ \ {c.p}]
             /\ IF f = NoFrame
                  THEN m' = u /\ call' = [call EXCEPT ![e] = AfterPage(c)]
                  ELSE /\ m' = decrement_references(u, f)
                       /\ call' = [call EXCEPT ![e] = [c EXCEPT !.at = "unmap"]]
             /\ undone' = undone \cup (Recorded \cap ToSet(m'.free))
             /\ UNCHANGED <<shares, held, ran, ended, status, raced, orphans, untabled>>

\* Mutant: the translation stays in the TLB.
ClearEntryOnly(e) ==
  /\ Calls(e, "unmap")
  /\ m' = [ClearEntry(m, e, call[e].p) EXCEPT !.tlb = m.tlb]
  /\ call' = [call EXCEPT ![e] = AfterPage(call[e])]
  /\ UNCHANGED <<shares, pf, ws, held, ran, ended, status, ghosts>>

\* The second half: the va of the frame, the entry, and the TLB.
UnmapPage(e) ==
  /\ Calls(e, "unmap")
  /\ m' = ClearEntry(m, e, call[e].p)
  /\ call' = [call EXCEPT ![e] = AfterPage(call[e])]
  /\ UNCHANGED <<shares, pf, ws, held, ran, ended, status, ghosts>>

\* get_page and return_page of the block allocator: a page mapped at once, in
\* no working set.  Unmapping it leaves the mark.
get_page(e, p) ==
  /\ Calls(e, "user") /\ p \in BlockPage \ HeldPages(e)
  /\ IF GetTableFails(m, e) THEN env_exit(e, m)
     ELSE IF ~HasFrames(m, FramesForPage(m, e, p)) THEN Panic("out of memory")
     ELSE IF TableLost(m, e) THEN env_exit(e, allocate_frame(m))
     ELSE /\ m' = alloc_page(m, e, p, TRUE)
          /\ held' = [held EXCEPT ![e] = @ \cup {[base |-> p, size |-> 1, kind |-> "block", of |-> <<>>]}]
          /\ UNCHANGED <<shares, pf, ws, call, ran, ended, status, ghosts>>

return_page(e, b) ==
  /\ Calls(e, "user") /\ b \in held[e] /\ b.kind = "block"
  /\ held' = [held EXCEPT ![e] = @ \ {b}]
  /\ IF get_page_table(m, e) /\ get_frame_info(m, e, b.base) # NoFrame
       THEN /\ m' = decrement_references(m, get_frame_info(m, e, b.base))
            /\ call' = [call EXCEPT ![e] = [at |-> "unmap", p |-> b.base, last |-> b.base]]
       ELSE UNCHANGED <<m, call>>
  /\ UNCHANGED <<shares, pf, ws, ran, ended, status, ghosts>>
-----------------------------------------------------------------------------
(* Shared objects.  The owner of an object is the process that creates it,   *)
(* so two creations of one object never overlap.                            *)

FoundAt(o, n) == {i \in DOMAIN shares : shares[i].owner = o /\ shares[i].name = n}
find_share(o, n) == CHOOSE i \in FoundAt(o, n) : \A j \in FoundAt(o, n) : i <= j

\* smalloc of a name that the process has not used.
smalloc(e, n, base, size, w) ==
  /\ Calls(e, "user") /\ FoundAt(e, n) = {}
  /\ Reserve(e, [base |-> base, size |-> size, kind |-> "shared", of |-> <<e, n>>],
             [at |-> "create", name |-> n, base |-> base, size |-> size, writeable |-> w])

\* alloc_share and the insertion: from here on other processes find the object,
\* whose frames are still to come.  When the kernel heap has no room for the
\* frames array, the marks are removed again and the range stays taken; when it has none for the object,
\* the kernel goes through a null pointer and the process ends.
create_shared_object(e) ==
  \/ Calls(e, "create") /\ env_exit(e, m)
  \/ LET c == call[e]
     IN /\ Calls(e, "create")
        /\ \/ /\ shares' = <<[owner |-> e, name |-> c.name, size |-> c.size,
                             writeable |-> c.writeable, refs |-> 1,
                             frames |-> [i \in 1..c.size |-> NoFrame]]>> \o shares
              /\ call' = [call EXCEPT ![e] = [at |-> "fill", name |-> c.name,
                                              base |-> c.base, i |-> 1]]
              /\ UNCHANGED held
           \/ /\ call' = [call EXCEPT ![e] = [at |-> "free", p |-> c.base,
                                              last |-> c.base + c.size - 1]]
              /\ held' = [held EXCEPT ![e] = {IF b.base = c.base THEN [b EXCEPT !.kind = "lost"]
                                              ELSE b : b \in @}]
              /\ UNCHANGED shares
        /\ UNCHANGED <<m, pf, ws, ran, ended, status, ghosts>>

\* Mutant: the index into framesStorage does not advance.
FillRecordsFirst(e) ==
  /\ Calls(e, "fill")
  /\ LET c == call[e]
         s == find_share(e, c.name)
         f == FirstFree(m)
     IN IF ~HasFrames(m, 1) THEN Panic("out of memory")
        ELSE IF TableLost(m, e) THEN env_exit(e, allocate_frame(m))
        ELSE /\ m' = map_frame(allocate_frame(m), e, f, c.base + c.i - 1, TRUE)
             /\ shares' = [shares EXCEPT ![s].frames[1] = f]
             /\ call' = [call EXCEPT ![e] = IF c.i = shares[s].size THEN InUser
                                            ELSE [c EXCEPT !.i = @ + 1]]
             /\ UNCHANGED <<pf, ws, held, ran, ended, status, ghosts>>

\* One page of the object: a frame, mapped writeable, then recorded.
FillPage(e) ==
  /\ Calls(e, "fill")
  /\ LET c == call[e]
         s == find_share(e, c.name)
         f == FirstFree(m)
     IN IF ~HasFrames(m, 1) THEN Panic("out of memory")
        ELSE IF TableLost(m, e) THEN env_exit(e, allocate_frame(m))
        ELSE /\ m' = map_frame(allocate_frame(m), e, f, c.base + c.i - 1, TRUE)
             /\ shares' = [shares EXCEPT ![s].frames[c.i] = f]
             /\ call' = [call EXCEPT ![e] = IF c.i = shares[s].size THEN InUser
                                            ELSE [c EXCEPT !.i = @ + 1]]
             /\ UNCHANGED <<pf, ws, held, ran, ended, status, ghosts>>

\* sget of an object that sys_size_of_shared_object finds.
sget(e, o, n, base) ==
  /\ Calls(e, "user") /\ FoundAt(o, n) # {}
  /\ Reserve(e, [base |-> base, size |-> shares[find_share(o, n)].size, kind |-> "shared",
                 of |-> <<o, n>>],
             [at |-> "get", owner |-> o, name |-> n, base |-> base, i |-> 1])

\* The lookup and the object's own count, under shareslock.
get_shared_object(e) ==
  /\ Calls(e, "get")
  /\ shares' = [shares EXCEPT ![find_share(call[e].owner, call[e].name)].refs = @ + 1]
  /\ call' = [call EXCEPT ![e] = [@ EXCEPT !.at = "map"]]
  /\ UNCHANGED <<m, pf, ws, held, ran, ended, status, ghosts>>

\* map_frame reads the count of the frame.  When the owner has not recorded the
\* frame yet, the kernel goes through a null pointer and the process ends.  A
\* frame that was given back may be anybody's by now: modelled up to here.
MapPage(e) ==
  /\ Calls(e, "map")
  /\ LET c == call[e]
         f == shares[find_share(c.owner, c.name)].frames[c.i]
     IN IF f = NoFrame \/ TableLost(m, e) THEN env_exit(e, m)
        ELSE IF f \in undone THEN Panic("stale object")
        ELSE /\ call' = [call EXCEPT ![e] = [at |-> "store", owner |-> c.owner, name |-> c.name,
                                             base |-> c.base, i |-> c.i, count |-> m.refs[f]]]
             /\ UNCHANGED <<m, shares, pf, ws, held, ran, ended, status, ghosts>>

\* It writes the count it read plus one, and the entry.
StorePage(e) ==
  /\ Calls(e, "store")
  /\ LET c == call[e]
         s == shares[find_share(c.owner, c.name)]
         f == s.frames[c.i]
     IN IF f \in undone THEN Panic("stale object")
        ELSE /\ m' = Mapped(m, e, f, c.base + c.i - 1, s.writeable, c.count + 1)
             /\ raced' = IF m.refs[f] = c.count THEN raced ELSE raced \cup {f}
             /\ call' = [call EXCEPT ![e] = IF c.i = s.size THEN InUser
                                            ELSE [at |-> "map", owner |-> c.owner, name |-> c.name,
                                                  base |-> c.base, i |-> c.i + 1]]
             /\ UNCHANGED <<shares, pf, ws, held, ran, ended, status, orphans, undone, untabled>>
-----------------------------------------------------------------------------
(* Accesses by the program, and page faults.                                 *)

pf_update_env_page(e, p, d) ==
  [free |-> pf.free \ {d}, at |-> [pf.at EXCEPT ![e][p] = d]]

\* The page goes into a frame, with what the page file has of it.
PlacedIn(mem, e, p) ==
  tlbflush(map_frame(allocate_frame(mem), e, FirstFree(mem), p, TRUE))

\* There is room in the working set.
Placement(e, p) ==
  IF ~HasFrames(m, 1) THEN Panic("out of memory")
  ELSE /\ m' = PlacedIn(m, e, p)
       /\ ws' = [ws EXCEPT ![e] = @ \cup {p}]
       /\ UNCHANGED <<shares, pf, held, call, ran, ended, status, ghosts>>

\* Module Replacement has the choice of the victim; here it is any page of the
\* working set.  Its frame is lost already when its table was.
Replacement(e, p) ==
  \E q \in ws[e] :
    LET u == unmap_frame(m, e, q)
        written == m.entry[e][q].modified /\ pf.at[e][q] = 0
    IN IF written /\ pf.free = {} THEN Panic("page file full")
       ELSE IF ~HasFrames(u, 1) THEN Panic("out of memory")
       ELSE /\ IF written THEN \E d \in pf.free : pf' = pf_update_env_page(e, q, d)
                          ELSE UNCHANGED pf
            /\ m' = PlacedIn(u, e, p)
            /\ ws' = [ws EXCEPT ![e] = (@ \ {q}) \cup {p}]
            /\ UNCHANGED <<shares, held, call, ran, ended, status, ghosts>>

\* An access that the page table entry does not allow.  A user heap page must be
\* marked; a page that is present was written without the right to.
fault_handler(e, p) ==
  IF ~TableExists(m, e)
    THEN IF ~HasFrames(m, 1) THEN Panic("no kernel heap")
         ELSE /\ m' = create_page_table(m, e)
              /\ UNCHANGED <<shares, pf, ws, held, call, ran, ended, status, ghosts>>
  ELSE IF TableLost(m, e) THEN Panic("lost table")
  ELSE IF m.entry[e][p].present \/ ~m.entry[e][p].uhpage THEN env_exit(e, m)
  ELSE IF Cardinality(ws[e]) < MaxWS THEN Placement(e, p)
  ELSE Replacement(e, p)

\* The processor translates without looking at FrameInfo.
Allowed(e, p, write) ==
  m.entry[e][p].present /\ (write => m.entry[e][p].writeable)

\* A program touches any page: of its heap, one that aup mapped, or another.
Access(e, p, write) ==
  /\ Calls(e, "user")
  /\ IF Allowed(e, p, write)
       THEN /\ m' = [m EXCEPT !.tlb[p] = m.entry[e][p].frame,
                              !.entry[e][p].modified = @ \/ write]
            /\ UNCHANGED <<shares, pf, ws, held, call, ran, ended, status, ghosts>>
       ELSE fault_handler(e, p)
-----------------------------------------------------------------------------
(* The prompt's commands, on the kernel's directory.                         *)

\* The prompt, before the first process runs and when all that ran have ended.
AtPrompt == status = "running" /\ m.loaded = Kernel /\ ran \subseteq ended
Command(mem) ==
  /\ m' = mem
  /\ undone' = undone \cup (Recorded \cap ToSet(mem.free))
  /\ UNCHANGED <<shares, pf, ws, held, call, ran, ended, status, raced>>
Kept == UNCHANGED <<orphans, untabled>>

\* map_frame goes through the null pointer that get_page_table left: the command
\* panics back into the prompt, and the frame is lost.
command_ap(p) ==
  /\ AtPrompt /\ Kept
  /\ IF ~HasFrames(m, FramesForPage(m, Kernel, p)) THEN Panic("out of memory")
     ELSE Command(IF TableLost(m, Kernel) THEN allocate_frame(m)
                  ELSE alloc_page(m, Kernel, p, FALSE))

command_fp(p) == AtPrompt /\ Kept /\ Command(unmap_frame(m, Kernel, p))

\* The frames that were mapped in the table stay allocated.
command_ft ==
  /\ AtPrompt
  /\ Command(del_page_table(m))
  /\ Lose(Kernel, IF get_page_table(m, Kernel) THEN Page ELSE {}, {})
  /\ UNCHANGED untabled

\* rt and aup, on a process that is loaded.  rt frees the kernel heap page whose
\* frame number the directory has, clears the present bit and keeps the number: a
\* second rt frees what the frame holds by then.
command_remove_table(e) ==
  /\ AtPrompt
  /\ LET f == m.table[e]
         r == [m EXCEPT !.removed = IF f = NoFrame THEN @ ELSE @ \cup {e},
                        !.entry[e] = EmptyTable]
     IN /\ Command(tlbflush(IF kheap_virtual_address(m, f) THEN free_frame(r, f) ELSE r))
        /\ Lose(e, Page, IF TableLost(m, e) THEN {f} ELSE {})
        /\ untabled' = untabled \cup
             IF kheap_virtual_address(m, f) THEN {d \in Dir \ {e} : TableExists(m, d) /\ m.table[d] = f}
             ELSE {}

command_allocuserpage(e, p, w) ==
  /\ AtPrompt /\ Kept
  /\ IF ~HasFrames(m, IF m.table[e] # NoFrame THEN 1 ELSE 2) THEN Panic("out of memory")
     ELSE Command(IF TableLost(m, e) \/ GetTableFails(m, e) THEN allocate_frame(m)
                  ELSE map_frame(WithTable(allocate_frame(m), e), e, FirstFree(m), p, w))

\* wum, rum and rub load the directory of the process, and then the old one.
command_writeusermem(d, p) ==
  /\ AtPrompt /\ Kept /\ m.entry[d][p].present
  /\ Command(IF d = Kernel
                THEN [m EXCEPT !.tlb[p] = m.entry[d][p].frame, !.entry[d][p].modified = TRUE]
                ELSE lcr3([lcr3(m, d) EXCEPT !.entry[d][p].modified = TRUE], Kernel))

command_readusermem(d, p) ==
  /\ AtPrompt /\ Kept /\ m.entry[d][p].present
  /\ Command(IF d = Kernel THEN [m EXCEPT !.tlb[p] = m.entry[d][p].frame]
             ELSE lcr3(lcr3(m, d), Kernel))
-----------------------------------------------------------------------------
SystemCall(e) ==
  \/ Exit(e)
  \/ \E p \in Page, n \in MallocSizes : malloc(e, p, n)
  \/ \E b \in held[e] : free(e, b) \/ return_page(e, b)
  \/ \E p \in Page : get_page(e, p)
  \/ \E n \in Name, p \in Page :
       \/ \E k \in ShareSizes, w \in Rights : smalloc(e, n, p, k, w)
       \/ \E o \in Env : sget(e, o, n, p)

InKernel(e) ==
  \/ FreePage(e) \/ UnmapPage(e)
  \/ create_shared_object(e) \/ FillPage(e)
  \/ get_shared_object(e) \/ MapPage(e) \/ StorePage(e)

Prompt ==
  \/ \E p \in Page : command_ap(p) \/ command_fp(p)
  \/ command_ft
  \/ \E e \in Env : command_remove_table(e)
  \/ \E e \in Env, p \in Page, w \in Rights : command_allocuserpage(e, p, w)
  \/ \E d \in Dir, p \in Page : command_writeusermem(d, p) \/ command_readusermem(d, p)

EntriesOf(f) == {x \in Slots : m.entry[x[1]][x[2]].frame = f}
TablesOf(f) == {d \in Dir : TableExists(m, d) /\ m.table[d] = f}

\* The process is between the two halves of unmap_frame for this page.
Unmapping(d, p) == d \in Env /\ call[d].at = "unmap" /\ call[d].p = p

Names(f) == Cardinality({x \in EntriesOf(f) : ~Unmapping(x[1], x[2])}) + Cardinality(TablesOf(f))

\* When memory in use is on the free list nothing is said of what follows.
Sound ==
  LET listed == ToSet(m.free)
  IN \A d \in Dir :
       /\ TableExists(m, d) => m.table[d] \notin listed
       /\ \A p \in Page : m.entry[d][p].frame \in listed => Unmapping(d, p)

Next ==
  /\ Sound
  /\ \/ calls < MaxCalls /\ calls' = calls + 1 /\ (Prompt \/ \E e \in Env : SystemCall(e))
     \/ /\ UNCHANGED calls
        /\ \/ \E e \in Env : Switch(e) \/ InKernel(e)
           \/ \E e \in Env, p \in Page, write \in BOOLEAN : Access(e, p, write)

Spec == Init /\ [][Next]_vars
-----------------------------------------------------------------------------
\* A frame on the free list is there once and nothing names it, whatever the
\* processes map, unmap, share and fault on in between, with three exceptions, each
\* the doing of the code: a table entry may name a frame whose count an sget wrote
\* over, a directory's entry one that a second rt of another process freed,
\* and a shared object one that its last sharer gave to free() or aup mapped over.
FreeFramesUnused ==
  LET listed == ToSet(m.free)
  IN /\ Cardinality(listed) = Len(m.free)
     /\ \A d \in Dir \ untabled : TableExists(m, d) => m.table[d] \notin listed
     /\ \A d \in Dir, p \in Page : m.entry[d][p].frame \in listed \ raced => Unmapping(d, p)
     /\ Recorded \cap listed \subseteq undone

\* references counts the entries that name a frame, and those that were lost with
\* it, whatever is mapped, unmapped, freed and paged in between.  Two cases are left
\* out: a frame whose count an sget wrote over while another sget or a free changed
\* it, and the frame of a table that a second rt of another process freed.
ReferencesCountEntries ==
  \A f \in Frame \ raced : TablesOf(f) \cap untabled = {} => m.refs[f] = Names(f) + orphans[f]

\* The call that takes the shared range has returned.
Done(e, b) ==
  b.kind = "shared" /\ (call[e].at \in {"user", "free", "unmap"} \/ call[e].base # b.base)

\* When smalloc or sget has returned an address, each page of the range is mapped
\* on the frame that the object records, and a frame that two pages share is the
\* same page of one object: no process sees another one's private memory.
SharersSeeSameFrames ==
  /\ \A e \in Env \ ended : \A b \in {c \in held[e] : Done(e, c)} :
       LET s == shares[find_share(b.of[1], b.of[2])]
       IN \A i \in 1 .. b.size : /\ s.frames[i] # NoFrame
                                /\ orphans[s.frames[i]] = 0 =>
                                     m.entry[e][b.base + i - 1].frame = s.frames[i]
  /\ \A f \in Frame \ Recorded : Cardinality(EntriesOf(f)) > 1 =>
       \E x \in EntriesOf(f) : Unmapping(x[1], x[2])

\* A translation in the TLB is the one in the loaded page table.  One change of an
\* entry leaves the TLB alone: allocate_user_mem clears an entry that aup had
\* mapped; what the processor still reaches then is a frame that is lost for good,
\* in nobody's table and not on the free list.
TlbAgrees ==
  \A p \in Page : m.tlb[p] # NoFrame =>
    \/ m.entry[m.loaded][p].frame = m.tlb[p]
    \/ orphans[m.tlb[p]] > 0 /\ EntriesOf(m.tlb[p]) = {} /\ m.tlb[p] \notin ToSet(m.free)

\* Every frame of the page file is free or holds one page of one process.
DiskFramesAccounted ==
  LET used == {x \in Slots : x[1] # Kernel /\ pf.at[x[1]][x[2]] # 0}
  IN /\ Cardinality(pf.free) + Cardinality(used) = Cardinality(DiskFrame)
     /\ \A x, y \in used : pf.at[x[1]][x[2]] = pf.at[y[1]][y[2]] => x = y
     /\ \A x \in used : pf.at[x[1]][x[2]] \notin pf.free

\* get_page_table "Stores address of page table entry in *ptr_page_table" when the
\* table exists: the va in the FrameInfo of a page table leads to it, as long as no
\* second rt of another process has freed the table.
TableFound == \A d \in Dir \ untabled : ~TableLost(m, d)
=============================================================================
