------------------------------- MODULE Paging -------------------------------
(***************************************************************************)
(* Demand paging of one process: its page table, its working set list, its *)
(* copy in the page file, and the page fault handler with the replacement  *)
(* algorithms (kern/trap/fault_handler.c, kern/mem/working_set_manager.c,  *)
(* kern/disk/pagefile_manager.c).                                          *)
(*                                                                         *)
(* A page fault enters the kernel through an interrupt gate and programmed *)
(* disk I/O never sleeps, so one fault, from trap_dispatch to tlbflush, is *)
(* one step.  The faulting instruction runs again after it.  Page contents *)
(* are told apart by one bit: a copy holds what the program last wrote to  *)
(* the page, or it does not.                                               *)
(***************************************************************************)
EXTENDS Replacement

CONSTANTS
  CodePages, HeapPages, StackPages,  \* how many pages each region has
  MaxWS,           \* page_WS_max_size
  Frames,          \* frames of memory the process can have
  DiskFrames,      \* frames of the page file
  Algorithms,      \* the replacement algorithms that may be selected
  MaxStream        \* bound: references recorded for OPTIMAL

ASSUME SizesAssumption ==
  /\ {CodePages, StackPages, MaxWS} \subseteq Nat \ {0} /\ HeapPages \in Nat
  /\ Frames >= MaxWS /\ DiskFrames > CodePages
  /\ Algorithms \subseteq {"CLOCK", "LRU", "MODCLOCK", "OPTIMAL"}

Region(name, n) == {name} \X (1..n)
Heap == Region("heap", HeapPages)
Stack == Region("stack", StackPages)
Code == Region("code", CodePages)
Hole == Region("hole", 1)     \* an address of no segment, stack or heap, as 0 is
Top == Region("top", 1)       \* from USTACKTOP to USER_TOP
Guard == Region("guard", 1)   \* the page below a kernel stack, or above the kernel heap
Pages == Code \cup Heap \cup Stack \cup Hole \cup Top \cup Guard
NoPage == <<"none", 0>>

\* The regions lie in page tables of their own, but the top has that of the stack.
Table(p) == IF p \in Top THEN "stack" ELSE p[1]

VARIABLES
  alg,          \* the selected replacement algorithm
  status,       \* running, exited, or why the kernel panicked
  page_WS_list, hand,     \* the list and page_last_WS_element, 0 for NULL
  tables,       \* the page tables that exist
  mapped,       \* pages whose entry names a frame
  present, used, modified, uhpage,   \* bits of the page table entries
  time_stamp,
  inPF,         \* pages that have a disk frame
  last_fault_va, num_repeated_fault,
  active, stream,         \* OPTIMAL: ActiveList and referenceStreamList
  pending,      \* the page whose faulting access is to run again
  userTrap      \* the access is the program's, not the kernel's in a system call

VARIABLES       \* history
  written,      \* pages whose contents the program relies on
  ram, file,    \* pages whose frame, whose disk frame, has these contents
  queue         \* CLOCK: the list in order of load or last reprieve

pte == <<mapped, present, used, modified>>
ghosts == <<written, ram, file, queue>>
vars == <<alg, status, page_WS_list, hand, tables, pte, uhpage, time_stamp, inPF,
          last_fault_va, num_repeated_fault, active, stream, pending, userTrap, ghosts>>

\* env_create loads code pages while one place is left for the stack page, and
\* writes every code page and the first stack page to the page file.
Loaded == {<<"code", i>> : i \in 1 .. Min({CodePages, MaxWS - 1})} \cup {<<"stack", 1>>}
LoadOrder == [i \in 1 .. Cardinality(Loaded) |->
                IF i < Cardinality(Loaded) THEN <<"code", i>> ELSE <<"stack", 1>>]
HandAt(ws) == IF Len(ws) = MaxWS THEN 1 ELSE 0

env_create ==
  /\ alg \in Algorithms
  /\ status = "running"
  /\ page_WS_list = LoadOrder /\ hand = HandAt(LoadOrder)
  /\ tables = {"code", "stack", "guard"}
  /\ mapped = Loaded /\ present = Loaded /\ used = Loaded
  /\ modified = {<<"stack", 1>>}
  /\ uhpage = {}
  /\ time_stamp = [p \in Pages |-> 0]
  /\ inPF = Code \cup {<<"stack", 1>>}
  /\ last_fault_va = NoPage /\ num_repeated_fault = 0
  /\ active = {} /\ stream = <<>>
  /\ pending = NoPage /\ userTrap = TRUE
  /\ written = inPF /\ ram = Loaded /\ file = inPF
  /\ queue = LoadOrder
-----------------------------------------------------------------------------
\* The program, or the kernel at an address that the program passed to a system
\* call, reads or writes page p next.
Accesses(p, user) ==
  status = "running" /\ (pending = NoPage \/ (pending = p /\ userTrap = user))

\* An access to a page that is present: the processor sets the bits.
Hit(p, write) ==
  /\ Accesses(p, userTrap) /\ p \in present
  /\ used' = used \cup {p}
  /\ IF write
       THEN /\ modified' = modified \cup {p}
            /\ written' = written \cup {p}
            /\ ram' = ram \cup {p}
            /\ file' = file \ {p}
       ELSE UNCHANGED <<modified, written, ram, file>>
  /\ pending' = NoPage /\ userTrap' = TRUE
  /\ UNCHANGED <<alg, status, page_WS_list, hand, tables, mapped, present, uhpage,
                 time_stamp, inPF, last_fault_va, num_repeated_fault, active, stream, queue>>
-----------------------------------------------------------------------------
(* What the fault handler finds: with LRU, trap_dispatch has called         *)
(* update_WS_time_stamps first.                                             *)
UsedNow == IF alg = "LRU" THEN used \ ToSet(page_WS_list) ELSE used
StampNow == IF alg = "LRU"
              THEN [p \in Pages |-> IF p \in ToSet(page_WS_list)
                                      THEN Aged(time_stamp[p], p \in used)
                                      ELSE time_stamp[p]]
              ELSE time_stamp

\* The page is not in the page file, and not one that may be new.
NotLoadable(p) == p \notin inPF /\ p \notin Heap \cup Stack
OutOfFrames == Cardinality(mapped) >= Frames

\* The process ends, or the kernel panics.  Nothing of it runs again: its pages are
\* of no further interest here, and forgotten.
Ends(why) ==
  /\ status' = why
  /\ page_WS_list' = <<>> /\ hand' = 0 /\ queue' = <<>> /\ stream' = <<>> /\ active' = {}
  /\ mapped' = {} /\ present' = {} /\ used' = {} /\ modified' = {} /\ inPF' = {}
  /\ written' = {} /\ ram' = {} /\ file' = {}
  /\ time_stamp' = [p \in Pages |-> 0]
  /\ UNCHANGED <<tables, pending>>

\* pf_read_env_page into the frame of p, which is mapped.
ReadIn(p) ==
  /\ modified' = modified \ {p}
  /\ ram' = IF p \in file THEN ram \cup {p} ELSE ram \ {p}

table_fault_handler(p) ==
  /\ tables' = tables \cup {Table(p)}
  /\ pending' = p
  /\ used' = UsedNow /\ time_stamp' = StampNow
  /\ UNCHANGED <<status, page_WS_list, hand, mapped, present, modified, inPF, active,
                 stream, written, ram, file, queue>>

\* Every new page goes to the end of the list.
InsertAtTail == Len(page_WS_list) + 1

\* Before the hand, or at the end of a list that has no hand.
InsertPosition == IF hand = 0 THEN Len(page_WS_list) + 1 ELSE hand

\* There is room in the working set.
Placement(p) ==
  LET ws == InsertAt(page_WS_list, InsertPosition, p)
  IN /\ page_WS_list' = ws
     /\ hand' = IF hand = 0 THEN HandAt(ws) ELSE hand + 1
     /\ mapped' = mapped \cup {p} /\ present' = present \cup {p}
     /\ used' = UsedNow \cup {p}
     /\ ReadIn(p)
     /\ time_stamp' = [StampNow EXCEPT ![p] = 0]
     /\ queue' = IF alg = "CLOCK" THEN Append(queue, p) ELSE queue
     /\ pending' = p
     /\ UNCHANGED <<status, tables, inPF, active, stream, written, file>>

\* Clean pages are written and dirty ones are not.
WriteBackSwapped(q) ==
  IF q \in modified
    THEN UNCHANGED <<inPF, file>>
    ELSE /\ inPF' = inPF \cup {q}
         /\ file' = IF q \in ram THEN file \cup {q} ELSE file \ {q}

\* pf_update_env_page of the victim q; a heap or stack page that has no disk
\* frame gets one.
WriteBack(q) ==
  IF q \in modified
    THEN /\ inPF' = inPF \cup {q}
         /\ file' = IF q \in ram THEN file \cup {q} ELSE file \ {q}
    ELSE UNCHANGED <<inPF, file>>

\* The page file is full when the victim needs a place in it.
WriteBackFails(q) ==
  q \in modified \ inPF /\ Cardinality(inPF) >= DiskFrames

\* The victim q is written back and unmapped, and p gets a frame.
Swap(p, q) ==
  /\ WriteBack(q)
  /\ mapped' = (mapped \ {q}) \cup {p} /\ present' = (present \ {q}) \cup {p}
  /\ modified' = modified \ {p, q}
  /\ ram' = IF p \in file THEN (ram \ {q}) \cup {p} ELSE ram \ {p, q}
  /\ pending' = p
  /\ UNCHANGED <<status, tables, active, stream, written>>

\* CLOCK and Modified CLOCK: the element of the victim becomes that of p, and
\* the hand goes to the next element.
ReplaceInPlace(p, choice) ==
  LET q == page_WS_list[choice.at]
      kept == SelectSeq(queue, LAMBDA r : r \notin choice.reprieved \cup {q})
      passed == SelectSeq(queue, LAMBDA r : r \in choice.reprieved \ {q})
  IN IF WriteBackFails(q) THEN Ends("page file full")
     ELSE IF NotLoadable(p) THEN Ends("exited")
     ELSE /\ Swap(p, q)
          /\ page_WS_list' = [page_WS_list EXCEPT ![choice.at] = p]
          /\ hand' = NextPosition(page_WS_list, choice.at)
          /\ used' = ((used \ choice.reprieved) \ {q}) \cup {p}
          /\ queue' = IF alg = "CLOCK" THEN kept \o passed \o <<p>> ELSE queue
          /\ UNCHANGED time_stamp

\* LRU aging: the element goes to the end of the list.
ReplaceLRU(p, at) ==
  LET q == page_WS_list[at]
  IN IF WriteBackFails(q) THEN Ends("page file full")
     ELSE IF NotLoadable(p) THEN Ends("exited")
     ELSE /\ Swap(p, q)
          /\ page_WS_list' = Append(RemoveAt(page_WS_list, at), p)
          /\ hand' = HandAt(page_WS_list)
          /\ used' = (UsedNow \ {q}) \cup {p}
          /\ time_stamp' = [StampNow EXCEPT ![p] = TopBit, ![q] = 0]
          /\ UNCHANGED queue

\* OPTIMAL evicts nothing.  It records the reference, and hides the pages of
\* the full ActiveList so that the next reference to one of them is recorded; at
\* the first fault the pages that were loaded, if the working set is not large.
OptimalFault(p) ==
  LET reset == Cardinality(active) >= MaxWS /\ p \notin active
      hidden == IF active = {} THEN IF MaxWS < 1000 THEN ToSet(page_WS_list) ELSE {}
                ELSE IF reset THEN active ELSE {}
  IN /\ Len(stream) < MaxStream
     /\ stream' = Append(stream, p)
     /\ IF p \in mapped
          THEN UNCHANGED <<mapped, used, modified, ram>>
          ELSE /\ mapped' = mapped \cup {p}
               /\ used' = used \ {p}
               /\ ReadIn(p)
     /\ present' = (present \ hidden) \cup {p}
     /\ active' = IF reset THEN {p} ELSE active \cup {p}
     /\ pending' = p
     /\ UNCHANGED <<status, page_WS_list, hand, tables, time_stamp, inPF, written, file, queue>>

\* A page that cannot be loaded ends the process after a frame was mapped for
\* it; an ended process does not use its state again.
page_fault_handler(p) ==
  \/ /\ alg = "OPTIMAL"
     /\ IF p \notin mapped /\ OutOfFrames THEN Ends("out of memory")
        ELSE IF p \notin mapped /\ NotLoadable(p) THEN Ends("exited")
        ELSE OptimalFault(p)
  \/ /\ alg # "OPTIMAL" /\ Len(page_WS_list) < MaxWS
     /\ IF OutOfFrames THEN Ends("out of memory")
        ELSE IF NotLoadable(p) THEN Ends("exited")
        ELSE Placement(p)
  \/ /\ alg = "LRU" /\ Len(page_WS_list) >= MaxWS
     /\ LET victims == LeastStamped(page_WS_list, StampNow)
        IN IF victims = {} THEN Ends("no victim")
           ELSE \E at \in victims : ReplaceLRU(p, at)
  \/ /\ alg = "CLOCK" /\ Len(page_WS_list) >= MaxWS
     /\ ReplaceInPlace(p, Clock(page_WS_list, hand, used, modified))
  \/ /\ alg = "MODCLOCK" /\ Len(page_WS_list) >= MaxWS
     /\ ReplaceInPlace(p, ModifiedClock(page_WS_list, hand, used, modified))

Repeats(p) == IF p = last_fault_va THEN num_repeated_fault + 1 ELSE 0

\* A pointer that the handler refuses: only the program's own accesses are looked at.
Invalid(p, user) == user /\ (p \in Heap \ uhpage \/ p \in Guard)

\* An access to a page that is not present.  Pages that are present are writeable
\* here, so the panic over access rights is not reached; module SharedMemory has
\* pages that are not.  Who faulted matters again only after a table fault: the
\* page that the page fault handler has placed is there when the access runs again.
fault_handler(p, user) ==
  /\ Accesses(p, user) /\ p \notin present
  /\ last_fault_va' = p
  /\ num_repeated_fault' = Repeats(p)
  /\ userTrap' = (user \/ Table(p) \in tables)
  /\ IF Repeats(p) = 3 THEN Ends("repeated fault")
     ELSE IF ~user /\ p \in Guard THEN Ends("kernel overflow")
     ELSE IF user /\ p \in Top THEN Ends("stack underflow")
     ELSE \/ Table(p) \notin tables /\ table_fault_handler(p)
          \/ Table(p) \in tables /\ Invalid(p, user) /\ Ends("exited")
          \/ Table(p) \in tables /\ ~Invalid(p, user) /\ page_fault_handler(p)
  /\ UNCHANGED <<alg, uhpage>>

-----------------------------------------------------------------------------
InUserMode == status = "running" /\ pending = NoPage

\* malloc of a page: its entry becomes a mark without a frame, whatever it was.  The
\* frame of a page that the kernel had touched, or that malloc has given out before,
\* is lost and its element stays in the list: modelled up to here.
allocate_user_mem(p) ==
  /\ InUserMode /\ p \in Heap
  /\ IF p \in mapped
       THEN Ends("overwritten") /\ UNCHANGED uhpage
       ELSE /\ tables' = tables \cup {Table(p)}
            /\ uhpage' = uhpage \cup {p}
            /\ UNCHANGED <<status, page_WS_list, hand, pte, time_stamp, inPF, active, stream,
                           pending, ghosts>>
  /\ UNCHANGED <<alg, last_fault_va, num_repeated_fault, userTrap>>

\* The removal leaves the hand on the element that is gone.
HandNotMoved(i) == IF hand > i THEN hand - 1 ELSE hand

\* The position of the hand after element i was removed.
HandWithout(i) ==
  CASE hand = i -> IF i = Len(page_WS_list) THEN 0 ELSE i
    [] hand > i -> hand - 1
    [] OTHER -> hand

\* The element of a freed page stays in the list.
InvalidateNothing(p) == UNCHANGED <<page_WS_list, hand>>

env_page_ws_invalidate(p) ==
  LET i == FirstIn(page_WS_list, {p})
  IN IF i = 0 THEN UNCHANGED <<page_WS_list, hand>>
     ELSE /\ page_WS_list' = RemoveAt(page_WS_list, i)
          /\ hand' = HandWithout(i)

\* free of a heap page.  Its stamp goes with its element.
free_user_mem(p) ==
  /\ InUserMode /\ p \in uhpage
  /\ uhpage' = uhpage \ {p}
  /\ inPF' = inPF \ {p}
  /\ env_page_ws_invalidate(p)
  /\ mapped' = mapped \ {p} /\ present' = present \ {p}
  /\ used' = used \ {p} /\ modified' = modified \ {p}
  /\ time_stamp' = [time_stamp EXCEPT ![p] = 0]
  /\ written' = written \ {p} /\ ram' = ram \ {p} /\ file' = file \ {p}
  /\ queue' = SelectSeq(queue, LAMBDA r : r # p)
  /\ UNCHANGED <<alg, status, tables, last_fault_va, num_repeated_fault, active, stream,
                 pending, userTrap>>

\* clock_interrupt_handler, as far as it changes this process's pages.
update_WS_time_stamps ==
  /\ status = "running" /\ alg = "LRU"
  /\ time_stamp' = StampNow /\ used' = UsedNow
  /\ UNCHANGED <<alg, status, page_WS_list, hand, tables, mapped, present, modified,
                 uhpage, inPF, last_fault_va, num_repeated_fault, active, stream,
                 pending, userTrap, ghosts>>

\* Another process runs and faults.
OtherFault ==
  /\ status = "running" /\ last_fault_va # NoPage
  /\ last_fault_va' = NoPage /\ num_repeated_fault' = 0
  /\ UNCHANGED <<alg, status, page_WS_list, hand, tables, pte, uhpage, time_stamp, inPF,
                 active, stream, pending, userTrap, ghosts>>

Next ==
  \/ \E p \in Pages, write \in BOOLEAN : Hit(p, write)
  \/ \E p \in Pages, user \in BOOLEAN : fault_handler(p, user)
  \/ \E p \in Heap : allocate_user_mem(p) \/ free_user_mem(p)
  \/ update_WS_time_stamps
  \/ OtherFault

Spec == env_create /\ [][Next]_vars
-----------------------------------------------------------------------------
TypeOK ==
  /\ alg \in Algorithms
  /\ status \in {"running", "exited", "out of memory", "page file full", "no victim",
                 "repeated fault", "stack underflow", "kernel overflow", "overwritten"}
  /\ page_WS_list \in Seq(Pages) /\ Len(page_WS_list) <= MaxWS
  /\ hand \in 0 .. Len(page_WS_list)
  /\ tables \subseteq {p[1] : p \in Pages}
  /\ present \cup used \cup modified \subseteq mapped
  /\ mapped \cup inPF \cup written \subseteq Pages
  /\ uhpage \subseteq Heap
  /\ time_stamp \in [Pages -> 0 .. MaxStamp]
  /\ last_fault_va \in Pages \cup {NoPage} /\ num_repeated_fault \in 0 .. 3
  /\ active \subseteq Pages /\ stream \in Seq(Pages)
  /\ pending \in Pages \cup {NoPage} /\ userTrap \in BOOLEAN
  /\ ram \subseteq mapped /\ file \subseteq inPF
  /\ queue \in Seq(Pages)

\* What the program last wrote to a page is never lost: it is in the page's
\* frame while the page has one and in the page file otherwise, through every
\* placement, write-back, replacement and free.
NothingLost ==
  status = "running" =>
    \A p \in written : IF p \in mapped THEN p \in ram ELSE p \in file

\* The pages that faults brought into memory are those of page_WS_list, each of
\* them once: replacement can find every one of their frames again.  (OPTIMAL keeps
\* evicted pages; pages of the block allocator and of shared objects, in module
\* SharedMemory, are in no list.)
WorkingSetIsMapped ==
  status = "running" /\ alg # "OPTIMAL" =>
    /\ present = ToSet(page_WS_list) /\ mapped = present
    /\ Cardinality(mapped) = Len(page_WS_list)

\* When the list is full there is a hand: the CLOCK loop dereferences it.
FullListHasHand == Len(page_WS_list) = MaxWS => hand # 0

\* With CLOCK the hand comes to the pages in the order in which they were
\* loaded or last passed over, however pages were freed and inserted between.
HandFollowsAge == alg = "CLOCK" => Rotation(page_WS_list, hand) = queue

Evicted == ToSet(page_WS_list) \ ToSet(page_WS_list')
Replaces == Len(page_WS_list') = Len(page_WS_list) /\ Evicted # {}

\* No algorithm evicts a page used since it last looked at the used bits while
\* the working set holds one that was not.
EvictsUnusedFirst ==
  [][Replaces /\ Evicted \subseteq used => ToSet(page_WS_list) \subseteq used]_vars

Class(p) == (IF p \in used THEN 2 ELSE 0) + (IF p \in modified THEN 1 ELSE 0)

\* Modified CLOCK evicts from the lowest class of (used, modified) there is, so
\* it writes a page back only when every other choice is worse.
EvictsLowestClass ==
  [][Replaces /\ alg = "MODCLOCK" =>
       \A p \in Evicted, r \in ToSet(page_WS_list) : Class(p) <= Class(r)]_vars

\* get_optimal_num_faults returns the fewest faults that any choice of victims
\* gives on the recorded stream.
OptimalIsFewest ==
  alg = "OPTIMAL" =>
    get_optimal_num_faults(page_WS_list, MaxWS, stream)
      = FewestFaults(page_WS_list, MaxWS, stream)

\* LRU aging finds a victim in a full working set: its search starts at a
\* "max value to start at the beginning".
LRUFindsVictim == status # "no victim"

\* "Failed to handle fault!": fault_handler panics over a repeated fault at an
\* allocated page only when the access that faulted has not completed since.
PanicsOnlyUnhandled ==
  status = "repeated fault" =>
    pending = last_fault_va \/ last_fault_va \in Heap \ uhpage
=============================================================================
