# Verification of the FOS kernel

TLA+ models of FOS, a single-processor teaching kernel in C with its user library and
programs, the TLC runs that check them on small instances, and TLAPS proofs of the most
important invariants for instances of any size. Every definition is translated from `src/`;
`PROJECT.json` maps each one to its lines.

## The system

| part | source | model |
|---|---|---|
| interrupt nesting, spinlocks | `kern/cpu/cpu.c`, `kern/conc/kspinlock.c` | `Cpu` |
| context switches, round robin, clock | `kern/cpu/sched.c`, `kern/proc/user_environment.c`, `kern/trap/trap.c` | `Sched` |
| channels: sleep and wakeup | `kern/conc/channel.c` | `Channel` |
| kernel semaphores | `kern/conc/ksemaphore.c` | `KSemaphore`, promise in `SemaphoreSpec` |
| sleep locks | `kern/conc/sleeplock.c` | `SleepLock` |
| life of a process: table, queues, both schedulers, kill, panics | `kern/cpu/sched.c`, `kern/cpu/sched_helpers.c`, `kern/proc/user_environment.c`, `kern/init.c`, `kern/cmd/commands.c` | `PriorityRR` |
| kernel heap, whole pages | `kern/mem/kheap.c` | `KHeap` on `BulkList`, promise in `PageAllocator` |
| user heap | `lib/uheap.c`, system calls in `kern/trap/syscall.c` | `UHeap` on `BulkList` |
| blocks inside pages, both heaps | `lib/dynamic_allocator.c` | `DynAlloc` |
| page faults, replacement, working set of one process | `kern/trap/fault_handler.c`, `kern/mem/working_set_manager.c`, `kern/disk/pagefile_manager.c`, `kern/mem/chunk_operations.c` | `Paging` on `Replacement` |
| frames, page tables, TLB | `kern/mem/memory_manager.c`, `kern/mem/paging_helpers.c` | `Frames` |
| memory of several processes, shared objects, memory commands | `kern/mem/shared_memory_manager.c`, `lib/uheap.c`, `kern/cmd/commands.c` | `SharedMemory` on `Frames` |
| keyboard, serial port, screen, line editing, command dispatch | `kern/cons/console.c`, `kern/cmd/command_readline.c`, `kern/cmd/command_prompt.c`, `lib/readline.c` | `Console` |
| from a system call stub to its handler | `lib/syscall.c`, `kern/trap/trap.c`, `kern/trap/syscall.c` | `Syscalls` |
| strings and formatting | `lib/string.c`, `lib/printfmt.c` | `Strings` |
| user programs and their algorithms | `user/` | `Programs` on `Sorting` |
| boot, device ports | `boot/`, `kern/init.c` | not modelled |

User programs enter the kernel by system calls and page faults. System calls run with
interrupts on, so the clock can take the CPU away inside them; the kernel protects itself
with spinlocks, which turn interrupts off. Processes block on channels, and semaphores and
sleep locks are built on those. `ProcessQueues.qlock` guards the queues and is handed over
from thread to scheduler across a context switch. Both heaps keep a list of free runs of
pages ("bulks"), sorted by size, below a break. A page fault enters with interrupts off
and the disk is polled, so the handling of one fault is a single step. The prompt, and a
program that has locked the console, run with interrupts off and poll the keyboard; at
other times its interrupt handler fills the ring buffer.

## The modules

**`Cpu`** is the record of one processor: process, `ncli`, `intena`, interrupt flag, held
spinlocks, whether the clock is unmasked, whether a check has failed. `pushcli`, `popcli`,
`acquire_kspinlock` and `release_kspinlock` are functions from record to record; each panic
in the code sets `panic`.

**`Sched`** adds the scheduler's control point (`spc`), the ready queue, and for each process
its control point in the kernel (`pc`), its point inside a clock interrupt (`irq`) and the
`intena` it saved in `sched()`. One action is the code between two points at which an
interrupt or a switch can be observed. `ClockInterrupt` can strike wherever interrupts are
on and the clock is unmasked.

**`Channel`** has the steps of `sleep`, `wakeup_one` and `wakeup_all`. **`KSemaphore`** and
**`SleepLock`** compose these with their own steps and with programs that call them in any
order and exit at any time in user mode (outside the lock, for the sleep lock).

**`SemaphoreSpec`** is a counting semaphore with a FIFO of waiters, whose operations are
atomic. `KSemaphore!ImplementsSemaphore` maps the code to it: `value` is the non-negative part of
`count`; a process between its decrement and its enqueue already waits; a process that a
signaller is committed to wake no longer does.

**`PriorityRR`** has the table of environments, the NEW, READY and EXIT queues, priorities,
starvation counters, both schedulers, the commands on processes and what a panic does in each
of them. An operation is one step because the queue lock is held, or interrupts are off, throughout.
`env_free` is not implemented and panics, so a kill takes the process out of its queue and
then fails; `stuck` has the spinlocks that a panic leaves locked. `waited` (clock interrupts
since the process became READY or was given a priority) and `gone` (processes a failure left in
no queue) are history, and the invariants are claimed for processes not in `gone`. A change of
the scheduler that panics has already replaced the array of queues: `schedPRIRR` then leaves
round robin with several queues, of which it looks at the first, and a quantum on which the next
dispatch panics (`badquantum`). `overrun` marks the use of memory that is not an initialized
queue, by an insertion beyond a smaller new array or after a failed `schedRR`; the model stops
there. `kmalloc` of the arrays is taken to succeed.

**`HeapRegion`** declares the constants of a page-granular heap. **`PageAllocator`** is the
promise of the kernel's: sets of free and allocated bulks, exact fit, then worst fit,
then the break; `kfree` merges. **`BulkList`** has the C lists as sequences: insertion in
descending order, removal, merging and resizing in place. **`KHeap`** is `kmalloc` and `kfree` on
these lists and implements `PageAllocator` with the lists read as sets. **`UHeap`** shares
`BulkList`, but its `free` lowers the break in another way, it takes list nodes from a fixed
pool and it asks the kernel for every range. Its `live` is history: what the program holds.

**`DynAlloc`** has, per page, the block size and the free counter, and per size class the free
blocks. The order inside a list is left open, which allows more behaviours than the code.

**`Replacement`** has the victim selections of CLOCK, Modified CLOCK and LRU aging and the
OPTIMAL simulation as operators, with a brute-force reference for the last. **`Paging`** is one
process: page table bits, working set list and hand, page file, the repeated-fault
counter. Its history variables say which copies of a page hold what the program last wrote
(`ram`, `file`) and, for CLOCK, the age order of the pages (`queue`). `Hit` is the processor,
`fault_handler` a whole fault, of the program or of the kernel at an address the program gave it
(`userTrap`), `OtherFault` a fault of another process. Besides code, heap and stack there is a
page of no segment (`Hole`), one above the stack and one that guards a kernel stack. A process
that ends is forgotten. `malloc` over a page that has a frame loses the frame, and the model
stops there ("overwritten"); `SharedMemory` goes on from it.

**`Frames`** is physical memory as operators on a record: free list, `references` and `va` of
each frame, one page table per directory, the loaded directory and the TLB. **`SharedMemory`**
is several processes on it. `malloc`, `free`, `smalloc`, `sget`, `get_page` and `return_page`
are split where another process can be scheduled and see the difference: each page of
`free_user_mem`, the two halves of `unmap_frame`, the insertion of an object and each of its
pages, the read and the write of `references++`. Where a heap chooses an address, any free
range is taken (`UHeap` has the choice), and any page of the working set is the victim
(`Replacement` has it). The memory commands of the prompt come before the first process runs and
after the last has ended. `rt` keeps the frame number in the entry it makes not present
(`removed`): `get_page_table` then faults, and a second `rt` frees what the frame holds by then.
Ghosts name what the code itself leaves inconsistent: `raced` (a count that an overlapping `sget`
wrote over), `orphans` (entries overwritten or lost with their table), `undone` (frames given back
that a shared object still records) and `untabled` (directories whose table a stale entry freed).
When memory in use is on the free list (`Sound` is false), or a `sget` meets a frame in `undone`,
the model stops. A heap never chooses a range that overlaps another (`UHeap` shows where it can),
and the frames that a kernel fault at address 0 might take are left out.

**`Console`** goes from scan codes to a command. `wire` and `com` hold what the keyboard and the
serial port have to offer. `kbd_proc_data` decodes with its shift state and, for Delete,
the screen; a character goes into the ring (`Stash`) without a look at `rpos`. The editor of the
prompt has one disjunct per kind of key, with completion and history; memory outside
the history and the uninitialised locals is any member of `Garbage`. A key that makes the editor
use memory behind `buf[BUFLEN]` ends the model (`Overrun`): nothing is said of what follows.
`execute_command` splits
the line; a valid `run` starts a program that locks the console, asks and reads
a line with the library's `readline`. Ghosts: the characters decoded and not yet read, the
line as typed, and whether it was edited only at its end.

**`Syscalls`** has every stub with the arguments it passes by name, the registers, every
handler with its parameters, and what the dispatcher stores through an argument. **`Strings`** and **`Sorting`** have the routines of the library and the
algorithms of the programs as operators, beside reference definitions. **`Programs`** runs the programs of
`user/` as sequences of operations over a small instruction set (lock the console, ask, read, allocate,
share, wait, create a process, compute). Kernel semaphores, shared objects and heaps appear in
it by their contracts, which the other modules check. A size of 0 gives a null pointer, as
`malloc` and `smalloc` do; a loop over no elements does not use it. Negative numbers, and arrays
that do not fit the heap, are left out.

`MC*` modules add symmetry sets; `MCHeaps` and `MCUserland` put parts that share no state
side by side, so that a behaviour belongs to one of them and their states add up. Definitions
marked as mutants are deliberately wrong variants of the definition that follows them,
used to show that the properties can fail.

## Runs

| run | shows | bounds |
|---|---|---|
| `semaphore` | no failed check; sleepers match the count; queues match statuses; interrupt state per thread; implements `SemaphoreSpec`; a granted wait returns | 3 processes, initial count 1, count at most 2 |
| `sleeplock` | mutual exclusion, no lost wakeup, no failed check; the lock does not get stuck | 3 processes |
| `priority` | each process is in the one queue its status and priority say; aging bounds waiting; the prompt comes back only when nothing is left to run; an exited process stays exited | 3 processes, 2 or 3 levels, threshold 1 or 2 |
| `prompt_lock` (violated) | `env_set_priority` of an unknown id reaches the prompt with `qlock` locked | same |
| `heaps` | kernel heap: partition, order, no needless NULL, refinement of `PageAllocator`; user heap: safe until a `free` leaves a bulk above the break; blocks disjoint, large enough, accounted for | kernel 7 pages, user 4 pages, requests of 1 to 3; 2 pages of blocks, 3 classes |
| `uheap_overlap` (violated) | two live allocations of the user heap can share a page | 5 pages, 3 live, 2 nodes |
| `paging` | nothing written is lost; list, table and hand agree; each algorithm evicts what it should | 1 code, 1 heap, 2 stack pages and 3 outside, working set 3, 4 frames, 3 disk frames, stream of 4 |
| `paging_no_victim` (violated) | LRU aging can find no victim | 3-bit stamps |
| `paging_repeat` (violated) | handled faults can add up to a panic | CLOCK |
| `memory` | free frames are unreachable; reference counts match the tables; sharers see the same frames; TLB and page file agree | 2 processes, 3 frames, 3 pages, both access rights, 4 calls |
| `memory_table` (violated) | a page table can be lost to a late write | 2 processes, 4 frames, 3 calls |
| `userland` | programs together: no failure, no misrouted answer, no leak, all end; library and algorithms agree with their definitions; stubs reach handlers; typed lines arrive as typed | below |

Why the bounds are enough. Three processes give a holder, a sleeper and one about to sleep;
the remaining control is per process. In `priority` three of them fill the levels and leave one
on the CPU. Seven pages hold a bulk with free neighbours on both sides and a live allocation above, the
largest case of `merge_bulks`. Paging has more pages than the working set and frames, and
fewer disk frames than pages, so placement, replacement, write-back and both kinds of
exhaustion happen. Time stamps have one bit in `paging`: `EvictsUnusedFirst` compares only the
top bit, which is the last interval, but the order among older intervals is not exercised there. In
`memory` four calls (`MaxCalls`) let one process create and the other get, free and create a
table in between; accesses and faults are not bounded. Three frames run out.

In `userland` the keys come in sets, with a bound on how many are pressed in a behaviour: editing,
history, completion, shift states, a line typed faster than it is read (`run`), and the serial
port. The ring has 6 places, so that one burst overflows it and single keys do not; the screen
has 2 rows of 8, so that it scrolls; the line buffer 12 and the history 2 entries, so
that the history is shifted. `WireMax` bounds the keyboard's own buffer at its 16 bytes.
Arrays have up to 5 elements with 3 values, strings up to 5 characters, machine integers
8 bits. Programs sort 0, 2 or 4 elements (no array, and below and above the 3 at which the
semi random fill divides by zero) and are repeated once (`MaxRepeat`); numbers asked for include
0, which is also what `strtol` makes of an empty line. Strings are NULL too, and buffers of
`vsnprintf` have 0 to 4 characters.

Deadlock checking is off where a system may stop: a process that ended (`heaps`, `paging`,
`memory`, `userland`) and an allocator out of blocks.

### Fairness

`semaphore` and `sleeplock`: the scheduler's thread and a handler with interrupts off run
on (weak fairness). A thread that is dispatched again and again makes progress:
`kclock_resume` never leaves fewer than 20 counts, so a thread is not interrupted at once
after each dispatch (strong fairness). An unmasked clock fires. Programs do call the kernel
again, and leave a lock they hold. `userland` assumes only that the CPU does not stop while
some program can go on; a loop that waits is a step taken when its condition holds, since the clock lets the others run.

## Findings

- `uheap_overlap`: `free` in `lib/uheap.c:244` lowers the break under bulks that stay in the free list;
  their pages are then given out twice.
- `paging_no_victim`: `kern/trap/fault_handler.c:561` compares strictly with the maximal stamp,
  and finds no victim when every page was used in each recorded interval.
- `paging_repeat`: `kern/trap/fault_handler.c:101` counts faults at one address whether or
  not they were handled; a program that allocates, touches and frees one page four times
  is ended.
- `prompt_lock`: `env_set_priority` of an unknown id (`kern/cpu/sched_helpers.c:728`) comes back to
  the prompt with `qlock` locked; every later command that needs it panics.
- `memory_table`: `unmap_frame` (`kern/mem/memory_manager.c:485`) clears the `va` of a frame after
  giving it back; when it has become another process's page table, that table is lost.

Met on the way and stated in the properties' exceptions rather than as runs:

- `PriorityRR`: a killed READY process is revived by `env_set_priority`; other panics (`killall`, a
  failed creation or dispatch) also leave a lock; after a failed `schedPRIRR` a process in a queue
  other than the first waits for ever; each priority given to a process starts its wait anew.
- `SharedMemory`: overlapping `sget` and `free` calls lose a change of `references`; `free()` of a
  shared pointer gives back a frame that the object still records; a second `rt` frees another
  directory's table; `allocate_user_mem` clears an entry of `aup` and leaves it in the TLB.
- `UHeap`: the node pool runs out, and a range that ends at `USER_HEAP_MAX` is rejected by the
  kernel. Both end the process, and no property is about them.
- `Console`: printing in the middle of a line lengthens it, and enough of it passes the end of the
  buffer; a full ring loses what it held.
- `Programs`: semi random arrays of one or two elements trap; `arrop` with no elements waits for ever
  for the statistics slave, which died; `tst_ksem2` with capacity 0 waits for ever; the programs
  that use the library's semaphores end in its "not implemented yet".

## Proofs

`KSemaphoreProofs` proves, for any finite set of processes and any initial count, that
`IInv` is inductive (`Invariance`) and from it `PanicFree`, `TypeCorrect`, `SleepersCounted`,
`EveryProcessInItsPlace` and `InterruptStateKept`. `NoPanic` alone is not inductive: whether
`sched()` may panic depends on which locks are held at each control point, that on the interrupt flag
and on `intena` across switches, and that on where a thread not on the CPU can be resumed.
`IInv` has one conjunct for each: `CpuInv` (`ncli` counts the held locks), `ThreadInv` (locks
and interrupt flag per control point, on and off the CPU), `SchedulerInv`,
`PlaceMatchesStatus` (status and queues) and `WaitersCounted` (count and channel). The
proof has one lemma per group of actions, on two general ones: `OwnStep` for a thread's
own code and `SwitchAway` for a context switch. The accounting rests on `OnlyOnCpu`: only the process on
the CPU can be between a change of the count and the matching change of the queue.

`PageAllocatorProofs` proves, for every region and every set of positive request sizes, that
`PartitionInv` is inductive, and from it `NoOverlap`, `NoPageLost`, `FrameIffOwned` and
`NoNeedlessNull`. `Disjoint` alone is not inductive: to extend the break safely every bulk must
lie below it, and `kfree` returns the right run only if free bulks are disjoint and merged.
`NoNeedlessNull` then follows because a run of free pages lies in a single free bulk
or above the break.

Assumptions: the process set is finite and NULL is not in it, counts and sizes are
naturals, the region is not empty. The runs evaluate them.

Only model-checked: liveness; the refinements `ImplementsSemaphore` and
`ImplementsPageAllocator`; the list order in `BulkList`; sleep locks, priorities, user heap,
blocks, paging, shared memory and everything in `userland`. `Console`, `Strings` and `Sorting` are recursive,
and what a recursive definition computes for every input is beyond the provers.
`PageAllocatorProofs` is about the abstract allocator, and `heaps` carries it to the lists on
its instance.

## Not modelled, and known limits

The mapped definitions stand for about 9,700 lines of C, a third of the code and nearly half of
`kern/` and `lib/` without their tests and comments.

- `env_free`, `free_share`, `delete_shared_object`, `sfree`, `realloc`, user semaphores, LRU with lists,
  buffering, MLFQ, BSD scheduling and most of `chunk_operations.c` are unimplemented and panic.
- The kernel's own tests (`kern/tests/`) and most `tst_` programs drive the components that the
  other modules check directly, on fixed inputs; they have no state of their own. Programs that
  `user_programs.c` does not list cannot be started.
- Boot is sequential and ends in the modules' initial states. Port programming is I/O. The commands that
  only print are left out.
- Distances and sizes are in pages; alignment and 32-bit wrap-around of addresses are left out.
- OPTIMAL is checked on the recorded stream. References inside the active window are not recorded by the code.
- A process whose clock was masked by the scheduler and that starts for the first time is not interrupted
  until another trap unmasks the clock. `Cpu` and `Sched` model this and no run states a
  property about it.
- `Console` claims a line only while it is edited at its end. Completion, Delete and editing
  in the middle are modelled, and change lines in ways that no text of the repository describes.
- The descriptors of the kernel heap's free list are not counted.

## Plan

1. Proofs: mutual exclusion and no lost wakeup of sleep locks, on the lemmas of `KSemaphoreProofs`;
   the refinement of `SemaphoreSpec`; `FreeFramesUnused` and `DiskFramesAccounted` of `SharedMemory`;
   `NothingLost` and `WorkingSetIsMapped` of `Paging`; `PromptWhenIdle` of `PriorityRR`.
2. Composition of `KHeap` with `DynAlloc` (descriptors live in blocks) and with `Frames`.
3. Starvation of low priorities by processes that never use up a quantum.
