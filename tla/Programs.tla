------------------------------ MODULE Programs ------------------------------
(***************************************************************************)
(* The user programs of user/, run by the kernel that the other modules    *)
(* model.  A program is the sequence of the operations it asks of the      *)
(* system and of its own computations, in the order of its _main; what it  *)
(* prints, and the counter of finished tests, are left out.  A process is  *)
(* known by the name under which user_programs.c lists its program.        *)
(* Kernel semaphores, shared objects and the heap are used here through    *)
(* their contracts: what they do inside is the subject of KSemaphore,      *)
(* SharedMemory and UHeap.                                                 *)
(***************************************************************************)
EXTENDS Sorting, TLC

CONSTANTS
  Scenarios,    \* sets of programs that the user starts together
  Sizes,        \* the numbers of elements that the user may type
  FixedSize,    \* stands for the sizes fixed in a program
  MaxRepeat     \* bound on the times a program is repeated

VARIABLES
  st,           \* process -> its state; new, ready, blocked or one of Ended
  pc,           \* process -> position in its program
  loc,          \* process -> its variables
  intr,         \* process -> FL_IF in its trap frame
  heap,         \* process -> blocks of the user heap that it holds
  rounds,       \* process -> times it was repeated
  cpu,          \* the process that cannot be preempted, or Nobody
  sem,          \* kernel semaphores
  shm,          \* shared objects: <<owner, name>> -> Unset or <<value>>
  asked,        \* the process whose question is the last on the screen, unanswered
  misrouted,    \* an answer went to a process that had not asked
  halted        \* the kernel panicked on a trap of a program

vars == <<st, pc, loc, intr, heap, rounds, cpu, sem, shm, asked, misrouted, halted>>

Nobody == "nobody"
NULL == <<"NULL">>
Unset == <<>>
Ended == {"exited", "panicked", "faulted", "garbage", "unimplemented"}
-----------------------------------------------------------------------------
(* Operations of a program.                                                 *)

Lock == [op |-> "lock"]
Unlock == [op |-> "unlock"]
Prompt == [op |-> "prompt"]
Read(x) == [op |-> "read", x |-> x]
Ask(x) == <<Prompt, Read(x)>>
Set(x, f, args) == [op |-> "set", x |-> x, f |-> f, args |-> args]
Assert_(f, args) == [op |-> "assert", f |-> f, args |-> args]
Malloc(f) == [op |-> "malloc", f |-> f]
Free(f) == [op |-> "free", f |-> f]
Create(q) == [op |-> "create", q |-> q]
Run(q) == [op |-> "run", q |-> q]
Smalloc(x) == [op |-> "smalloc", x |-> x, len |-> "int"]
SmallocArray(x, n) == [op |-> "smalloc", x |-> x, len |-> n]
Sget(q, x) == [op |-> "sget", q |-> q, x |-> x]
Load(x, y) == [op |-> "load", x |-> x, y |-> y, len |-> "int"]
LoadArray(x, y, n) == [op |-> "load", x |-> x, y |-> y, len |-> n]
Store(x, f, args) == [op |-> "store", x |-> x, f |-> f, args |-> args, len |-> "int"]
StoreArray(x, f, args, n) == [op |-> "store", x |-> x, f |-> f, args |-> args, len |-> n]
SpinUntil(x, n) == [op |-> "spin", x |-> x, n |-> n]
KInit(k, f) == [op |-> "kinit", k |-> k, f |-> f]
KWait(k) == [op |-> "kwait", k |-> k]
KSignal(k) == [op |-> "ksignal", k |-> k]
KGet(x, k) == [op |-> "kget", x |-> x, k |-> k]
InitLock(x, open) == [op |-> "initlock", x |-> x, open |-> open]
Acquire(x) == [op |-> "acquire", x |-> x]
Release(x) == [op |-> "release", x |-> x]
UserSemaphore == [op |-> "usersemaphore"]
Exit == [op |-> "exit"]

\* { body } where x has one of the values vs.
When(x, vs, body) == <<[op |-> "when", x |-> x, vs |-> vs, skip |-> Len(body)]>> \o body
\* do { body } while (again == 'y')
Repeat(body) == body \o <<[op |-> "repeat", back |-> Len(body)]>>
\* The lines a program prints at once.
Say == <<Lock, Unlock>>

\* _main, the statistics printed after it, and exit; printStats = 0 leaves them out.
libmain(main) == main \o Say \o <<Exit>>
libmain_silent(main) == main \o <<Exit>>
-----------------------------------------------------------------------------
(* qs1, qs2: quick sort without and with a leak.  ms1, ms2: merge sort.     *)

Elements == <<"Elements", "N">>
Verdict == <<Assert_("CheckSorted", Elements)>> \o Say

quicksort_leakage == libmain(Repeat(
  <<Lock>> \o Ask("N") \o Ask("Chose") \o
  <<Unlock, Malloc("Elements"), Set("Elements", "Fill", <<"Chose", "N">>),
    Set("Elements", "QuickSort", Elements)>> \o Say \o Verdict \o
  <<Lock>> \o Ask("again") \o <<Unlock>>))

quicksort_noleakage == libmain(Repeat(
  <<Lock>> \o Ask("N") \o Ask("Chose") \o
  <<Unlock, Malloc("Elements"), Set("Elements", "Fill", <<"Chose", "N">>),
    Set("Elements", "QuickSort", Elements)>> \o Say \o Verdict \o
  <<Free("Elements"), Lock>> \o Ask("again") \o <<Unlock>>))

mergesort_noleakage == libmain(Repeat(
  <<Lock>> \o Ask("N") \o Ask("Chose") \o
  <<Unlock, Malloc("Elements"), Set("Elements", "FillUnguarded", <<"Chose", "N">>),
    Malloc("merge"), Set("Elements", "MSort", Elements), Free("merge")>> \o Say \o Verdict \o
  <<Free("Elements"), Lock>> \o Ask("again") \o <<Unlock>>))

mergesort_leakage == libmain(Repeat(
  <<Lock>> \o Ask("N") \o <<Malloc("Elements")>> \o Ask("Chose") \o
  <<Unlock, Set("Elements", "FillUnguarded", <<"Chose", "N">>),
    Malloc("merge"), Set("Elements", "MSort", Elements)>> \o Say \o Verdict \o
  <<Lock>> \o Ask("again") \o <<Unlock>>))

\* The arrays of mergesort are global variables.
mergesort_static == libmain(
  <<Lock, Prompt, Set("N", "Fixed", <<>>), Set("Chose", "c", <<>>), Unlock,
    Set("Elements", "Fill", <<"Chose", "N">>), Set("Elements", "MSort", Elements)>> \o
  Say \o Verdict \o <<Lock, Prompt, Unlock>>)

ef_mergesort_noleakage == libmain(
  <<Lock, Prompt, Set("N", "Fixed", <<>>), Malloc("Elements"), Set("Chose", "a", <<>>), Unlock,
    Set("Elements", "Fill", <<"Chose", "N">>),
    Malloc("merge"), Set("Elements", "MSort", Elements), Free("merge")>> \o
  Say \o Verdict \o <<Free("Elements"), Lock, Prompt, Unlock>>)

\* Ascending in the first round, semi random in the second, and no third.
ef_mergesort_leakage ==
  LET Round(c) == <<Lock, Prompt, Set("N", "Fixed", <<>>), Malloc("Elements"), Set("Chose", c, <<>>), Unlock,
                    Set("Elements", "Fill", <<"Chose", "N">>),
                    Malloc("merge"), Set("Elements", "MSort", Elements)>> \o
                  Say \o Verdict \o <<Lock, Prompt, Unlock>>
  IN libmain(Round("a") \o Round("c"))
-----------------------------------------------------------------------------
(* The number programs, fos_input and fos_alloc.                            *)

AtomicReadline(x) == <<Lock>> \o Ask(x) \o <<Unlock>>

fos_factorial == libmain(AtomicReadline("i1") \o <<Set("res", "factorial", <<"i1">>)>> \o Say)
fos_fibonacci == libmain(AtomicReadline("i1") \o <<Set("res", "fibonacci", <<"i1">>)>> \o Say)
fib_loop == libmain(AtomicReadline("i1") \o
  <<Malloc("one"), Set("res", "fibonacci_loop", <<"i1">>), Free("one")>> \o Say)
fib_memomize == libmain(AtomicReadline("i1") \o
  <<Malloc("one"), Set("res", "fibonacci_memo", <<"i1">>), Free("one")>> \o Say)
priRR_fib_small == libmain(
  <<Set("i1", "eight", <<>>), Set("res", "fibonacci", <<"i1">>)>> \o Say \o
  <<Assert_("is 34", <<"res">>)>>)
fos_input == libmain(AtomicReadline("i1") \o AtomicReadline("i2") \o
  <<Set("sum", "plus", <<"i1", "i2">>)>> \o Say)
fos_alloc == libmain(<<Malloc("one")>> \o Say \o Say \o <<Free("one"), Malloc("one")>> \o Say \o <<Free("one")>>)

\* The matrices themselves steer nothing; the operations are in Sorting.
matrix_operations == libmain(Repeat(
  <<Lock>> \o Ask("N") \o Ask("Chose") \o When("Chose", {"b"}, Ask("val")) \o
  <<Unlock, Malloc("matrices"), Lock>> \o Ask("Chose") \o <<Unlock, Malloc("result")>> \o Say \o
  <<Free("result"), Free("matrices"), Lock>> \o Ask("again") \o <<Unlock>>))
-----------------------------------------------------------------------------
(* arrop and its slaves.  Semaphores: 0 ready, 1 finished, 2 the console.   *)

Results == <<"mean", "var", "min", "max", "med">>
Deref == <<"*mean", "*var", "*min", "*max", "*med">>
Printing == <<KWait(2), KSignal(2)>>

arrayOperations_Master == libmain(
  <<KInit(0, "zero"), KInit(1, "zero"), KInit(2, "one"),
    Create("slave_qs"), Create("slave_ms"), Create("slave_stats"),
    Run("slave_qs"), Run("slave_ms"), Run("slave_stats"),
    Smalloc("cons_mutex ownerID"), Store("cons_mutex ownerID", "one", <<>>), KWait(2)>> \o Ask("N") \o
  <<Smalloc("arrSize"), Store("arrSize", "copy", <<"N">>), SmallocArray("arr", "N")>> \o Ask("Chose") \o
  <<KSignal(2), StoreArray("arr", "FillUnguarded", <<"Chose", "N">>, "N"),
    KSignal(0), KSignal(0), KSignal(0), KWait(1), KWait(1), KWait(1),
    Sget("slave_qs", "quicksortedArr"), Sget("slave_ms", "mergesortedArr")>> \o
  [i \in 1 .. 5 |-> Sget("slave_stats", Results[i])] \o
  <<LoadArray("qs", "quicksortedArr", "N"), Assert_("CheckSorted", <<"qs", "N">>),
    LoadArray("ms", "mergesortedArr", "N"), Assert_("CheckSorted", <<"ms", "N">>),
    LoadArray("a", "arr", "N"), Set("correct", "Correct", <<"a", "qs", "N">>)>> \o Printing \o
  [i \in 1 .. 5 |-> Load(Deref[i], Results[i])] \o
  <<Assert_("StatsAgree", <<"correct">> \o Deref)>>)

SlaveStart ==
  <<KWait(0), Sget("arrop", "cons_mutex ownerID"), Sget("arrop", "arr"), Sget("arrop", "arrSize"),
    Load("n", "arrSize")>>

arrayOperations_quicksort == libmain(SlaveStart \o
  <<SmallocArray("quicksortedArr", "n"), LoadArray("a", "arr", "n"),
    StoreArray("quicksortedArr", "QSortDrawn", <<"a", "n">>, "n")>> \o
  Printing \o <<KSignal(1)>>)

arrayOperations_mergesort == libmain(SlaveStart \o
  <<SmallocArray("mergesortedArr", "n"), LoadArray("a", "arr", "n"),
    StoreArray("mergesortedArr", "MSort", <<"a", "n">>, "n")>> \o
  Printing \o <<KSignal(1)>>)

arrayOperations_stats == libmain(SlaveStart \o
  <<SmallocArray("tmpArr", "n"), LoadArray("a", "arr", "n"), Set("stats", "ArrayStatsSlave", <<"a", "n">>)>> \o Printing \o
  [i \in 1 .. 10 |-> LET x == Results[(i + 1) \div 2]
                     IN IF i % 2 = 1 THEN Smalloc(x) ELSE Store(x, x, <<"stats">>)] \o
  Printing \o <<KSignal(1)>>)
-----------------------------------------------------------------------------
(* midterm: A doubles X and B adds one to it.  protType: 0 nothing, 1 user   *)
(* semaphores, which the library does not implement, 2 spin locks.           *)

Finishing ==
  LET Count == <<Load("c", "finishedCount"), Store("finishedCount", "inc", <<"c">>)>>
  IN When("prot", {2}, <<Acquire("finishedCountMutex")>> \o Count \o <<Release("finishedCountMutex")>>) \o
     When("prot", {0}, <<Lock>> \o Count \o <<Unlock>>)

MidTermStart ==
  <<Sget("midterm", "X"), Sget("midterm", "protType"), Sget("midterm", "finishedCount"),
    Load("prot", "protType")>> \o
  When("prot", {1}, <<UserSemaphore>>) \o
  When("prot", {2}, <<Sget("midterm", "T"), Sget("midterm", "finishedCountMutex")>>)

MidTermEx_Master == libmain(
  <<Smalloc("X"), Store("X", "five", <<>>), Lock>> \o Ask("select") \o
  <<Unlock, Smalloc("protType"), Store("protType", "copy", <<"select">>), Load("prot", "protType")>> \o
  When("prot", {1}, <<UserSemaphore>>) \o
  When("prot", {2}, <<Smalloc("T"), InitLock("T", FALSE),
                    Smalloc("finishedCountMutex"), InitLock("finishedCountMutex", TRUE)>>) \o
  <<Smalloc("finishedCount"), Store("finishedCount", "zero", <<>>),
    Create("midterm_a"), Create("midterm_b"), Run("midterm_a"), Run("midterm_b"),
    SpinUntil("finishedCount", 2), Load("final", "X")>> \o Say)

MidTermEx_ProcessA == libmain_silent(MidTermStart \o
  <<Load("x", "X"), Set("Y", "twice", <<"x">>), Store("X", "copy", <<"Y">>)>> \o
  When("prot", {2}, <<Release("T")>>) \o Finishing)

MidTermEx_ProcessB == libmain_silent(MidTermStart \o
  When("prot", {2}, <<Acquire("T")>>) \o
  <<Load("x", "X"), Set("Z", "inc", <<"x">>), Store("X", "copy", <<"Z">>)>> \o Finishing)
-----------------------------------------------------------------------------
(* The tests of the kernel semaphores, and cnc.                             *)

ksem1Slaves == <<"ksem1Slave 1", "ksem1Slave 2", "ksem1Slave 3">>
ksem2Slaves == <<"ksem2Slave 1", "ksem2Slave 2">>

tst_ksemaphore_1master == libmain(
  <<KInit(0, "one"), KInit(1, "zero")>> \o
  [i \in 1 .. 3 |-> Create(ksem1Slaves[i])] \o [i \in 1 .. 3 |-> Run(ksem1Slaves[i])] \o
  <<KWait(1), KWait(1), KWait(1), KGet("sem1val", 0), KGet("sem2val", 1),
    Assert_("is 1", <<"sem1val">>), Assert_("is 0", <<"sem2val">>)>>)

tst_ksemaphore_1slave == libmain_silent(
  <<KWait(0), KGet("sem1val", 0), Assert_("not positive", <<"sem1val">>), KSignal(0), KSignal(1)>>)

\* The master only prints whether the counts are right.
tst_ksemaphore_2master == libmain(Ask("customers") \o Ask("capacity") \o
  <<KInit(0, "capacity"), KInit(1, "zero")>> \o
  When("customers", {1, 2}, <<Create(ksem2Slaves[1]), Run(ksem2Slaves[1])>>) \o
  When("customers", {2}, <<Create(ksem2Slaves[2]), Run(ksem2Slaves[2])>>) \o
  When("customers", {1, 2}, <<KWait(1)>>) \o When("customers", {2}, <<KWait(1)>>) \o
  <<KGet("sem1val", 0), KGet("sem2val", 1), Set("right", "ksem2", <<"sem1val", "sem2val", "capacity">>)>>)

tst_ksemaphore_2slave == libmain_silent(<<KWait(0), KSignal(0), KSignal(1)>>)

\* cnc and ef_midterm stop at their first semaphore.
concurrent_start == libmain(<<Smalloc("cnc1"), UserSemaphore>>)
ef_MidTermEx_Master == libmain(
  <<Smalloc("X"), Store("X", "five", <<>>), Smalloc("useSem"), Store("useSem", "one", <<>>),
    Smalloc("finishedCount"), Store("finishedCount", "zero", <<>>), UserSemaphore>>)
-----------------------------------------------------------------------------
(* user_programs.c.                                                         *)

userPrograms ==
  [qs1 |-> quicksort_noleakage, qs2 |-> quicksort_leakage,
   ms1 |-> mergesort_noleakage, ms2 |-> mergesort_leakage, mergesort |-> mergesort_static,
   ef_ms1 |-> ef_mergesort_noleakage, ef_ms2 |-> ef_mergesort_leakage,
   fact |-> fos_factorial, fib |-> fos_fibonacci, fib_loop |-> fib_loop,
   fib_memomize |-> fib_memomize, priRR_fib_small |-> priRR_fib_small,
   fos_input |-> fos_input, fos_alloc |-> fos_alloc, matops |-> matrix_operations,
   arrop |-> arrayOperations_Master, slave_qs |-> arrayOperations_quicksort,
   slave_ms |-> arrayOperations_mergesort, slave_stats |-> arrayOperations_stats,
   midterm |-> MidTermEx_Master, midterm_a |-> MidTermEx_ProcessA, midterm_b |-> MidTermEx_ProcessB,
   tst_ksem1 |-> tst_ksemaphore_1master, tst_ksem2 |-> tst_ksemaphore_2master,
   cnc |-> concurrent_start, ef_midterm |-> ef_MidTermEx_Master] @@
  [p \in {ksem1Slaves[i] : i \in 1 .. 3} |-> tst_ksemaphore_1slave] @@
  [p \in {ksem2Slaves[i] : i \in 1 .. 2} |-> tst_ksemaphore_2slave]

Process == DOMAIN userPrograms

\* What runs with a program that the user starts.
Slaves(p) ==
  CASE p = "arrop" -> {"slave_qs", "slave_ms", "slave_stats"}
    [] p = "midterm" -> {"midterm_a", "midterm_b"}
    [] p = "tst_ksem1" -> {ksem1Slaves[i] : i \in 1 .. 3}
    [] p = "tst_ksem2" -> {ksem2Slaves[i] : i \in 1 .. 2}
    [] OTHER -> {}
-----------------------------------------------------------------------------
(* What the computations return: a set, because some of them draw numbers.  *)

Fill(c, n, semi) ==
  CASE c = "a" -> InitializeAscending(n) [] c = "b" -> InitializeDescending(n) [] OTHER -> semi

\* What the master expects: its own mean and variance, the rest from the sorted array.
Correct(a, qs, n) ==
  IF n = 0 THEN ArrayStats(a, n)
  ELSE ArrayStats(a, n) \o <<qs[0], qs[n - 1], qs[(n + 1) \div 2 - 1]>>

Apply(f, v) ==
  CASE f = "Fill" -> {Fill(v[1], v[2], InitializeSemiRandom(v[2]))}
    [] f = "FillUnguarded" -> {Fill(v[1], v[2], InitializeSemiRandomUnguarded(v[2]))}
    [] f = "QuickSort" -> {QuickSort(v[1], v[2])}
    [] f = "QSortDrawn" -> QSortDrawn(v[1], 0, v[2] - 1)
    [] f = "MSort" -> {MSort(v[1], 1, v[2])}
    [] f = "ArrayStatsSlave" ->
         LET r == ArrayStatsSlave(v[1], v[2]) IN {[r EXCEPT !.med = d] : d \in r.med}
    [] f \in {Results[i] : i \in 1 .. 5} -> {v[1][f]}
    [] f = "Correct" -> {Correct(v[1], v[2], v[3])}
    [] f = "factorial" -> {factorial(v[1])}
    [] f = "fibonacci" -> {fibonacci(v[1])}
    [] f = "fibonacci_loop" -> {fibonacci_loop(v[1])}
    [] f = "fibonacci_memo" -> {fibonacci_memo(v[1])}
    [] f = "plus" -> {v[1] + v[2]}
    [] f = "inc" -> {v[1] + 1}
    [] f = "twice" -> {v[1] * 2}
    [] f = "ksem2" -> {v[1] = v[3] /\ v[2] = 0}
    [] f = "copy" -> {v[1]}
    [] f = "Fixed" -> {FixedSize}
    [] f \in {"a", "c"} -> {f}
    [] f = "zero" -> {0} [] f = "one" -> {1} [] f = "five" -> {5} [] f = "eight" -> {8}

Holds(f, v) ==
  CASE f = "CheckSorted" -> CheckSorted(v[1], v[2])
    [] f = "StatsAgree" -> Tail(v) = v[1]
    [] f = "is 34" -> v[1] = 34 [] f = "is 1" -> v[1] = 1 [] f = "is 0" -> v[1] = 0
    [] f = "not positive" -> v[1] <= 0

\* The answers to a question.  strtol reads an empty line, or one without a digit, as 0; a key that
\* a menu does not offer is refused, or taken for the last answer of the set.
Answers(p, x) ==
  CASE x \in {"N", "i1", "i2", "val"} -> Sizes
    [] x = "Chose" -> {"a", "b", "c"}
    [] x = "again" -> IF rounds[p] < MaxRepeat THEN {"y", "n"} ELSE {"n"}
    [] x = "select" -> {1, 2, 0}
    [] x \in {"customers", "capacity"} -> {0, 1, 2}

\* The blocks of the heap that stand for f.  malloc gives none for a size of 0, and free takes the
\* null pointer that it returns.
Blocks(p, f) ==
  LET n == loc[p]["N"]
      blocks == CASE f = "Elements" -> 1 [] f = "merge" -> MergeBlocks(1, n)
                  [] f = "matrices" -> 2 * n + 2 [] f = "result" -> n + 1
  IN IF f = "one" THEN 1 ELSE IF n = 0 THEN 0 ELSE blocks
-----------------------------------------------------------------------------
(* Steps.                                                                   *)

Instr(p) == userPrograms[p][pc[p]]

\* A process that runs with interrupts off keeps the CPU until it turns them on or stops.
Keeps(p) == intr'[p] = FALSE /\ st'[p] = "ready"
At(p, op) ==
  /\ st[p] = "ready" /\ ~halted /\ cpu \in {p, Nobody}
  /\ Instr(p).op = op

Goto(p, n) == pc' = [pc EXCEPT ![p] = @ + n]
End(p, how) == st' = [st EXCEPT ![p] = how] /\ UNCHANGED pc
Bind(p, x, v) == loc' = [loc EXCEPT ![p] = (x :> v) @@ @]
Vals(p, args) == [i \in DOMAIN args |-> IF args[i] \in DOMAIN loc[p] THEN loc[p][args[i]] ELSE 0]

\* A divide error, by the repetition of a semi random array or by the number of elements.
Traps(f, v) == f \in {"Fill", "FillUnguarded", "Correct"} /\ v = Trap
\* The slave's KthElement reads Elements[-1] before the division; with no elements the array is a
\* null pointer.
Faults(f, v) == f = "ArrayStatsSlave" /\ v[2] = 0

\* The elements that an operation on a shared array runs over.
Extent(p) == IF Instr(p).len = "int" THEN 1 ELSE loc[p][Instr(p).len]

\* Mutant: the interrupts stay on.
cons_lock_on(p) == At(p, "lock") /\ Goto(p, 1) /\ UNCHANGED <<st, loc, intr, heap, rounds, sem, shm, asked, misrouted, halted>>

\* LCK_INT: FL_IF of the trap frame.  The calls neither nest nor count.
cons_lock(p) ==
  /\ At(p, "lock") /\ Goto(p, 1)
  /\ intr' = [intr EXCEPT ![p] = FALSE]
  /\ UNCHANGED <<st, loc, heap, rounds, sem, shm, asked, misrouted, halted>>

cons_unlock(p) ==
  /\ At(p, "unlock") /\ Goto(p, 1)
  /\ intr' = [intr EXCEPT ![p] = TRUE]
  /\ UNCHANGED <<st, loc, heap, rounds, sem, shm, asked, misrouted, halted>>

\* readline and getchar: the question, then the answer.
Question(p) ==
  /\ At(p, "prompt") /\ Goto(p, 1)
  /\ asked' = p
  /\ UNCHANGED <<st, loc, intr, heap, rounds, sem, shm, misrouted, halted>>

readline(p) ==
  /\ At(p, "read") /\ Goto(p, 1)
  /\ \E v \in Answers(p, Instr(p).x) : Bind(p, Instr(p).x, v)
  /\ misrouted' = (misrouted \/ asked # p)
  /\ asked' = Nobody
  /\ UNCHANGED <<st, intr, heap, rounds, sem, shm, halted>>

\* A divide error of a program is a trap that the kernel does not handle: it panics.
Compute(p) ==
  /\ At(p, "set")
  /\ LET args == Vals(p, Instr(p).args)
     IN IF Faults(Instr(p).f, args) THEN End(p, "faulted") /\ UNCHANGED <<loc, halted>>
        ELSE /\ Goto(p, 1) /\ UNCHANGED st
             /\ \E v \in Apply(Instr(p).f, args) : Bind(p, Instr(p).x, v) /\ halted' = Traps(Instr(p).f, v)
  /\ UNCHANGED <<intr, heap, rounds, sem, shm, asked, misrouted>>

Branch(p) ==
  /\ At(p, "when") /\ Goto(p, IF loc[p][Instr(p).x] \in Instr(p).vs THEN 1 ELSE Instr(p).skip + 1)
  /\ UNCHANGED <<st, loc, intr, heap, rounds, sem, shm, asked, misrouted, halted>>

LoopBack(p) ==
  /\ At(p, "repeat")
  /\ LET again == loc[p]["again"] = "y"
     IN /\ Goto(p, IF again THEN -Instr(p).back ELSE 1)
        /\ rounds' = [rounds EXCEPT ![p] = IF again THEN @ + 1 ELSE @]
  /\ loc' = [loc EXCEPT ![p] = <<>>]
  /\ UNCHANGED <<st, intr, heap, sem, shm, asked, misrouted, halted>>

\* panic ends the process.
Check(p) ==
  /\ At(p, "assert")
  /\ IF Holds(Instr(p).f, Vals(p, Instr(p).args)) THEN Goto(p, 1) /\ UNCHANGED st ELSE End(p, "panicked")
  /\ UNCHANGED <<loc, intr, heap, rounds, sem, shm, asked, misrouted, halted>>

create_semaphore(p) ==
  /\ At(p, "usersemaphore") /\ End(p, "unimplemented")
  /\ UNCHANGED <<loc, intr, heap, rounds, sem, shm, asked, misrouted, halted>>

exit(p) ==
  /\ At(p, "exit") /\ End(p, "exited")
  /\ loc' = [loc EXCEPT ![p] = <<>>]
  /\ UNCHANGED <<intr, heap, rounds, sem, shm, asked, misrouted, halted>>

malloc(p) ==
  /\ At(p, "malloc") /\ Goto(p, 1)
  /\ heap' = [heap EXCEPT ![p] = @ + Blocks(p, Instr(p).f)]
  /\ UNCHANGED <<st, loc, intr, rounds, sem, shm, asked, misrouted, halted>>

free(p) ==
  /\ At(p, "free") /\ Goto(p, 1)
  /\ heap' = [heap EXCEPT ![p] = @ - Blocks(p, Instr(p).f)]
  /\ UNCHANGED <<st, loc, intr, rounds, sem, shm, asked, misrouted, halted>>

\* sys_create_env leaves the process in state NEW, sys_run_env makes it ready.
sys_create_env(p) ==
  /\ At(p, "create") /\ Goto(p, 1)
  /\ st' = [st EXCEPT ![Instr(p).q] = "new"]
  /\ UNCHANGED <<loc, intr, heap, rounds, sem, shm, asked, misrouted, halted>>

sys_run_env(p) ==
  /\ At(p, "run") /\ Goto(p, 1)
  /\ st' = [st EXCEPT ![Instr(p).q] = IF @ = "new" THEN "ready" ELSE @]
  /\ UNCHANGED <<loc, intr, heap, rounds, sem, shm, asked, misrouted, halted>>
-----------------------------------------------------------------------------
(* Shared memory.  A missing object, and one of size 0, is a null pointer.  *)

smalloc(p) ==
  /\ At(p, "smalloc") /\ Goto(p, 1)
  /\ LET key == <<p, Instr(p).x>>
     IN IF Extent(p) = 0 \/ key \in DOMAIN shm THEN Bind(p, Instr(p).x, NULL) /\ UNCHANGED shm
        ELSE Bind(p, Instr(p).x, key) /\ shm' = shm @@ (key :> Unset)
  /\ UNCHANGED <<st, intr, heap, rounds, sem, asked, misrouted, halted>>

sget(p) ==
  /\ At(p, "sget") /\ Goto(p, 1)
  /\ LET key == <<Instr(p).q, Instr(p).x>>
     IN Bind(p, Instr(p).x, IF key \in DOMAIN shm THEN key ELSE NULL)
  /\ UNCHANGED <<st, intr, heap, rounds, sem, shm, asked, misrouted, halted>>

\* A null pointer faults, but a loop over no elements does not use it; a variable read before it is
\* written holds anything.
LoadShared(p) ==
  /\ At(p, "load")
  /\ LET k == loc[p][Instr(p).y]
     IN IF Extent(p) = 0 THEN Goto(p, 1) /\ Bind(p, Instr(p).x, <<>>) /\ UNCHANGED st
        ELSE IF k = NULL THEN End(p, "faulted") /\ UNCHANGED loc
        ELSE IF shm[k] = Unset THEN End(p, "garbage") /\ UNCHANGED loc
        ELSE Goto(p, 1) /\ Bind(p, Instr(p).x, shm[k][1]) /\ UNCHANGED st
  /\ UNCHANGED <<intr, heap, rounds, sem, shm, asked, misrouted, halted>>

StoreShared(p) ==
  /\ At(p, "store")
  /\ LET k == loc[p][Instr(p).x]
     IN IF Extent(p) = 0 THEN Goto(p, 1) /\ UNCHANGED <<st, shm, halted>>
        ELSE IF k = NULL THEN End(p, "faulted") /\ UNCHANGED <<shm, halted>>
        ELSE /\ Goto(p, 1) /\ UNCHANGED st
             /\ \E v \in Apply(Instr(p).f, Vals(p, Instr(p).args)) :
                  shm' = [shm EXCEPT ![k] = <<v>>] /\ halted' = Traps(Instr(p).f, v)
  /\ UNCHANGED <<loc, intr, heap, rounds, sem, asked, misrouted>>

\* A loop that waits is a step taken when it ends: the clock lets the others run.
BusyWait(p) ==
  /\ At(p, "spin")
  /\ shm[loc[p][Instr(p).x]] = <<Instr(p).n>>
  /\ Goto(p, 1)
  /\ UNCHANGED <<st, loc, intr, heap, rounds, sem, shm, asked, misrouted, halted>>

init_uspinlock(p) ==
  /\ At(p, "initlock") /\ Goto(p, 1)
  /\ shm' = [shm EXCEPT ![loc[p][Instr(p).x]] = <<IF Instr(p).open THEN 0 ELSE 1>>]
  /\ UNCHANGED <<st, loc, intr, heap, rounds, sem, asked, misrouted, halted>>

acquire_uspinlock(p) ==
  /\ At(p, "acquire")
  /\ shm[loc[p][Instr(p).x]] = <<0>>
  /\ Goto(p, 1)
  /\ shm' = [shm EXCEPT ![loc[p][Instr(p).x]] = <<1>>]
  /\ UNCHANGED <<st, loc, intr, heap, rounds, sem, asked, misrouted, halted>>

release_uspinlock(p) ==
  /\ At(p, "release")
  /\ IF shm[loc[p][Instr(p).x]] = <<0>> THEN End(p, "panicked") /\ UNCHANGED shm
     ELSE /\ Goto(p, 1) /\ UNCHANGED st
          /\ shm' = [shm EXCEPT ![loc[p][Instr(p).x]] = <<0>>]
  /\ UNCHANGED <<loc, intr, heap, rounds, sem, asked, misrouted, halted>>
-----------------------------------------------------------------------------
(* The kernel semaphores of sys_utilities.                                  *)

init_ksemaphore(p) ==
  /\ At(p, "kinit") /\ Goto(p, 1)
  /\ LET f == Instr(p).f
     IN sem' = [sem EXCEPT ![Instr(p).k] =
                  [count |-> CASE f = "zero" -> 0 [] f = "one" -> 1 [] OTHER -> loc[p][f], queue |-> <<>>]]
  /\ UNCHANGED <<st, loc, intr, heap, rounds, shm, asked, misrouted, halted>>

\* The process goes on after the call when it is woken.
wait_ksemaphore(p) ==
  /\ At(p, "kwait") /\ Goto(p, 1)
  /\ LET s == sem[Instr(p).k]
     IN IF s.count > 0
        THEN sem' = [sem EXCEPT ![Instr(p).k].count = @ - 1] /\ UNCHANGED st
        ELSE /\ sem' = [sem EXCEPT ![Instr(p).k] = [count |-> s.count - 1, queue |-> Append(s.queue, p)]]
             /\ st' = [st EXCEPT ![p] = "blocked"]
  /\ UNCHANGED <<loc, intr, heap, rounds, shm, asked, misrouted, halted>>

\* Mutant: the last of the waiting processes is not woken.
signal_ksemaphore_below(p) ==
  /\ At(p, "ksignal") /\ Goto(p, 1)
  /\ LET s == sem[Instr(p).k]
     IN IF s.count + 1 >= 0
        THEN sem' = [sem EXCEPT ![Instr(p).k].count = @ + 1] /\ UNCHANGED st
        ELSE /\ sem' = [sem EXCEPT ![Instr(p).k] = [count |-> s.count + 1, queue |-> Tail(s.queue)]]
             /\ st' = [st EXCEPT ![Head(s.queue)] = "ready"]
  /\ UNCHANGED <<loc, intr, heap, rounds, shm, asked, misrouted, halted>>

signal_ksemaphore(p) ==
  /\ At(p, "ksignal") /\ Goto(p, 1)
  /\ LET s == sem[Instr(p).k]
     IN IF s.count + 1 > 0
        THEN sem' = [sem EXCEPT ![Instr(p).k].count = @ + 1] /\ UNCHANGED st
        ELSE /\ sem' = [sem EXCEPT ![Instr(p).k] = [count |-> s.count + 1, queue |-> Tail(s.queue)]]
             /\ st' = [st EXCEPT ![Head(s.queue)] = "ready"]
  /\ UNCHANGED <<loc, intr, heap, rounds, shm, asked, misrouted, halted>>

GetCount(p) ==
  /\ At(p, "kget") /\ Goto(p, 1)
  /\ Bind(p, Instr(p).x, sem[Instr(p).k].count)
  /\ UNCHANGED <<st, intr, heap, rounds, sem, shm, asked, misrouted, halted>>
-----------------------------------------------------------------------------
Start(started) ==
  LET all == started \cup UNION {Slaves(p) : p \in started}
  IN /\ st = [p \in all |-> IF p \in started THEN "ready" ELSE "none"]
     /\ pc = [p \in all |-> 1]
     /\ loc = [p \in all |-> <<>>]
     /\ intr = [p \in all |-> TRUE]
     /\ heap = [p \in all |-> 0]
     /\ rounds = [p \in all |-> 0]
     /\ cpu = Nobody
     /\ sem = [k \in 0 .. 2 |-> [count |-> 0, queue |-> <<>>]]
     /\ shm = <<>>
     /\ asked = Nobody /\ misrouted = FALSE /\ halted = FALSE

Init == \E started \in Scenarios : Start(started)

Step(p) ==
  \/ cons_lock(p) \/ cons_unlock(p) \/ Question(p) \/ readline(p)
  \/ Compute(p) \/ Branch(p) \/ LoopBack(p) \/ Check(p) \/ create_semaphore(p) \/ exit(p)
  \/ malloc(p) \/ free(p) \/ sys_create_env(p) \/ sys_run_env(p)
  \/ smalloc(p) \/ sget(p) \/ LoadShared(p) \/ StoreShared(p) \/ BusyWait(p)
  \/ init_uspinlock(p) \/ acquire_uspinlock(p) \/ release_uspinlock(p)
  \/ init_ksemaphore(p) \/ wait_ksemaphore(p) \/ signal_ksemaphore(p) \/ GetCount(p)

Next == \E p \in DOMAIN st : Step(p) /\ cpu' = IF Keeps(p) THEN p ELSE Nobody

\* Where a step is possible: only the loops that wait hold a process back.
CanStep(p) ==
  /\ st[p] = "ready" /\ ~halted /\ cpu \in {p, Nobody}
  /\ LET i == Instr(p)
     IN /\ i.op = "spin" => shm[loc[p][i.x]] = <<i.n>>
        /\ i.op = "acquire" => shm[loc[p][i.x]] = <<0>>

\* Weak fairness of Next, with CanStep for its guard: the CPU does not stop
\* while a process can go on.
Fairness == []<>(\A p \in DOMAIN st : ~CanStep(p)) \/ []<><<TRUE>>_vars

Spec == Init /\ [][Next]_vars /\ Fairness
-----------------------------------------------------------------------------
(* No program of the scenarios fails, however they are interleaved: none    *)
(* panics, uses a null pointer or reads a shared variable that nobody has   *)
(* written, and no answer typed at the console goes to a program that had   *)
(* not asked for it; the spin locks of midterm order A before B, so X ends  *)
(* as 11, and the counts of tst_ksem2 come out right.  Two cases are no     *)
(* part of it: the statistics slave of arrop is killed by its access to     *)
(* Elements[-1] when there are no elements, and the programs that ask the   *)
(* library for a semaphore end in its "not implemented yet".                *)
ScenariosSound ==
  /\ \A p \in DOMAIN st :
       /\ st[p] \notin {"panicked", "garbage"}
       /\ st[p] = "faulted" => p = "slave_stats" /\ loc["arrop"]["N"] = 0
  /\ ~misrouted
  /\ "midterm" \in DOMAIN st /\ "final" \in DOMAIN loc["midterm"] /\ loc["midterm"]["prot"] = 2
       => loc["midterm"]["final"] = 11
  /\ "tst_ksem2" \in DOMAIN st /\ "right" \in DOMAIN loc["tst_ksem2"] => loc["tst_ksem2"]["right"]

(* qs1, ms1 and ef_ms1, which user_programs.c lists "with NO memory         *)
(* leakage", and the other programs that free what they take hold no block  *)
(* of the heap when they exit, after any number of repetitions.             *)
NoLeakage ==
  \A p \in DOMAIN st \cap {"qs1", "ms1", "matops", "ef_ms1", "fib_loop", "fib_memomize", "fos_alloc"} :
    st[p] = "exited" => heap[p] = 0

(* Every program that is started ends, with those it starts.  There are     *)
(* three exceptions, all of them for answers that the programs take.  The   *)
(* kernel panics on the divide error of a semi random array of one or two   *)
(* elements, in the programs that do not guard it.  The master of arrop     *)
(* waits for ever for the slave that died of an array of no elements.  And  *)
(* nobody gets into a shop of capacity 0, so that tst_ksem2 waits for its   *)
(* customers.                                                               *)
Unguarded == {"ms1", "ms2", "arrop"}
Forsaken(p) ==
  \/ p = "arrop" /\ loc[p]["N"] = 0 /\ st["slave_stats"] = "faulted"
  \/ p \in {"tst_ksem2"} \cup Slaves("tst_ksem2") /\ loc["tst_ksem2"]["capacity"] = 0
ScenariosFinish ==
  <>(\/ \A p \in DOMAIN st : st[p] \in Ended \cup {"none"} \/ (st[p] = "blocked" /\ Forsaken(p))
     \/ halted /\ \E p \in DOMAIN st \cap Unguarded : loc[p]["Chose"] = "c" /\ loc[p]["N"] \in 1 .. 2)
=============================================================================
