----------------------------- MODULE MCUserland -----------------------------
(***************************************************************************)
(* The user side on small instances: the programs run together, the way    *)
(* from the keyboard to a command, and the library, the algorithms and the *)
(* system calls on one input each.  The parts share no state, so that a    *)
(* behaviour belongs to one of them and the states are the sum of theirs.  *)
(***************************************************************************)
EXTENDS Programs

SmallA == 97
SmallB == 98

\* The keys of one behaviour and how many of them are pressed.
MCKeySets ==
  {[set |-> {"a", "enter", "up", "down"}, max |-> 5],
   [set |-> {"a", "b", "space", "tab", "enter"}, max |-> 4],
   [set |-> {"a", "left", "right", "del", "bs"}, max |-> 4],
   [set |-> {"a", "bs", "del", "enter"}, max |-> 4],
   [set |-> {"run", "serial", "bs", "enter"}, max |-> 5],
   [set |-> {"a", "shiftdown", "shiftup", "caps"}, max |-> 4],
   [set |-> {"a", "ctldown", "ctlup", "enter", "space"}, max |-> 4],
   [set |-> {"pad8", "num", "b"}, max |-> 3]}

CONSTANTS Rows, Cols, ConsBufSize, BufLen, HistoryMax, WireMax
VARIABLES wire, com, shift, ring, crt, mode, ed, history, PrefixList, keys, pressed, pending, lost,
          ref, plain, entered
C == INSTANCE Console WITH
       Commands <- <<<<SmallA>>, <<SmallA, SmallB>>, <<SmallB>>>>,
       ProgramNames <- <<<<SmallB>>, <<SmallB, SmallA>>>>,
       Tests <- <<<<SmallA>>>>,
       RunWord <- <<SmallA>>,
       LoadWord <- <<SmallA, SmallB>>,
       TstWord <- <<SmallB>>,
       PromptText <- <<62>>,
       Garbage <- {<<>>, <<SmallA>>},
       KeySets <- MCKeySets

cvars == <<wire, com, shift, ring, crt, mode, ed, history, PrefixList, keys, pressed, pending, lost,
           ref, plain, entered>>

L == INSTANCE Strings
Y == INSTANCE Syscalls

VARIABLE input

\* Programs that run at the same time.
MCScenarios ==
  {{"qs1", "fib_loop"}, {"ms1", "fact"}, {"qs2", "mergesort"}, {"ms2", "ef_ms1"}, {"ef_ms2", "fib"},
   {"matops"}, {"arrop"}, {"midterm"}, {"tst_ksem1"}, {"tst_ksem2"}, {"cnc", "ef_midterm"},
   {"fib_memomize", "fos_input"}, {"fos_alloc", "priRR_fib_small"}}

NoKeys == [set |-> {}, max |-> 0]

UpTo(S, n) == UNION {[1 .. k -> S] : k \in 0 .. n}
StringInputs ==
  {[kind |-> "number", v |-> v, width |-> w, bits |-> 8] : v \in -128 .. 127, w \in 0 .. 4} \cup
  {[kind |-> "copy", m |-> [a \in 0 .. 9 |-> a + 1], dst |-> d, src |-> s, n |-> n, w |-> 3] :
     d \in 0 .. 4, s \in 0 .. 4, n \in 0 .. 5} \cup
  {[kind |-> "texts", s |-> s, t |-> t] : s \in UpTo({97, 98}, 3), t \in UpTo({97, 98}, 3)} \cup
  {[kind |-> "split", s |-> s, seps |-> {32, 64}, max |-> 3] : s \in UpTo({32, 64, 97}, 5)} \cup
  {[kind |-> "format", s |-> s, width |-> w, n |-> n, bits |-> 8] :
     s \in UpTo({97, 98}, 3), w \in 0 .. 4, n \in 0 .. 4}
ArrayInputs ==
  UNION {{[kind |-> "array", a |-> a, n |-> n] : a \in [0 .. n - 1 -> 0 .. 2]} : n \in 0 .. 5} \cup
  {[kind |-> "matrix", m |-> m, n |-> 2, bits |-> 2] : m \in [0 .. 1 -> [0 .. 1 -> -2 .. 1]]} \cup
  {[kind |-> "fibonacci", n |-> n] : n \in 0 .. 12}
CallInputs == {[kind |-> "call", f |-> f] : f \in DOMAIN Y!AllStubs}
NoInput == [kind |-> "none"]

Idle == Start({})
ConsoleIdle == C!Start(NoKeys, 0)

MCInit ==
  \/ Init /\ ConsoleIdle /\ input = NoInput
  \/ Idle /\ input = NoInput /\ C!Init
  \/ Idle /\ ConsoleIdle /\ input \in StringInputs \cup ArrayInputs \cup CallInputs

MCNext ==
  \/ Next /\ UNCHANGED <<cvars, input>>
  \/ C!Next /\ UNCHANGED <<vars, input>>

MCSpec == MCInit /\ [][MCNext]_<<vars, cvars, input>> /\ Fairness

\* The routines of lib/string.c and lib/printfmt.c, and the sorts, selections, statistics, matrix
\* operations and number programs of user/, return on every input what their reference definitions
\* say: StringsAgree in module Strings and AlgorithmsAgree in module Sorting.
AlgorithmsCorrect ==
  /\ input.kind \in {"number", "copy", "texts", "split", "format"} => L!StringsAgree(input)
  /\ input.kind \in {"array", "matrix", "fibonacci"} => AlgorithmsAgree(input)

\* A call of a stub of lib/syscall.c reaches the kernel function of that name in kern/trap/syscall.c,
\* with every argument under the parameter it was meant for and the right result: see
\* StubsReachHandlers in module Syscalls.
CallsReachHandlers == input.kind = "call" => Y!StubsReachHandlers(input.f)

\* What is typed is read once and in order, shown, handed over and remembered as typed, from the
\* interrupt handlers of kern/cons/console.c to the readlines: see LinesFaithful in module Console.
LinesFaithful == C!LinesFaithful
=============================================================================
