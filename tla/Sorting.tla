------------------------------ MODULE Sorting ------------------------------
(***************************************************************************)
(* The algorithms of the user programs: the two sorts, the selection of    *)
(* the k-th element, the statistics, the matrix operations and the number  *)
(* programs.  An array of n elements is a function on 0 .. n-1, as in C.   *)
(***************************************************************************)
EXTENDS Integers, Sequences, FiniteSets, FiniteSetsExt

Index(n) == 0 .. n - 1
Trap == <<"divide error">>

\* C division rounds towards zero.
Quotient(a, b) == IF a >= 0 THEN a \div b ELSE -((-a) \div b)
-----------------------------------------------------------------------------
(* Filling an array.  Only some of the programs replace a repetition of 0.  *)

InitializeAscending(n) == [i \in Index(n) |-> i]
InitializeDescending(n) == [i \in Index(n) |-> n - i - 1]

SemiRandom(n, repetition) ==
  IF repetition = 0 /\ n > 0 THEN Trap ELSE [i \in Index(n) |-> i % repetition]

InitializeSemiRandom(n) == SemiRandom(n, IF n \div 3 = 0 THEN 3 ELSE n \div 3)
InitializeSemiRandomUnguarded(n) == SemiRandom(n, n \div 3)

CheckSorted(a, n) == \A i \in Index(n - 1) : a[i] <= a[i + 1]
Swap(a, i, j) == [a EXCEPT ![i] = a[j], ![j] = a[i]]
-----------------------------------------------------------------------------
(* Quick sort.  The pivot is Elements[s]; i and j walk towards each other.  *)

StopUp(a, s, f, i) == Min({k \in i .. f : a[s] < a[k]} \cup {f + 1})
StopDown(a, s, j) == Max({k \in s + 1 .. j : a[s] > a[k]} \cup {s})

RECURSIVE Partition(_, _, _, _, _)
Partition(a, s, f, i, j) ==
  IF i > j THEN [a |-> Swap(a, s, j), i |-> i, j |-> j]
  ELSE LET i2 == StopUp(a, s, f, i)
           j2 == StopDown(a, s, j)
       IN Partition(IF i2 <= j2 THEN Swap(a, i2, j2) ELSE a, s, f, i2, j2)

RECURSIVE QSort(_, _, _)
QSort(a, s, f) ==
  IF s >= f THEN a
  ELSE LET p == Partition(a, s, f, s + 1, f)
       IN QSort(QSort(p.a, s, p.j - 1), p.i, f)

QuickSort(a, n) == QSort(a, 0, n - 1)

\* RANDU(s, f) is in s .. f-1: the arrays that the draws can lead to.
RECURSIVE QSortDrawn(_, _, _)
QSortDrawn(a, s, f) ==
  IF s >= f THEN {a}
  ELSE UNION {LET p == Partition(Swap(a, s, v), s, f, s + 1, f)
              IN UNION {QSortDrawn(b, p.i, f) : b \in QSortDrawn(p.a, s, p.j - 1)} :
              v \in s .. f - 1}
-----------------------------------------------------------------------------
(* The k-th element: one side of the partition only, and a j that stops at  *)
(* elements equal to the pivot.                                             *)

StopDownSelect(a, s, j) == Max({k \in s + 1 .. j : a[s] >= a[k]} \cup {s})

RECURSIVE PartitionSelect(_, _, _, _, _)
PartitionSelect(a, s, f, i, j) ==
  IF i > j THEN [a |-> Swap(a, s, j), i |-> i, j |-> j]
  ELSE LET i2 == StopUp(a, s, f, i)
           j2 == StopDownSelect(a, s, j)
       IN PartitionSelect(IF i2 <= j2 THEN Swap(a, i2, j2) ELSE a, s, f, i2, j2)

RECURSIVE QSelect(_, _, _, _)
QSelect(a, s, f, k) ==
  IF s >= f THEN {a[f]}
  ELSE UNION {LET p == PartitionSelect(Swap(a, s, v), s, f, s + 1, f)
              IN IF k = p.j THEN {p.a[k]}
                 ELSE IF k < p.j THEN QSelect(p.a, s, p.j - 1, k)
                 ELSE QSelect(p.a, p.i, f, k) :
              v \in s .. f - 1}

KthElement(a, n, k) == QSelect(a, 0, n - 1, k - 1)
-----------------------------------------------------------------------------
(* Merge sort on the positions p .. r, which count from 1.                  *)

RECURSIVE Merge(_, _, _)
Merge(left, right, out) ==
  IF left = <<>> THEN out \o right
  ELSE IF right = <<>> THEN out \o left
  ELSE IF Head(left) < Head(right) THEN Merge(Tail(left), right, Append(out, Head(left)))
  ELSE Merge(left, Tail(right), Append(out, Head(right)))

Slice(a, p, r) == [k \in 1 .. r - p + 1 |-> a[p + k - 2]]

RECURSIVE MSort(_, _, _)
MSort(a, p, r) ==
  IF p >= r THEN a
  ELSE LET q == (p + r) \div 2
           b == MSort(MSort(a, p, q), q + 1, r)
           m == Merge(Slice(b, p, q), Slice(b, q + 1, r), <<>>)
       IN [i \in DOMAIN b |-> IF i + 1 \in p .. r THEN m[i + 2 - p] ELSE b[i]]

\* Merge takes two blocks from the heap; so many are taken by one MSort.
RECURSIVE MergeBlocks(_, _)
MergeBlocks(p, r) ==
  IF p >= r THEN 0
  ELSE LET q == (p + r) \div 2 IN 2 + MergeBlocks(p, q) + MergeBlocks(q + 1, r)
-----------------------------------------------------------------------------
(* Statistics.                                                              *)

ArrayMean(a, n) == Quotient(MapThenSumSet(LAMBDA i : a[i], Index(n)), n)
ArrayVar(a, n) ==
  LET mean == ArrayMean(a, n)
  IN Quotient(MapThenSumSet(LAMBDA i : (a[i] - mean) * (a[i] - mean), Index(n)), n)

\* The master computes the mean and the variance again.
ArrayStats(a, n) == IF n = 0 THEN Trap ELSE <<ArrayMean(a, n), ArrayVar(a, n)>>

\* The slave's, for n > 0: with no elements KthElement reads before the array.  The median is a set
\* because the pivots are drawn.
ArrayStatsSlave(a, n) ==
  [mean |-> ArrayMean(a, n), var |-> ArrayVar(a, n),
   min |-> Min({a[i] : i \in Index(n)}), max |-> Max({a[i] : i \in Index(n)}),
   med |-> KthElement(a, n, (n + 1) \div 2)]
-----------------------------------------------------------------------------
(* Matrices of int, which has `bits` bits; the sums are int64.              *)

IdenticalMatrix(n, value) == [i \in Index(n) |-> [j \in Index(n) |-> value]]
AscendingMatrix(n) == [i \in Index(n) |-> [j \in Index(n) |-> j]]

ToInt(x, bits) ==
  LET u == x % 2 ^ bits IN IF u >= 2 ^ (bits - 1) THEN u - 2 ^ bits ELSE u

MatrixMultiply(m1, m2, n, bits) ==
  [i \in Index(n) |-> [j \in Index(n) |->
     MapThenSumSet(LAMBDA k : ToInt(m1[i][k] * m2[k][j], bits), Index(n))]]
MatrixAddition(m1, m2, n, bits) ==
  [i \in Index(n) |-> [j \in Index(n) |-> ToInt(m1[i][j] + m2[i][j], bits)]]
MatrixSubtraction(m1, m2, n, bits) ==
  [i \in Index(n) |-> [j \in Index(n) |-> ToInt(m1[i][j] - m2[i][j], bits)]]
-----------------------------------------------------------------------------
(* The number programs.                                                     *)

RECURSIVE factorial(_)
factorial(n) == IF n <= 1 THEN 1 ELSE n * factorial(n - 1)

RECURSIVE fibonacci(_)
fibonacci(n) == IF n <= 1 THEN 1 ELSE fibonacci(n - 1) + fibonacci(n - 2)

\* fib_loop: memo[0 .. n], filled upwards.
fibonacci_loop(n) ==
  LET memo[i \in 0 .. n] == IF i <= 1 THEN 1 ELSE memo[i - 1] + memo[i - 2] IN memo[n]

\* fib_memomize: an entry that is not 0 is returned as it is.
RECURSIVE Memoized(_, _)
Memoized(n, memo) ==
  IF memo[n] # 0 THEN memo
  ELSE IF n <= 1 THEN [memo EXCEPT ![n] = 1]
  ELSE LET m1 == Memoized(n - 1, memo)
           m2 == Memoized(n - 2, m1)
       IN [m2 EXCEPT ![n] = m2[n - 1] + m2[n - 2]]

fibonacci_memo(n) == Memoized(n, [i \in 0 .. n |-> 0])[n]
-----------------------------------------------------------------------------
(* What the algorithms are to compute.                                      *)

Occurrences(a, x) == Cardinality({i \in DOMAIN a : a[i] = x})
Permuted(a, b) == DOMAIN a = DOMAIN b /\ \A i \in DOMAIN a : Occurrences(a, a[i]) = Occurrences(b, a[i])

\* The sorts sort, whatever pivots are drawn; the k-th element is the k-th smallest; and what the
\* slave computes of the array the master finds in the sorted one.
ArrayAgrees(a, n) ==
  LET s == QuickSort(a, n)
  IN /\ CheckSorted(s, n) /\ Permuted(a, s)
     /\ MSort(a, 1, n) = s
     /\ QSortDrawn(a, 0, n - 1) = {s}
     /\ \A k \in 1 .. n : KthElement(a, n, k) = {s[k - 1]}
     /\ n > 0 => LET stats == ArrayStatsSlave(a, n)
                 IN /\ <<stats.mean, stats.var>> = ArrayStats(s, n)
                    /\ stats.min = s[0] /\ stats.max = s[n - 1]
                    /\ stats.med = {s[(n + 1) \div 2 - 1]}

\* Sums and differences undo each other, also where they leave the range of int; a product with
\* equal columns has equal columns.
MatrixAgrees(m1, m2, n, bits) ==
  /\ MatrixSubtraction(MatrixAddition(m1, m2, n, bits), m2, n, bits) = m1
  /\ \A i \in Index(n), value \in 0 .. 1 :
       LET p == MatrixMultiply(m1, IdenticalMatrix(n, value), n, bits)
       IN \A j \in Index(n) : p[i][j] = p[i][0]

\* The three ways to the numbers of Fibonacci agree.
FibonacciAgrees(n) ==
  /\ fibonacci(n) = fibonacci_loop(n)
  /\ fibonacci(n) = fibonacci_memo(n)

AlgorithmsAgree(in) ==
  CASE in.kind = "array" -> ArrayAgrees(in.a, in.n)
    [] in.kind = "matrix" -> MatrixAgrees(in.m, AscendingMatrix(in.n), in.n, in.bits)
    [] in.kind = "fibonacci" -> FibonacciAgrees(in.n)
=============================================================================
