--------------------------- MODULE SemaphoreSpec ---------------------------
(***************************************************************************)
(* What a counting semaphore promises: wait takes a unit at once or queues *)
(* the caller; signal hands its unit to the process that has waited        *)
(* longest, or stores it when nobody waits; a process goes on after its    *)
(* wait only once it owns a unit.                                          *)
(***************************************************************************)
EXTENDS Naturals, Sequences

CONSTANTS Proc,      \* the processes that use the semaphore
          Initial    \* its initial value

VARIABLES value,     \* units nobody owns
          waiting,   \* the processes that wait, in the order they came
          granted    \* processes given a unit by a wait that has not returned

vars == <<value, waiting, granted>>

Init == value = Initial /\ waiting = <<>> /\ granted = {}

IsWaiting(p) == \E i \in 1..Len(waiting) : waiting[i] = p

Wait(p) ==
  /\ ~IsWaiting(p) /\ p \notin granted
  /\ IF value > 0
       THEN value' = value - 1 /\ granted' = granted \cup {p} /\ UNCHANGED waiting
       ELSE waiting' = Append(waiting, p) /\ UNCHANGED <<value, granted>>

Signal ==
  IF waiting = <<>>
    THEN value' = value + 1 /\ UNCHANGED <<waiting, granted>>
    ELSE /\ waiting' = Tail(waiting)
         /\ granted' = granted \cup {Head(waiting)}
         /\ UNCHANGED value

Return(p) ==
  p \in granted /\ granted' = granted \ {p} /\ UNCHANGED <<value, waiting>>

Next == Signal \/ \E p \in Proc : Wait(p) \/ Return(p)

Spec == Init /\ [][Next]_vars
=============================================================================
