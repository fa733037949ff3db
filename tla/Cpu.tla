-------------------------------- MODULE Cpu --------------------------------
(***************************************************************************)
(* The CPU-local state of kern/cpu/cpu.c and the kernel spinlocks of       *)
(* kern/conc/kspinlock.c, as operators on one record c (struct cpu plus    *)
(* the hardware flags the code reads):                                     *)
(*   proc    mycpu()->proc, the environment on the CPU, or NULL            *)
(*   ncli    depth of pushcli nesting                                      *)
(*   intena  were interrupts enabled before the outermost pushcli?         *)
(*   ien     the interrupt flag FL_IF of EFLAGS                            *)
(*   clk     is IRQ0, the clock, unmasked (kclock_resume / kclock_stop)?   *)
(*   held    the kspinlocks that are locked                                *)
(*   panic   has a check of the kernel failed?                             *)
(* There is one CPU (mycpu() returns &CPUS[0]), so a lock that is locked   *)
(* is held by this CPU: holding_kspinlock(lk) is  lk \in c.held,  and the  *)
(* xchg loop of acquire_kspinlock never spins.                             *)
(***************************************************************************)
EXTENDS Integers

CONSTANTS Env,   \* the environments (processes)
          NULL   \* no environment

ASSUME NullAssumption == NULL \notin Env

Locks == {"qlock", "lk"}   \* ProcessQueues.qlock and the guard of one object

Cpus == [proc: Env \cup {NULL}, ncli: Nat, intena: BOOLEAN, ien: BOOLEAN,
         clk: BOOLEAN, held: SUBSET Locks, panic: BOOLEAN]

BootCpu == [proc |-> NULL, ncli |-> 0, intena |-> FALSE, ien |-> FALSE,
            clk |-> FALSE, held |-> {}, panic |-> FALSE]

Panicked(c) == [c EXCEPT !.panic = TRUE]

kclock_stop(c) == [c EXCEPT !.clk = FALSE]

kclock_resume(c) == [c EXCEPT !.clk = TRUE]

\* Mutant: forgets to test for the outermost call before saving IF.
pushcliEverySave(c) ==
  [c EXCEPT !.intena = c.ien, !.ncli = @ + 1, !.ien = FALSE]

pushcli(c) ==
  [c EXCEPT !.intena = IF c.ncli = 0 THEN c.ien ELSE c.intena,
            !.ncli = @ + 1, !.ien = FALSE]

popcli(c) ==
  IF c.ien \/ c.ncli = 0
    THEN Panicked(c)
    ELSE [c EXCEPT !.ncli = @ - 1, !.ien = (c.ncli = 1 /\ c.intena)]

holding_kspinlock(c, lk) == lk \in c.held

acquire_kspinlock(c, lk) ==
  IF holding_kspinlock(c, lk)
    THEN Panicked(c)
    ELSE [pushcli(c) EXCEPT !.held = @ \cup {lk}]

release_kspinlock(c, lk) ==
  IF ~holding_kspinlock(c, lk)
    THEN Panicked(c)
    ELSE popcli([c EXCEPT !.held = @ \ {lk}])
=============================================================================
