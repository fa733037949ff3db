------------------------------- MODULE Sched -------------------------------
(***************************************************************************)
(* Context switching under the round-robin scheduler: fos_scheduler and    *)
(* fos_scheduler_RR (kern/cpu/sched.c), sched, yield, env_start and        *)
(* env_exit (kern/proc/user_environment.c), and the part of trap()         *)
(* (kern/trap/trap.c) that turns interrupts and the clock off and on.      *)
(*                                                                         *)
(* Each kernel thread takes one step per call it makes; between two steps  *)
(* an interrupt may arrive whenever ien allows it.  Mutual exclusion is    *)
(* therefore a consequence of the pushcli/popcli discipline, never an      *)
(* assumption of the model.                                                *)
(***************************************************************************)
EXTENDS Cpu, Sequences, FiniteSets

VARIABLES
  cpu,      \* the record of module Cpu
  spc,      \* where the scheduler's own thread is inside fos_scheduler
  status,   \* env_status of each environment
  ready,    \* ProcessQueues.env_ready_queues[0]: FIFO, head = next dequeued
  saved,    \* the local variable intena of each thread's pending sched()
  irq,      \* each thread's progress inside a clock interrupt, or "none"
  pc        \* each thread's position in the kernel code, or "user"

schedVars == <<cpu, spc, status, ready, saved, irq, pc>>

ASSUME EnvAssumption == IsFiniteSet(Env)   \* the envs table has NENV entries

SchedPcs == {"sti", "acquire", "pick", "switched", "returned", "scan", "prompt"}
Statuses == {"READY", "RUNNING", "BLOCKED", "EXIT"}
IrqPcs == {"none", "yield", "yield_sched", "yield_ret", "iret"}

SchedTypeOK(Pcs) ==
  /\ cpu \in Cpus
  /\ spc \in SchedPcs
  /\ status \in [Env -> Statuses]
  /\ ready \in Seq(Env)
  /\ saved \in [Env -> BOOLEAN]
  /\ irq \in [Env -> IrqPcs]
  /\ pc \in [Env -> Pcs]

\* The orders in which sched_run_all may have filled the ready queue.
Orders == {s \in [1..Cardinality(Env) -> Env] :
             /\ \A i, j \in 1..Cardinality(Env) : s[i] = s[j] => i = j
             /\ \A e \in Env : \E i \in 1..Cardinality(Env) : s[i] = e}

\* run_all at the prompt: every environment is READY and the scheduler starts.
SchedInit ==
  /\ cpu = BootCpu
  /\ spc = "sti"
  /\ status = [e \in Env |-> "READY"]
  /\ ready \in Orders
  /\ saved = [e \in Env |-> FALSE]
  /\ irq = [e \in Env |-> "none"]
  /\ pc = [e \in Env |-> "new"]

Running(e) == spc = "switched" /\ cpu.proc = e /\ ~cpu.panic

\* e executes its own code, not an interrupt handler.
At(e, label) == Running(e) /\ irq[e] = "none" /\ pc[e] = label

Goto(e, label) == pc' = [pc EXCEPT ![e] = label]
-----------------------------------------------------------------------------
(* The scheduler thread. *)

SchedSti ==
  /\ spc = "sti" /\ ~cpu.panic
  /\ cpu' = [cpu EXCEPT !.ien = TRUE]
  /\ spc' = "acquire"
  /\ UNCHANGED <<status, ready, saved, irq, pc>>

SchedAcquire ==
  /\ spc = "acquire" /\ ~cpu.panic
  /\ cpu' = acquire_kspinlock(cpu, "qlock")
  /\ spc' = "pick"
  /\ UNCHANGED <<status, ready, saved, irq, pc>>

\* fos_scheduler_RR re-queues the environment that just gave up the CPU and
\* takes the next one; kclock_set_quantum leaves the clock masked.
RequeuedRR == IF cpu.proc = NULL THEN ready ELSE Append(ready, cpu.proc)

SchedPick ==
  /\ spc = "pick" /\ ~cpu.panic
  /\ IF RequeuedRR = <<>>
       THEN /\ cpu' = kclock_stop(cpu)
            /\ spc' = "scan"
            /\ UNCHANGED <<status, ready>>
       ELSE /\ cpu' = [kclock_stop(cpu) EXCEPT !.proc = Head(RequeuedRR)]
            /\ spc' = "switched"
            /\ status' = [status EXCEPT ![Head(RequeuedRR)] = "RUNNING"]
            /\ ready' = Tail(RequeuedRR)
  /\ UNCHANGED <<saved, irq, pc>>

SchedReturn ==
  /\ spc = "returned" /\ ~cpu.panic
  /\ cpu' = IF ~holding_kspinlock(cpu, "qlock") \/ status[cpu.proc] = "RUNNING"
              THEN Panicked(cpu)
              ELSE IF status[cpu.proc] = "READY"
                     THEN kclock_stop(cpu)
                     ELSE [kclock_stop(cpu) EXCEPT !.proc = NULL]
  /\ spc' = "pick"
  /\ UNCHANGED <<status, ready, saved, irq, pc>>

\* No environment is runnable: wait for a BLOCKED one, or go to the prompt.
SchedScan ==
  /\ spc = "scan" /\ ~cpu.panic
  /\ IF \E e \in Env : status[e] = "BLOCKED"
       THEN cpu' = release_kspinlock(cpu, "qlock") /\ spc' = "sti"
       ELSE /\ cpu' = [release_kspinlock(cpu, "qlock") EXCEPT
                         !.ien = FALSE, !.ncli = 0, !.intena = FALSE, !.proc = NULL]
            /\ spc' = "prompt"
  /\ UNCHANGED <<status, ready, saved, irq, pc>>

\* Every environment has exited and the prompt waits for a command.
Prompt == spc = "prompt" /\ UNCHANGED schedVars

SchedulerStep == SchedSti \/ SchedAcquire \/ SchedPick \/ SchedReturn \/ SchedScan
-----------------------------------------------------------------------------
(* sched(): the checks, the save of intena, and the switch to the scheduler *)
(* thread.  c is the CPU and st the status array at the call.               *)

sched(e, c, st) ==
  /\ status' = st
  /\ IF \/ ~holding_kspinlock(c, "qlock") \/ c.ncli # 1
        \/ st[e] = "RUNNING" \/ c.ien
       THEN cpu' = Panicked(c) /\ UNCHANGED <<spc, saved>>
       ELSE /\ cpu' = c
            /\ spc' = "returned"
            /\ saved' = [saved EXCEPT ![e] = c.intena]

\* Mutant: the thread keeps whatever intena the previous thread left.
sched_resumedKeepingIntena(e) == cpu

\* The CPU as the thread sees it when its sched() returns.
sched_resumed(e) == [cpu EXCEPT !.intena = saved[e]]
-----------------------------------------------------------------------------
(* Interrupts.  The interrupt gate clears IF; trap() masks the clock on     *)
(* entry and unmasks it on the way out.                                     *)

ClockInterrupt(e) ==
  /\ Running(e) /\ irq[e] = "none" /\ cpu.ien /\ cpu.clk
  /\ cpu' = [kclock_stop(cpu) EXCEPT !.ien = FALSE]
  /\ irq' = [irq EXCEPT ![e] = "yield"]
  /\ UNCHANGED <<spc, status, ready, saved, pc>>

YieldAcquire(e) ==
  /\ Running(e) /\ irq[e] = "yield"
  /\ cpu' = acquire_kspinlock(cpu, "qlock")
  /\ irq' = [irq EXCEPT ![e] = "yield_sched"]
  /\ UNCHANGED <<spc, status, ready, saved, pc>>

YieldSched(e) ==
  /\ Running(e) /\ irq[e] = "yield_sched"
  /\ sched(e, cpu, [status EXCEPT ![e] = "READY"])
  /\ irq' = [irq EXCEPT ![e] = "yield_ret"]
  /\ UNCHANGED <<ready, pc>>

YieldReturn(e) ==
  /\ Running(e) /\ irq[e] = "yield_ret"
  /\ cpu' = release_kspinlock(sched_resumed(e), "qlock")
  /\ irq' = [irq EXCEPT ![e] = "iret"]
  /\ UNCHANGED <<spc, status, ready, saved, pc>>

\* trap() asserts IEN == 0, resumes the clock, and iret restores EFLAGS.
TrapReturn(e) ==
  /\ Running(e) /\ irq[e] = "iret"
  /\ cpu' = IF cpu.ien THEN Panicked(cpu)
                       ELSE [kclock_resume(cpu) EXCEPT !.ien = TRUE]
  /\ irq' = [irq EXCEPT ![e] = "none"]
  /\ UNCHANGED <<spc, status, ready, saved, pc>>

\* Any other interrupt, the keyboard's for one, comes and goes in one step:
\* its handler runs with interrupts off and its trap() resumes the clock.
OtherInterrupt ==
  /\ cpu.ien /\ ~cpu.clk /\ ~cpu.panic
  /\ cpu' = kclock_resume(cpu)
  /\ UNCHANGED <<spc, status, ready, saved, irq, pc>>

InterruptStep(e) ==
  \/ ClockInterrupt(e) \/ YieldAcquire(e) \/ YieldSched(e)
  \/ YieldReturn(e) \/ TrapReturn(e)
-----------------------------------------------------------------------------
(* A thread's own steps that are not part of a synchronisation object.      *)

\* env_start: a new thread starts holding the scheduler's qlock.
EnvStart(e) ==
  /\ At(e, "new")
  /\ cpu' = release_kspinlock(cpu, "qlock")
  /\ Goto(e, "trapret")
  /\ UNCHANGED <<spc, status, ready, saved, irq>>

\* trapret: iret into user mode.
TrapRet(e) ==
  /\ At(e, "trapret")
  /\ cpu' = [cpu EXCEPT !.ien = TRUE]
  /\ Goto(e, "user")
  /\ UNCHANGED <<spc, status, ready, saved, irq>>

\* The user program traps; trap_dispatch re-enables interrupts and the clock.
SyscallTo(e, label) ==
  /\ At(e, "user")
  /\ cpu' = [kclock_resume(cpu) EXCEPT !.ien = TRUE]
  /\ Goto(e, label)
  /\ UNCHANGED <<spc, status, ready, saved, irq>>

\* The end of trap_dispatch and of trap(), and the iret to user mode.
SysRet(e) ==
  /\ At(e, "sysret")
  /\ cpu' = [kclock_resume(cpu) EXCEPT !.ien = TRUE]
  /\ Goto(e, "user")
  /\ UNCHANGED <<spc, status, ready, saved, irq>>

\* env_exit -> sched_exit_env of the current environment.
ExitAcquire(e) ==
  /\ At(e, "exit")
  /\ cpu' = acquire_kspinlock(cpu, "qlock")
  /\ Goto(e, "exit_sched")
  /\ UNCHANGED <<spc, status, ready, saved, irq>>

ExitSched(e) ==
  /\ At(e, "exit_sched")
  /\ sched(e, cpu, [status EXCEPT ![e] = "EXIT"])
  /\ Goto(e, "dead")
  /\ UNCHANGED <<ready, irq>>

ThreadStep(e) ==
  EnvStart(e) \/ TrapRet(e) \/ SysRet(e) \/ ExitAcquire(e) \/ ExitSched(e)

ThreadPcs == {"new", "trapret", "user", "sysret", "exit", "exit_sched", "dead"}
=============================================================================
