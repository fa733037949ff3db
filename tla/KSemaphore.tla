----------------------------- MODULE KSemaphore -----------------------------
(***************************************************************************)
(* kern/conc/ksemaphore.c: wait_ksemaphore and signal_ksemaphore on one    *)
(* semaphore shared by all environments.  A user program may wait, signal  *)
(* or exit, in any order.                                                  *)
(***************************************************************************)
EXTENDS Channel

CONSTANTS InitCount,  \* the value given to init_ksemaphore
          MaxCount    \* bound: no signal is issued once count is this high

ASSUME CountAssumption == InitCount \in Nat /\ MaxCount \in Nat

VARIABLE count

vars == <<schedVars, chanVars, count>>

Pcs == ThreadPcs \cup SleepPcs \cup WakeupPcs \cup
       {"wait", "wait_dec", "wait_release", "signal", "signal_inc", "signal_release"}

TypeOK == SchedTypeOK(Pcs) /\ ChannelTypeOK /\ count \in Int

Init == SchedInit /\ ChannelInit /\ count = InitCount
-----------------------------------------------------------------------------
(* wait_ksemaphore *)

WaitAcquire(e) ==
  /\ At(e, "wait")
  /\ cpu' = acquire_kspinlock(cpu, "lk")
  /\ Goto(e, "wait_dec")
  /\ UNCHANGED <<spc, status, ready, saved, irq, chanVars, count>>

WaitDec(e) ==
  /\ At(e, "wait_dec")
  /\ count' = count - 1
  /\ Goto(e, IF count' < 0 THEN "sleep" ELSE "wait_release")
  /\ UNCHANGED <<cpu, spc, status, ready, saved, irq, chanVars>>

WaitRelease(e) ==
  /\ At(e, "wait_release")
  /\ cpu' = release_kspinlock(cpu, "lk")
  /\ Goto(e, "sysret")
  /\ UNCHANGED <<spc, status, ready, saved, irq, chanVars, count>>

wait_ksemaphore(e) ==
  \/ WaitAcquire(e) \/ WaitDec(e) \/ WaitRelease(e)
  \/ sleep(e, "wait_release") /\ UNCHANGED count
-----------------------------------------------------------------------------
(* signal_ksemaphore *)

SignalAcquire(e) ==
  /\ At(e, "signal")
  /\ cpu' = acquire_kspinlock(cpu, "lk")
  /\ Goto(e, "signal_inc")
  /\ UNCHANGED <<spc, status, ready, saved, irq, chanVars, count>>

\* Mutant: leaves the last waiter asleep (< for <=).
SignalIncMissesLast(e) ==
  /\ At(e, "signal_inc")
  /\ count' = count + 1
  /\ Goto(e, IF count' < 0 THEN "wakeup" ELSE "signal_release")
  /\ UNCHANGED <<cpu, spc, status, ready, saved, irq, chanVars>>

SignalInc(e) ==
  /\ At(e, "signal_inc")
  /\ count' = count + 1
  /\ Goto(e, IF count' <= 0 THEN "wakeup" ELSE "signal_release")
  /\ UNCHANGED <<cpu, spc, status, ready, saved, irq, chanVars>>

SignalRelease(e) ==
  /\ At(e, "signal_release")
  /\ cpu' = release_kspinlock(cpu, "lk")
  /\ Goto(e, "sysret")
  /\ UNCHANGED <<spc, status, ready, saved, irq, chanVars, count>>

signal_ksemaphore(e) ==
  \/ SignalAcquire(e) \/ SignalInc(e) \/ SignalRelease(e)
  \/ wakeup_one(e, "signal_release") /\ UNCHANGED count
-----------------------------------------------------------------------------
UserCall(e) ==
  /\ \/ SyscallTo(e, "wait")
     \/ count < MaxCount /\ SyscallTo(e, "signal")
     \/ SyscallTo(e, "exit")
  /\ UNCHANGED <<chanVars, count>>

KernelStep(e) ==
  \/ wait_ksemaphore(e)
  \/ signal_ksemaphore(e)
  \/ ThreadStep(e) /\ UNCHANGED <<chanVars, count>>

Next ==
  \/ (SchedulerStep \/ OtherInterrupt \/ Prompt) /\ UNCHANGED <<chanVars, count>>
  \/ \E e \in Env : \/ UserCall(e)
                    \/ KernelStep(e)
                    \/ InterruptStep(e) /\ UNCHANGED <<chanVars, count>>

Spec == Init /\ [][Next]_vars
-----------------------------------------------------------------------------
\* Processes that have taken a place in the queue but not yet entered it, and
\* signals that have given a unit but not yet taken the sleeper out.
Entering == {e \in Env : pc[e] \in {"sleep", "sleep_release", "sleep_sched"}}
Waking == {e \in Env : pc[e] \in {"wakeup", "wakeup_dequeue"}}

\* The semaphore's books balance: a negative count is exactly the number of
\* sleepers, corrected by the one wait or signal that is halfway through.  A
\* lost wakeup, or a sleeper forgotten in the queue, breaks it.
WaitersCounted ==
  Len(chanq) + Cardinality(Entering) =
     (IF count < 0 THEN -count ELSE 0) + Cardinality(Waking)

\* Interrupts are a property of the thread, not of the CPU (sched() saves and
\* restores intena): see InterruptsMatch in module Channel.
InterruptStatePerThread ==
  InterruptsMatch({"user", "sysret", "exit", "wait", "signal", "sleep_reacquire"})

(* The inductive invariant behind NoPanic, PlaceMatchesStatus,               *)
(* WaitersCounted and InterruptStatePerThread: what each label says about    *)
(* the locks and the saved interrupt state, and where a thread off the CPU   *)
(* can be.                                                                   *)

GuardPcs == {"wait_dec", "wait_release", "signal_inc", "signal_release", "sleep", "wakeup"}
BothPcs == {"sleep_release", "wakeup_dequeue", "wakeup_release"}
QueuePcs == {"new", "exit_sched", "sleep_sched", "sleep_back"}
OpenPcs == {"trapret", "user", "sysret", "exit", "wait", "signal", "sleep_reacquire"}

HeldAt(label) ==
  IF label \in GuardPcs THEN {"lk"}
  ELSE IF label \in BothPcs THEN {"lk", "qlock"}
  ELSE IF label \in QueuePcs THEN {"qlock"} ELSE {}

One(lk) == IF lk \in cpu.held THEN 1 ELSE 0

CpuInv ==
  /\ ~cpu.panic
  /\ cpu.ncli = One("qlock") + One("lk")
  /\ cpu.held # {} => ~cpu.ien

OnCpu(e) == spc = "switched" /\ cpu.proc = e

RunningThreadInv(e) ==
  /\ status[e] = "RUNNING"
  /\ irq[e] = "none" =>
       /\ cpu.held = HeldAt(pc[e])
       /\ pc[e] \in OpenPcs \ {"trapret"} => cpu.ien
       /\ pc[e] \in GuardPcs \cup BothPcs \cup {"sleep_sched"} => cpu.intena
  /\ irq[e] \in {"yield", "iret"} => cpu.held = {} /\ ~cpu.ien
  /\ irq[e] \in {"yield_sched", "yield_ret"} => cpu.held = {"qlock"}
  /\ irq[e] = "yield_sched" => ~cpu.intena

RestingThreadInv(e) ==
  \/ irq[e] = "yield_ret"
  \/ irq[e] = "none" /\ pc[e] \in {"new", "sleep_back", "dead"}

ThreadInv(e) ==
  /\ IF OnCpu(e) THEN RunningThreadInv(e) ELSE RestingThreadInv(e)
  /\ irq[e] # "none" => pc[e] \in OpenPcs
  /\ irq[e] = "yield_ret" => ~saved[e]
  /\ pc[e] = "sleep_back" => saved[e]
  /\ pc[e] = "dead" => status[e] = "EXIT"

SchedulerInv ==
  /\ spc \in {"sti", "acquire", "prompt"} => cpu.held = {}
  /\ spc \in {"pick", "returned", "scan"} => cpu.held = {"qlock"}
  /\ spc \in {"sti", "acquire", "scan", "prompt"} => cpu.proc = NULL
  /\ spc \in {"switched", "returned"} => cpu.proc # NULL
  /\ spc = "returned" => status[cpu.proc] # "RUNNING"
  /\ spc = "pick" /\ cpu.proc # NULL => status[cpu.proc] = "READY"

LockInv ==
  /\ TypeOK
  /\ CpuInv
  /\ \A e \in Env : ThreadInv(e)
  /\ SchedulerInv
  /\ PlaceMatchesStatus

IInv == LockInv /\ WaitersCounted
-----------------------------------------------------------------------------
\* The kernel semaphore implements the abstract counting semaphore, with the
\* count updates of wait and signal as the points where they take effect.
Enterer == CHOOSE e \in Entering : TRUE
AbsQueue == LET q == IF Entering = {} THEN chanq ELSE Append(chanq, Enterer)
            IN IF Waking = {} THEN q ELSE Tail(q)
AbsGranted ==
  {e \in Env : \/ pc[e] \in {"wait_release", "sleep_reacquire"}
               \/ pc[e] = "sleep_back" /\ ~InSeq(e, AbsQueue)}
Sem == INSTANCE SemaphoreSpec WITH
         Proc <- Env, Initial <- InitCount,
         value <- IF count < 0 THEN 0 ELSE count,
         waiting <- AbsQueue, granted <- AbsGranted
ImplementsSemaphore == Sem!Spec
-----------------------------------------------------------------------------
(* Fairness.  The scheduler's thread and a handler with interrupts off run  *)
(* on.  A thread dispatched again and again executes, and a user program     *)
(* does not compute for ever: it calls the kernel (kclock_resume never lets  *)
(* the clock fire within 20 counts).  An unmasked clock fires sooner or      *)
(* later.                                                                    *)
Undisturbed ==
  SchedulerStep \/ \E e \in Env : irq[e] # "none" /\ InterruptStep(e)

FairSpec ==
  /\ Spec
  /\ WF_vars(Undisturbed /\ UNCHANGED <<chanVars, count>>)
  /\ SF_vars(\E e \in Env : ClockInterrupt(e) /\ UNCHANGED <<chanVars, count>>)
  /\ \A e \in Env : SF_vars(KernelStep(e) \/ UserCall(e))

\* A process given a unit, at once or by a later signal, does return from its
\* wait_ksemaphore, whatever the others do meanwhile.
WokenReturns == \A e \in Env : (e \in AbsGranted) ~> (e \notin AbsGranted)
=============================================================================
