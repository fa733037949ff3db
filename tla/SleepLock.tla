----------------------------- MODULE SleepLock -----------------------------
(***************************************************************************)
(* kern/conc/sleeplock.c: acquire_sleeplock and release_sleeplock on one   *)
(* lock shared by all environments, used the way cons_lock and cons_unlock *)
(* (kern/cons/console.c) use it when CONS_LCK_METHOD is LCK_SLEEP: a       *)
(* program acquires the lock in one system call, goes on in user mode, and *)
(* releases what it holds in another.  As configured they turn interrupts  *)
(* off instead, which module Programs has.                                 *)
(***************************************************************************)
EXTENDS Channel

VARIABLES
  locked,   \* lk->locked
  pid,      \* lk->pid: the holder, NULL for 0
  inside    \* the programs between their acquire and their release call

lockVars == <<locked, pid, inside>>
vars == <<schedVars, chanVars, lockVars>>

Pcs == ThreadPcs \cup SleepPcs \cup WakeupPcs \cup
       {"acquire", "acquire_test", "acquire_release",
        "release", "release_clear", "release_release"}

TypeOK ==
  /\ SchedTypeOK(Pcs) /\ ChannelTypeOK
  /\ locked \in BOOLEAN /\ pid \in Env \cup {NULL} /\ inside \subseteq Env

Init ==
  /\ SchedInit /\ ChannelInit
  /\ locked = FALSE /\ pid = NULL /\ inside = {}
-----------------------------------------------------------------------------
(* acquire_sleeplock *)

AcquireGuard(e) ==
  /\ At(e, "acquire")
  /\ cpu' = acquire_kspinlock(cpu, "lk")
  /\ Goto(e, "acquire_test")
  /\ UNCHANGED <<spc, status, ready, saved, irq, chanVars, lockVars>>

Claim(e) ==
  /\ locked' = TRUE /\ pid' = e
  /\ Goto(e, "acquire_release")
  /\ UNCHANGED inside

\* The loop of acquire_sleeplock: sleep while the lock is taken, else claim it.
AcquireTest(e) ==
  /\ At(e, "acquire_test")
  /\ IF locked THEN Goto(e, "sleep") /\ UNCHANGED lockVars ELSE Claim(e)
  /\ UNCHANGED <<cpu, spc, status, ready, saved, irq, chanVars>>

AcquireRelease(e) ==
  /\ At(e, "acquire_release")
  /\ cpu' = release_kspinlock(cpu, "lk")
  /\ inside' = inside \cup {e}
  /\ Goto(e, "sysret")
  /\ UNCHANGED <<spc, status, ready, saved, irq, chanVars, locked, pid>>

\* Mutant: the loop is an if, so a woken process claims without testing again.
SleepReturnsToClaim(e) ==
  \/ /\ \/ SleepAcquire(e) \/ SleepRelease(e) \/ SleepSched(e) \/ SleepBack(e)
     /\ UNCHANGED lockVars
  \/ /\ SleepReacquire(e, "acquire_release")
     /\ locked' = TRUE /\ pid' = e /\ UNCHANGED inside

SleepUntilReleased(e) == sleep(e, "acquire_test") /\ UNCHANGED lockVars

acquire_sleeplock(e) ==
  AcquireGuard(e) \/ AcquireTest(e) \/ AcquireRelease(e) \/ SleepUntilReleased(e)
-----------------------------------------------------------------------------
(* release_sleeplock *)

ReleaseGuard(e) ==
  /\ At(e, "release")
  /\ cpu' = acquire_kspinlock(cpu, "lk")
  /\ Goto(e, "release_clear")
  /\ UNCHANGED <<spc, status, ready, saved, irq, chanVars, lockVars>>

\* Mutant: forgets wakeup_all.
ReleaseClearSilently(e) ==
  /\ At(e, "release_clear")
  /\ locked' = FALSE /\ pid' = NULL
  /\ Goto(e, "release_release")
  /\ UNCHANGED <<cpu, spc, status, ready, saved, irq, chanVars, inside>>

ReleaseClear(e) ==
  /\ At(e, "release_clear")
  /\ locked' = FALSE /\ pid' = NULL
  /\ Goto(e, "wakeup")
  /\ UNCHANGED <<cpu, spc, status, ready, saved, irq, chanVars, inside>>

ReleaseRelease(e) ==
  /\ At(e, "release_release")
  /\ cpu' = release_kspinlock(cpu, "lk")
  /\ Goto(e, "sysret")
  /\ UNCHANGED <<spc, status, ready, saved, irq, chanVars, lockVars>>

release_sleeplock(e) ==
  \/ ReleaseGuard(e) \/ ReleaseClear(e) \/ ReleaseRelease(e)
  \/ wakeup_all(e, "release_release") /\ UNCHANGED lockVars
-----------------------------------------------------------------------------
UserAcquire(e) ==
  /\ e \notin inside
  /\ SyscallTo(e, "acquire") \/ SyscallTo(e, "exit")
  /\ UNCHANGED <<chanVars, lockVars>>

UserRelease(e) ==
  /\ e \in inside
  /\ SyscallTo(e, "release")
  /\ inside' = inside \ {e}
  /\ UNCHANGED <<chanVars, locked, pid>>

KernelStep(e) ==
  \/ acquire_sleeplock(e)
  \/ release_sleeplock(e)
  \/ ThreadStep(e) /\ UNCHANGED <<chanVars, lockVars>>

Next ==
  \/ (SchedulerStep \/ OtherInterrupt \/ Prompt) /\ UNCHANGED <<chanVars, lockVars>>
  \/ \E e \in Env : \/ UserAcquire(e) \/ UserRelease(e) \/ KernelStep(e)
                    \/ InterruptStep(e) /\ UNCHANGED <<chanVars, lockVars>>

Spec == Init /\ [][Next]_vars
-----------------------------------------------------------------------------
\* Two programs are never both between acquire_sleeplock and
\* release_sleeplock, and the lock names the one that is.
MutualExclusion ==
  \A e \in inside : locked /\ pid = e

\* No lost wakeup: while a process sleeps on the lock, or is committed to
\* sleep, the lock is taken or its releaser has yet to run wakeup_all.
NoLostWakeup ==
  (\E e \in Env : InSeq(e, chanq) \/ pc[e] \in {"sleep", "sleep_release", "sleep_sched"})
    => locked \/ \E e \in Env : pc[e] \in {"wakeup", "wakeup_dequeue"}
-----------------------------------------------------------------------------
(* Fairness as in module KSemaphore; a program inside the lock releases it.  *)
Undisturbed ==
  SchedulerStep \/ \E e \in Env : irq[e] # "none" /\ InterruptStep(e)

FairSpec ==
  /\ Spec
  /\ WF_vars(Undisturbed /\ UNCHANGED <<chanVars, lockVars>>)
  /\ SF_vars(\E e \in Env : ClockInterrupt(e) /\ UNCHANGED <<chanVars, lockVars>>)
  /\ \A e \in Env : SF_vars(KernelStep(e) \/ UserAcquire(e) \/ UserRelease(e))

\* The lock does not get stuck: while some process is trying to acquire it,
\* again and again one enters.
Trying(e) == pc[e] \in {"acquire", "acquire_test", "acquire_release"} \cup SleepPcs
SomeoneEnters == (\E e \in Env : Trying(e)) ~> (inside # {})
=============================================================================
