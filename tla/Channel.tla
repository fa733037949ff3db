------------------------------ MODULE Channel ------------------------------
(***************************************************************************)
(* kern/conc/channel.c: sleep, wakeup_one and wakeup_all on one wait       *)
(* channel whose condition is guarded by the kspinlock "lk".  The action   *)
(* arguments ret are the labels the caller continues at.                   *)
(***************************************************************************)
EXTENDS Sched

VARIABLES
  chanq,     \* chan->queue: FIFO, head = next dequeued
  channel    \* is env->channel set (TRUE) or NULL (FALSE)?

chanVars == <<chanq, channel>>

SleepPcs == {"sleep", "sleep_release", "sleep_sched", "sleep_back", "sleep_reacquire"}
WakeupPcs == {"wakeup", "wakeup_dequeue", "wakeup_release"}

ChannelTypeOK ==
  /\ chanq \in Seq(Env)
  /\ channel \in [Env -> BOOLEAN]

ChannelInit ==
  /\ chanq = <<>>
  /\ channel = [e \in Env |-> FALSE]
-----------------------------------------------------------------------------
(* sleep(chan, lk) *)

\* Mutant: gives the guard up before it holds the queues' lock.
SleepReleasesFirst(e) ==
  /\ At(e, "sleep")
  /\ cpu' = release_kspinlock(cpu, "lk")
  /\ Goto(e, "sleep_release")
  /\ UNCHANGED <<spc, status, ready, saved, irq, chanVars>>

SleepAcquire(e) ==
  /\ At(e, "sleep")
  /\ cpu' = acquire_kspinlock(cpu, "qlock")
  /\ Goto(e, "sleep_release")
  /\ UNCHANGED <<spc, status, ready, saved, irq, chanVars>>

\* Mutant: keeps the guard across the context switch.
SleepKeepsGuard(e) ==
  /\ At(e, "sleep_release")
  /\ UNCHANGED cpu
  /\ Goto(e, "sleep_sched")
  /\ UNCHANGED <<spc, status, ready, saved, irq, chanVars>>

SleepRelease(e) ==
  /\ At(e, "sleep_release")
  /\ cpu' = release_kspinlock(cpu, "lk")
  /\ Goto(e, "sleep_sched")
  /\ UNCHANGED <<spc, status, ready, saved, irq, chanVars>>

SleepSched(e) ==
  /\ At(e, "sleep_sched")
  /\ sched(e, cpu, [status EXCEPT ![e] = "BLOCKED"])
  /\ channel' = [channel EXCEPT ![e] = TRUE]
  /\ chanq' = Append(chanq, e)
  /\ Goto(e, "sleep_back")
  /\ UNCHANGED <<ready, irq>>

SleepBack(e) ==
  /\ At(e, "sleep_back")
  /\ cpu' = release_kspinlock(sched_resumed(e), "qlock")
  /\ Goto(e, "sleep_reacquire")
  /\ UNCHANGED <<spc, status, ready, saved, irq, chanVars>>

SleepReacquire(e, ret) ==
  /\ At(e, "sleep_reacquire")
  /\ cpu' = acquire_kspinlock(cpu, "lk")
  /\ channel' = [channel EXCEPT ![e] = FALSE]
  /\ Goto(e, ret)
  /\ UNCHANGED <<spc, status, ready, saved, irq, chanq>>

sleep(e, ret) ==
  \/ SleepAcquire(e) \/ SleepRelease(e) \/ SleepSched(e)
  \/ SleepBack(e) \/ SleepReacquire(e, ret)
-----------------------------------------------------------------------------
(* wakeup_one(chan) and wakeup_all(chan) *)

WakeupAcquire(e) ==
  /\ At(e, "wakeup")
  /\ cpu' = acquire_kspinlock(cpu, "qlock")
  /\ Goto(e, "wakeup_dequeue")
  /\ UNCHANGED <<spc, status, ready, saved, irq, chanVars>>

\* Mutant: makes the sleeper READY without putting it in the ready queue.
WakeupOneWithoutInsert(e) ==
  /\ At(e, "wakeup_dequeue")
  /\ IF chanq = <<>>
       THEN UNCHANGED <<status, ready, chanVars>>
       ELSE /\ chanq' = Tail(chanq)
            /\ status' = [status EXCEPT ![Head(chanq)] = "READY"]
            /\ channel' = [channel EXCEPT ![Head(chanq)] = FALSE]
            /\ UNCHANGED ready
  /\ Goto(e, "wakeup_release")
  /\ UNCHANGED <<cpu, spc, saved, irq>>

\* Mutant: takes the newest sleeper (dequeue from the wrong end).
WakeupOneLifo(e) ==
  /\ At(e, "wakeup_dequeue")
  /\ IF chanq = <<>>
       THEN UNCHANGED <<status, ready, chanVars>>
       ELSE LET last == chanq[Len(chanq)]
            IN /\ chanq' = SubSeq(chanq, 1, Len(chanq) - 1)
               /\ status' = [status EXCEPT ![last] = "READY"]
               /\ channel' = [channel EXCEPT ![last] = FALSE]
               /\ ready' = Append(ready, last)
  /\ Goto(e, "wakeup_release")
  /\ UNCHANGED <<cpu, spc, saved, irq>>

WakeupOneDequeue(e) ==
  /\ At(e, "wakeup_dequeue")
  /\ IF chanq = <<>>
       THEN UNCHANGED <<status, ready, chanVars>>
       ELSE /\ chanq' = Tail(chanq)
            /\ status' = [status EXCEPT ![Head(chanq)] = "READY"]
            /\ channel' = [channel EXCEPT ![Head(chanq)] = FALSE]
            /\ ready' = Append(ready, Head(chanq))
  /\ Goto(e, "wakeup_release")
  /\ UNCHANGED <<cpu, spc, saved, irq>>

Sleepers == {chanq[i] : i \in 1..Len(chanq)}

WakeupAllDequeue(e) ==
  /\ At(e, "wakeup_dequeue")
  /\ chanq' = <<>>
  /\ status' = [x \in Env |-> IF x \in Sleepers THEN "READY" ELSE status[x]]
  /\ channel' = [x \in Env |-> channel[x] /\ x \notin Sleepers]
  /\ ready' = ready \o chanq
  /\ Goto(e, "wakeup_release")
  /\ UNCHANGED <<cpu, spc, saved, irq>>

WakeupRelease(e, ret) ==
  /\ At(e, "wakeup_release")
  /\ cpu' = release_kspinlock(cpu, "qlock")
  /\ Goto(e, ret)
  /\ UNCHANGED <<spc, status, ready, saved, irq, chanVars>>

wakeup_one(e, ret) ==
  WakeupAcquire(e) \/ WakeupOneDequeue(e) \/ WakeupRelease(e, ret)

wakeup_all(e, ret) ==
  WakeupAcquire(e) \/ WakeupAllDequeue(e) \/ WakeupRelease(e, ret)
-----------------------------------------------------------------------------
\* No check of the kernel ever fails: no lock is acquired twice or released
\* unheld (acquire_kspinlock, release_kspinlock, popcli), sched() is entered
\* with qlock alone, ncli = 1 and interrupts off, and trap() returns from an
\* interrupt with interrupts still off.
NoPanic == ~cpu.panic

InSeq(e, s) == \E i \in 1..Len(s) : s[i] = e

\* Every live process is in exactly one place, once: on the CPU, in the ready
\* queue or in the channel's queue, and its status says which.  The one READY
\* process on the CPU has yielded and is about to be put back in the queue.
NoDuplicates(s) == \A i, j \in 1..Len(s) : s[i] = s[j] => i = j
PlaceMatchesStatus ==
  /\ NoDuplicates(ready) /\ NoDuplicates(chanq)
  /\ \A e \in Env :
       /\ InSeq(e, chanq) <=> status[e] = "BLOCKED"
       /\ InSeq(e, ready) <=> status[e] = "READY" /\ e # cpu.proc
       /\ status[e] = "RUNNING" => e = cpu.proc

\* Whenever a process is outside every critical section (at a label in
\* Outside) and outside an interrupt handler, interrupts are enabled, however
\* many context switches lie behind it; inside a handler they are disabled.
InterruptsMatch(Outside) ==
  \A e \in Env : Running(e) =>
    /\ irq[e] = "none" /\ pc[e] \in Outside => cpu.ien
    /\ irq[e] # "none" => ~cpu.ien
=============================================================================
