----------------------------- MODULE PriorityRR -----------------------------
(***************************************************************************)
(* The life of a process: the table of environments, the process queues    *)
(* (kern/cpu/sched_helpers.c), the round-robin and priority schedulers     *)
(* (kern/cpu/sched.c), the prompt's commands on processes and what a       *)
(* kernel panic does to them (kern/init.c).  Priority 0 is the highest.    *)
(* Every operation below runs with ProcessQueues.qlock held or with        *)
(* interrupts off, so each is one step (module Sched shows that the lock   *)
(* does give that atomicity).  env_free() is not implemented and panics,   *)
(* so a slot of the table is never used twice and env_ids are the slots.   *)
(* Once memory outside the ready queues has been used (overrun) nothing    *)
(* is said of what follows.                                                *)
(***************************************************************************)
EXTENDS Integers, Sequences, FiniteSets, SequencesExt

CONSTANTS
  Env,             \* the slots of the environment table
  NULL,
  QueueCounts,     \* the values an operator gives "sched PRIRR" for the queues
  Thresholds       \* the values given for the starvation threshold

ASSUME ThresholdAssumption == Thresholds \subseteq Nat \ {0} /\ Thresholds # {}
ASSUME QueueCountAssumption == QueueCounts \subseteq Nat \ {0} /\ QueueCounts # {}

VARIABLES
  method,    \* scheduler_method: "RR" or "PRIRR"
  thresh,    \* starvThreshold
  nq,        \* num_of_ready_queues
  queue,     \* env_ready_queues: queue[i] is FIFO, head = next dequeued
  newq,      \* env_new_queue
  exitq,     \* env_exit_queue
  status,    \* env_status
  priority,  \* env->priority
  starv,     \* env->starvcounteer
  proc,      \* mycpu()->proc
  badquantum,\* is quantums[0] above what the clock can be set to?
  started,   \* scheduler_status = SCH_STARTED?
  stuck,     \* the kernel spinlocks that a panic has left locked
  overrun,   \* has memory been used that is not an initialized ready queue?
  gone,      \* history: processes left in no queue, by a failed creation, a
             \* kill, a failed dispatch or a new array of queues
  waited     \* history: clock ticks since the process became READY or was
             \* given a priority, up to one more than WaitBound

config == <<method, thresh, nq, badquantum>>
history == <<overrun, gone, waited>>
vars == <<config, queue, newq, exitq, status, priority, starv, proc, started, stuck, history>>

MaxQueues == Max(QueueCounts \cup {1})
Levels == 0..MaxQueues-1
\* What aging allows a process to wait, in clock interrupts: an aging period for
\* each level above it, then its turn behind the others of queue 0.
WaitBound == (MaxQueues - 1) * (Max(Thresholds) + 1) + Cardinality(Env) - 2

Statuses == {"FREE", "NEW", "READY", "RUNNING", "BLOCKED", "EXIT", "UNKNOWN"}

TypeOK ==
  /\ method \in {"RR", "PRIRR"} /\ thresh \in Thresholds /\ nq \in QueueCounts \cup {1}
  /\ badquantum \in BOOLEAN
  /\ queue \in [Levels -> Seq(Env)]
  /\ newq \in Seq(Env) /\ exitq \in Seq(Env)
  /\ status \in [Env -> Statuses]
  /\ priority \in [Env -> Levels]
  /\ starv \in [Env -> Nat]
  /\ proc \in Env \cup {NULL}
  /\ started \in BOOLEAN /\ overrun \in BOOLEAN
  /\ stuck \subseteq {"qlock", "env_lock"} /\ gone \subseteq Env
  /\ waited \in [Env -> Nat]

Init ==
  /\ method = "RR" /\ thresh \in Thresholds /\ nq = 1 /\ badquantum = FALSE
  /\ queue = [i \in Levels |-> <<>>]
  /\ newq = <<>> /\ exitq = <<>>
  /\ status = [e \in Env |-> "FREE"]
  /\ priority = [e \in Env |-> 0]
  /\ starv = [e \in Env |-> 0]
  /\ proc = NULL /\ started = FALSE /\ stuck = {}
  /\ overrun = FALSE /\ gone = {}
  /\ waited = [e \in Env |-> 0]

\* A command that takes a lock left locked panics back into the prompt.
AtPrompt == ~started /\ "qlock" \notin stuck /\ ~overrun
Scheduling == started /\ ~overrun
Executing == Scheduling /\ proc # NULL /\ status[proc] = "RUNNING"

\* sched_insert_ready: a priority beyond the array writes outside it.
sched_insert_ready(q, p, e) == IF p[e] < nq THEN [q EXCEPT ![p[e]] = Append(@, e)] ELSE q
-----------------------------------------------------------------------------
(* Creating and starting environments. *)

allocate_environment(e) == status[e] = "FREE" /\ "env_lock" \notin stuck

initialize_environment(e) == starv' = [starv EXCEPT ![e] = 0]

complete_environment_initialization(e) == status' = [status EXCEPT ![e] = "NEW"]

sched_new_env(e) == newq' = Append(newq, e)

\* CreateEnv and sched_new_env, commands of the prompt.  Under PRIRR a priority
\* out of bounds panics in env_set_priority, before sched_new_env.
CreateEnv(e, p) ==
  /\ AtPrompt /\ (method = "PRIRR" \/ p = 0)
  /\ allocate_environment(e)
  /\ initialize_environment(e)
  /\ complete_environment_initialization(e)
  /\ IF p < nq THEN /\ sched_new_env(e)
                   /\ priority' = [priority EXCEPT ![e] = p]
                   /\ UNCHANGED gone
              ELSE gone' = gone \cup {e} /\ UNCHANGED <<newq, priority>>
  /\ UNCHANGED <<config, queue, exitq, proc, started, stuck, overrun, waited>>

\* The priority of an environment created by a process is the slot's initial 0.
sys_create_env(e) ==
  /\ Executing
  /\ allocate_environment(e)
  /\ initialize_environment(e)
  /\ complete_environment_initialization(e)
  /\ sched_new_env(e)
  /\ UNCHANGED <<config, queue, exitq, priority, proc, started, stuck, history>>

MakeReady(e) ==
  /\ status' = [status EXCEPT ![e] = "READY"]
  /\ queue' = sched_insert_ready(queue, priority, e)
  /\ overrun' = (overrun \/ priority[e] >= nq)
  /\ waited' = [waited EXCEPT ![e] = 0]

\* sched_run_env: also starts fos_scheduler when it is called at the prompt.
RunEnv(e) ==
  /\ e \in ToSet(newq)
  /\ AtPrompt \/ Executing
  /\ newq' = Remove(newq, e)
  /\ MakeReady(e)
  /\ started' = TRUE
  /\ UNCHANGED <<config, exitq, priority, starv, proc, stuck, gone>>

\* sched_run_all, a command of the prompt.
InsertAll(q, es) == FoldLeft(LAMBDA acc, e : sched_insert_ready(acc, priority, e), q, es)

RunAll ==
  /\ AtPrompt
  /\ queue' = InsertAll(queue, newq)
  /\ overrun' = (overrun \/ \E i \in 1..Len(newq) : priority[newq[i]] >= nq)
  /\ status' = [e \in Env |-> IF e \in ToSet(newq) THEN "READY" ELSE status[e]]
  /\ waited' = [e \in Env |-> IF e \in ToSet(newq) THEN 0 ELSE waited[e]]
  /\ newq' = <<>>
  /\ started' = TRUE
  /\ UNCHANGED <<config, exitq, priority, starv, proc, stuck, gone>>
-----------------------------------------------------------------------------
(* The scheduler. *)

\* fos_scheduler_RR puts the process that gave up the CPU in its only queue,
\* fos_scheduler_PRIRR in the queue of its priority.
Requeued ==
  IF proc = NULL THEN queue
  ELSE IF method = "RR" THEN [queue EXCEPT ![0] = Append(@, proc)]
  ELSE IF status[proc] = "READY" THEN sched_insert_ready(queue, priority, proc) ELSE queue

\* fos_scheduler_RR looks at its first queue only, however many there are.
Nonempty(q) == {i \in Levels : i < nq /\ (method = "RR" => i = 0) /\ q[i] # <<>>}

TopQueue(q) == Min(Nonempty(q))

\* The counter of the process that gets the CPU starts again, under PRIRR.
ResetCounter(e) == IF method = "PRIRR" THEN [starv EXCEPT ![e] = 0] ELSE starv

\* fos_scheduler_RR or fos_scheduler_PRIRR, and the part of fos_scheduler that
\* switches to next_env.
Dispatch ==
  /\ Scheduling /\ ~Executing /\ ~badquantum
  /\ Nonempty(Requeued) # {}
  /\ LET i == TopQueue(Requeued)
         e == Head(Requeued[i])
     IN /\ queue' = [Requeued EXCEPT ![i] = Tail(@)]
        /\ proc' = e
        /\ status' = [status EXCEPT ![e] = "RUNNING"]
        /\ starv' = ResetCounter(e)
        /\ waited' = [waited EXCEPT ![e] = 0]
  /\ UNCHANGED <<config, newq, exitq, priority, started, stuck, overrun, gone>>

\* The CPU's state is reset; the locks and the queues are not.
get_into_prompt == started' = FALSE /\ proc' = NULL

\* kclock_set_quantum(quantums[0]) panics in the scheduler, which holds qlock and
\* has taken the process it found out of its queue; no process is on the CPU.
DispatchPanics ==
  /\ Scheduling /\ proc = NULL /\ badquantum
  /\ IF Nonempty(queue) = {} THEN method = "RR" /\ UNCHANGED <<queue, gone>>
     ELSE LET i == TopQueue(queue)
          IN queue' = [queue EXCEPT ![i] = Tail(@)] /\ gone' = gone \cup {Head(queue[i])}
  /\ get_into_prompt /\ stuck' = stuck \cup {"qlock"}
  /\ UNCHANGED <<config, newq, exitq, status, priority, starv, overrun, waited>>

\* Mutant: the scheduler leaves its loop although a process is BLOCKED.
GoToPromptAtOnce ==
  /\ Scheduling /\ proc = NULL
  /\ Nonempty(queue) = {}
  /\ get_into_prompt
  /\ UNCHANGED <<config, queue, newq, exitq, status, priority, starv, stuck, history>>

\* fos_scheduler finds nothing READY and nothing BLOCKED.
GoToPrompt ==
  /\ Scheduling /\ proc = NULL
  /\ Nonempty(queue) = {} /\ ~(badquantum /\ method = "RR")
  /\ \A e \in Env : status[e] # "BLOCKED"
  /\ get_into_prompt
  /\ UNCHANGED <<config, queue, newq, exitq, status, priority, starv, stuck, history>>

\* clock_interrupt_handler ages every waiting process and promotes by one
\* level those whose counter exceeds the threshold; it walks each list from its
\* newest element to its oldest, so processes promoted together swap order.
Waiting == UNION {ToSet(queue[i]) : i \in {j \in Levels : j < nq}}

\* A queue that the scheduler in force never takes a process from: RR has several
\* after a "schedPRIRR" that panicked.
Unserved(e) == method = "RR" /\ \E i \in 1 .. nq-1 : e \in ToSet(queue[i])

\* Mutant: the counter must reach the threshold twice over.
PromotedLate(e) == method = "PRIRR" /\ priority[e] > 0 /\ starv[e] > thresh

Promoted(e) == method = "PRIRR" /\ priority[e] > 0 /\ starv[e] + 1 > thresh

Aged ==
  [i \in Levels |->
     IF i >= nq THEN queue[i]
     ELSE SelectSeq(queue[i], LAMBDA e : ~Promoted(e)) \o
          IF i + 1 >= nq THEN <<>>
          ELSE Reverse(SelectSeq(queue[i+1], LAMBDA e : Promoted(e)))]

\* The clock interrupt of a running process: aging under PRIRR, then yield().
ClockTick ==
  /\ Executing
  /\ queue' = Aged
  /\ starv' = [e \in Env |-> IF e \notin Waiting \/ method = "RR" THEN starv[e]
                             ELSE IF Promoted(e) THEN 0 ELSE starv[e] + 1]
  /\ priority' = [e \in Env |-> IF e \in Waiting /\ Promoted(e)
                                  THEN priority[e] - 1 ELSE priority[e]]
  /\ waited' = [e \in Env |-> IF e \in Waiting \ gone /\ ~Unserved(e)
                                THEN Min({waited[e], WaitBound}) + 1
                              ELSE IF e = proc THEN 0 ELSE waited[e]]
  /\ status' = [status EXCEPT ![proc] = "READY"]
  /\ UNCHANGED <<config, newq, exitq, proc, started, stuck, overrun, gone>>
-----------------------------------------------------------------------------
(* What a running process does to the queues. *)

\* sleep(): the process blocks and the scheduler takes it off the CPU.
Block ==
  /\ Executing
  /\ status' = [status EXCEPT ![proc] = "BLOCKED"]
  /\ proc' = NULL
  /\ UNCHANGED <<config, queue, newq, exitq, priority, starv, started, stuck, history>>

\* wakeup_one(), called by the running process or by an interrupt handler while
\* it runs or while the scheduler has nothing to run; the scheduler holds qlock
\* from the moment a process gives up the CPU to the next dispatch.
Wakeup(e) ==
  /\ Scheduling
  /\ Executing \/ (proc = NULL /\ Nonempty(queue) = {})
  /\ status[e] = "BLOCKED"
  /\ MakeReady(e)
  /\ UNCHANGED <<config, newq, exitq, priority, starv, proc, started, stuck, gone>>

\* env_exit(), reached by sys_exit_env and by a kernel panic (_panic) of the
\* running process: sched_exit_env, sched_insert_exit and the return to the
\* scheduler.  With another lock held, sched() panics in its turn, and that
\* panic finds the process no longer RUNNING: it goes to the prompt with
\* qlock locked.
ExitHolding(locked, st, xq) ==
  /\ status' = [st EXCEPT ![proc] = "EXIT"]
  /\ exitq' = Append(xq, proc)
  /\ IF locked THEN get_into_prompt /\ stuck' = stuck \cup {"qlock"}
               ELSE proc' = NULL /\ UNCHANGED <<started, stuck>>

Exit ==
  /\ Executing
  /\ ExitHolding(FALSE, status, exitq)
  /\ UNCHANGED <<config, queue, newq, priority, starv, history>>

\* The READY processes in the order sched_exit_all_ready_envs meets them.
AllReady == FlattenSeq([i \in 1..nq |-> Reverse(queue[i - 1])])

\* A failed assertion of a running process: _panic_all first moves every READY
\* process to the exit queue.
AssertFails ==
  /\ Executing
  /\ ExitHolding(FALSE, [e \in Env |-> IF e \in Waiting THEN "EXIT" ELSE status[e]],
                 exitq \o AllReady)
  /\ queue' = [i \in Levels |-> IF i < nq THEN <<>> ELSE queue[i]]
  /\ UNCHANGED <<config, newq, priority, starv, history>>

\* env_create() panics, always with interrupts off (pushcli): without kernel
\* heap for the directory, without kernel heap for the kernel stack (env_lock
\* is held), or without page file space, when the slot is already taken.
CreatePanics(e, stage) ==
  /\ status[e] = "FREE"
  /\ LET st == IF stage = "load" THEN [status EXCEPT ![e] = "NEW"] ELSE status
         lk == IF stage = "stack" THEN {"env_lock"} ELSE {}
     IN /\ gone' = IF stage = "load" THEN gone \cup {e} ELSE gone
        /\ \/ /\ AtPrompt
              /\ status' = st /\ stuck' = stuck \cup lk
              /\ UNCHANGED <<exitq, proc, started>>
           \/ /\ Executing
              /\ ExitHolding(TRUE, st, exitq)
  /\ UNCHANGED <<config, queue, newq, priority, starv, overrun, waited>>

\* The queue a process is in, without it, and the status sched_kill_env leaves.
WithoutProcess(e) ==
  /\ newq' = Remove(newq, e)
  /\ queue' = [i \in Levels |-> IF i < nq THEN Remove(queue[i], e) ELSE queue[i]]
  /\ gone' = gone \cup {e}

KillStatus(e) == IF status[e] = "READY" THEN status
                                        ELSE [status EXCEPT ![e] = "UNKNOWN"]

Killable(e) == e \in ToSet(newq) \cup ToSet(exitq) \cup Waiting

\* "kill" at the prompt: sched_kill_env, then env_free, which panics.
Kill(e) ==
  /\ AtPrompt /\ Killable(e)
  /\ WithoutProcess(e)
  /\ exitq' = Remove(exitq, e)
  /\ status' = KillStatus(e)
  /\ UNCHANGED <<config, priority, starv, proc, started, stuck, overrun, waited>>

\* sys_destroy_env of another process: the panic of env_free ends the caller.
\* A BLOCKED process is in none of the queues that are searched.
DestroyEnv(e) ==
  /\ Executing /\ Killable(e)
  /\ WithoutProcess(e)
  /\ ExitHolding(FALSE, KillStatus(e), Remove(exitq, e))
  /\ UNCHANGED <<config, priority, starv, overrun, waited>>

\* "killall": the first env_free panics while sched_kill_all holds qlock.
KillAll ==
  /\ AtPrompt /\ newq \o exitq # <<>>
  /\ LET e == IF newq # <<>> THEN Last(newq) ELSE Last(exitq)
     IN /\ WithoutProcess(e)
        /\ exitq' = Remove(exitq, e)
        /\ status' = KillStatus(e)
  /\ stuck' = stuck \cup {"qlock"}
  /\ UNCHANGED <<config, priority, starv, proc, started, overrun, waited>>

\* Mutant: forgets to take a READY process out of its old queue.
RemovedFromNothing(e) == queue

\* sched_remove_ready.
sched_remove_ready(e) == [i \in Levels |-> IF i < nq THEN Remove(queue[i], e) ELSE queue[i]]

\* Mutant: whatever its status, the process goes to the queue of its priority.
SetPriorityRequeues(e, p) ==
  /\ AtPrompt \/ Executing
  /\ status[e] # "FREE" /\ p < nq
  /\ priority' = [priority EXCEPT ![e] = p]
  /\ queue' = sched_insert_ready(sched_remove_ready(e), priority', e)
  /\ status' = [status EXCEPT ![e] = "READY"]
  /\ UNCHANGED <<config, newq, exitq, starv, proc, started, stuck, history>>

\* env_set_priority of a process in the table, from the prompt or by a running
\* process.  A READY process that was killed is in no queue, and is put in one.
SetPriority(e, p) ==
  /\ AtPrompt \/ Executing
  /\ status[e] # "FREE" /\ p < nq
  /\ priority' = [priority EXCEPT ![e] = p]
  /\ IF status[e] = "READY"
       THEN /\ queue' = sched_insert_ready(sched_remove_ready(e), priority', e)
            /\ starv' = [starv EXCEPT ![e] = 0]
            /\ waited' = [waited EXCEPT ![e] = 0]
       ELSE UNCHANGED <<queue, starv, waited>>
  /\ UNCHANGED <<config, newq, exitq, status, proc, started, stuck, overrun, gone>>

\* env_set_priority of an id that is not in the table panics without releasing
\* qlock; sched_exit_env of a running caller finds it held and uses it.
SetPriorityOfNobody ==
  /\ AtPrompt \/ Executing
  /\ IF Executing THEN ExitHolding(FALSE, status, exitq)
     ELSE stuck' = stuck \cup {"qlock"} /\ UNCHANGED <<exitq, status, proc, started>>
  /\ UNCHANGED <<config, queue, newq, priority, starv, history>>

\* Both initializations make a new array of queues; a process that still was in
\* an old one is in none afterwards.
NewQueues(n) ==
  /\ nq' = n
  /\ queue' = [i \in Levels |-> <<>>]
  /\ gone' = gone \cup Waiting
  /\ UNCHANGED <<newq, exitq, status, priority, starv, proc, started, stuck, waited>>

\* "schedPRIRR" at the prompt.
sched_init_PRIRR(n, t) ==
  /\ AtPrompt
  /\ NewQueues(n)
  /\ method' = "PRIRR" /\ thresh' = t /\ badquantum' = FALSE
  /\ UNCHANGED overrun

\* The numbers are checked when the array has been replaced: kclock_set_quantum
\* panics when the quantum is too large, sched_set_starv_thresh when the threshold
\* is 0, and scheduler_method stays what it was.
InitPRIRRPanics(n, large) ==
  /\ AtPrompt
  /\ NewQueues(n)
  /\ badquantum' = large
  /\ UNCHANGED <<method, thresh, overrun>>

\* "schedRR", or "schedPRIRR" with no levels: one queue.
sched_init_RR ==
  /\ AtPrompt
  /\ NewQueues(1)
  /\ method' = "RR" /\ badquantum' = FALSE
  /\ UNCHANGED <<thresh, overrun>>

\* Here the panic on a large quantum comes before init_queue.
InitRRPanics ==
  /\ AtPrompt
  /\ NewQueues(1)
  /\ badquantum' = TRUE /\ overrun' = TRUE
  /\ UNCHANGED <<method, thresh>>

\* "setStarvThr".
sched_set_starv_thresh(t) ==
  /\ AtPrompt
  /\ thresh' = t
  /\ UNCHANGED <<method, nq, badquantum, queue, newq, exitq, status, priority, starv, proc,
                 started, stuck, history>>

\* Once qlock is left locked, every command on processes panics and comes back.
CommandPanics ==
  /\ ~started /\ "qlock" \in stuck
  /\ UNCHANGED vars
-----------------------------------------------------------------------------
\* What the operator or a program asks of the scheduler, and what runs by itself.
Request ==
  \/ \E e \in Env : RunEnv(e) \/ sys_create_env(e) \/
       \E p \in Levels : CreateEnv(e, p) \/ SetPriority(e, p)
  \/ RunAll
  \/ sched_init_RR
  \/ \E t \in Thresholds : sched_set_starv_thresh(t) \/ \E n \in QueueCounts : sched_init_PRIRR(n, t)

Failure ==
  \/ SetPriorityOfNobody \/ CommandPanics
  \/ \E e \in Env : Kill(e) \/ DestroyEnv(e) \/
       \E stage \in {"directory", "stack", "load"} : CreatePanics(e, stage)
  \/ KillAll \/ AssertFails \/ DispatchPanics \/ InitRRPanics
  \/ \E n \in QueueCounts, large \in BOOLEAN : InitPRIRRPanics(n, large)

ComputeStep == Dispatch \/ GoToPrompt \/ ClockTick \/ Exit

SleepStep == Block \/ \E e \in Env : Wakeup(e)

Undefined == overrun /\ UNCHANGED vars

Next == Request \/ Failure \/ ComputeStep \/ SleepStep \/ Undefined

Spec == Init /\ [][Next]_vars
-----------------------------------------------------------------------------
Occurrences(e, s) == {i \in 1..Len(s) : s[i] = e}

Once(e, s) == \E k \in 1..Len(s) : Occurrences(e, s) = {k}

\* The queue of its priority; fos_scheduler_RR puts a process that yields in the
\* first queue, also when a failed "schedPRIRR" has left it with several.
Homes(e) == {priority[e]} \cup IF method = "RR" THEN {0} ELSE {}

\* A process is in a ready queue exactly when it waits for the CPU, once, in one
\* queue, that of its current priority, whatever mixture of aging, blocking,
\* waking, env_set_priority, killing and new arrays of queues it went through;
\* NEW and EXIT processes likewise in theirs.  Excepted are the processes that
\* one of the failures listed at gone dropped.
QueueMatchesPriority ==
  ~overrun => \A e \in Env \ gone :
    /\ IF status[e] = "READY" /\ e # proc
         THEN \E i \in Homes(e) : /\ Once(e, queue[i])
                                  /\ \A j \in Levels \ {i} : Occurrences(e, queue[j]) = {}
         ELSE \A i \in Levels : Occurrences(e, queue[i]) = {}
    /\ IF status[e] = "NEW" THEN Once(e, newq) ELSE Occurrences(e, newq) = {}
    /\ IF status[e] = "EXIT" THEN Once(e, exitq) ELSE Occurrences(e, exitq) = {}

\* Aging bounds the wait in clock interrupts, under any arrivals, blocking, waking
\* and priority changes of the other processes; the count starts again when the
\* process itself is given a priority, which puts it at the end of a queue.
BoundedWaiting ==
  ~overrun => \A e \in Env \ gone :
    status[e] = "READY" /\ ~Unserved(e) => waited[e] <= WaitBound

\* The scheduler gives way to the prompt only when no process is left to run: none
\* is RUNNING or BLOCKED, and READY are only those in a queue that is never looked
\* at.  Excepted are the processes that are in no queue, and a prompt that a panic
\* brings back with qlock locked (fos_scheduler's loop and get_into_prompt).
PromptWhenIdle ==
  [][started /\ ~started' /\ "qlock" \notin stuck' =>
       \A e \in Env \ gone : /\ status'[e] \notin {"RUNNING", "BLOCKED"}
                             /\ status'[e] = "READY" => Unserved(e)]_vars

\* A process in the exit queue never runs, is never queued and never becomes
\* READY again, whoever still names it in a system call.
ExitIsFinal ==
  [][\A e \in Env : status[e] \in {"EXIT", "UNKNOWN"} => status'[e] \in {"EXIT", "UNKNOWN"}]_vars

\* get_into_prompt is "the only way to get into the prompt ... to ensure correct
\* re-initializations": no kernel spinlock is locked there.  It resets ncli,
\* intena and proc, not the locks a panic left.
PromptHoldsNoLock == ~started => stuck = {}
=============================================================================
