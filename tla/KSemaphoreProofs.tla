-------------------------- MODULE KSemaphoreProofs --------------------------
(***************************************************************************)
(* Proofs about module KSemaphore, for any finite set of environments and  *)
(* any initial count: the kernel never panics, interrupts belong to the    *)
(* thread, and the semaphore's count always agrees with its queue.         *)
(***************************************************************************)
EXTENDS KSemaphore, TLAPS, FiniteSetTheorems, SequenceTheorems

\* acquire_kspinlock of a free lock: takes it, one pushcli deeper, interrupts
\* off, the old interrupt flag saved by the outermost call only.
LEMMA AcquireFree ==
  ASSUME NEW c \in Cpus, NEW lk \in Locks, lk \notin c.held,
         NEW d, d = acquire_kspinlock(c, lk)
  PROVE  /\ d \in Cpus
         /\ d.proc = c.proc /\ d.panic = c.panic /\ d.clk = c.clk
         /\ d.ncli = c.ncli + 1 /\ ~d.ien
         /\ d.held = c.held \cup {lk}
         /\ d.intena = IF c.ncli = 0 THEN c.ien ELSE c.intena
<1> DEFINE i == IF c.ncli = 0 THEN c.ien ELSE c.intena
           n == c.ncli + 1
           h == c.held \cup {lk}
           b == [c EXCEPT !.intena = i, !.ncli = n, !.ien = FALSE]
<1>1. i \in BOOLEAN /\ n \in Nat /\ h \in SUBSET Locks
  BY DEF Cpus
<1>2. d = [b EXCEPT !.held = h]
  BY DEF acquire_kspinlock, holding_kspinlock, pushcli, Cpus
<1> HIDE DEF i, n, h
<1>3. b \in Cpus /\ b.proc = c.proc /\ b.panic = c.panic /\ b.clk = c.clk
      /\ b.ncli = n /\ ~b.ien /\ b.intena = i
  BY Zenon, <1>1 DEF Cpus
<1> HIDE DEF b
<1>4. d \in Cpus /\ d.proc = c.proc /\ d.panic = c.panic /\ d.clk = c.clk
      /\ d.ncli = n /\ ~d.ien /\ d.intena = i /\ d.held = h
  BY <1>1, <1>2, <1>3 DEF Cpus
<1> QED
  BY <1>4 DEF i, n, h

\* release_kspinlock of a held lock: drops it, one popcli, and interrupts come
\* back on exactly when the outermost call saved them as on.
LEMMA ReleaseHeld ==
  ASSUME NEW c \in Cpus, NEW lk \in Locks, lk \in c.held, ~c.ien, c.ncli > 0,
         NEW d, d = release_kspinlock(c, lk)
  PROVE  /\ d \in Cpus
         /\ d.proc = c.proc /\ d.panic = c.panic /\ d.clk = c.clk
         /\ d.ncli = c.ncli - 1 /\ d.intena = c.intena
         /\ d.held = c.held \ {lk}
         /\ d.ien = (c.ncli = 1 /\ c.intena)
<1> DEFINE h == c.held \ {lk}
           b == [c EXCEPT !.held = h]
           n == b.ncli - 1
           f == b.ncli = 1 /\ b.intena
<1>1. d = popcli(b)
  BY DEF release_kspinlock, holding_kspinlock
<1>2. /\ b \in Cpus /\ b.ncli = c.ncli /\ b.ien = c.ien /\ b.intena = c.intena
      /\ b.proc = c.proc /\ b.panic = c.panic /\ b.clk = c.clk /\ b.held = h
  BY DEF Cpus
<1> HIDE DEF b
<1>3. n \in Nat /\ f \in BOOLEAN
  BY <1>2 DEF Cpus
<1>4. d = [b EXCEPT !.ncli = n, !.ien = f]
  BY <1>1, <1>2 DEF popcli, Cpus
<1> HIDE DEF n, f
<1>5. /\ d \in Cpus /\ d.ncli = n /\ d.ien = f /\ d.intena = b.intena
      /\ d.proc = b.proc /\ d.panic = b.panic /\ d.clk = b.clk /\ d.held = b.held
  BY Zenon, <1>2, <1>3, <1>4 DEF Cpus
<1> QED
  BY <1>2, <1>5 DEF n, f

\* When every process but e is outside the labels S, at most e is inside.
LEMMA CountOne ==
  ASSUME NEW P, NEW S, NEW e \in Env, \A f \in Env \ {e} : P[f] \notin S
  PROVE  Cardinality({f \in Env : P[f] \in S}) = IF P[e] \in S THEN 1 ELSE 0
<1>1. CASE P[e] \in S
  <2>1. {f \in Env : P[f] \in S} = {e}
    BY <1>1
  <2> QED
    BY Zenon, <1>1, <2>1, FS_Singleton
<1>2. CASE P[e] \notin S
  <2>1. {f \in Env : P[f] \in S} = {}
    BY <1>2
  <2> QED
    BY <1>2, <2>1, FS_EmptySet
<1> QED
  BY <1>1, <1>2

\* What the process at label l adds to each side of WaitersCounted, and the
\* number of sleepers that a count of n stands for.
InEntering(l) == IF l \in {"sleep", "sleep_release", "sleep_sched"} THEN 1 ELSE 0
InWaking(l) == IF l \in {"wakeup", "wakeup_dequeue"} THEN 1 ELSE 0
Deficit(n) == IF n < 0 THEN -n ELSE 0

\* Only the process on the CPU can be between the count update and the queue.
LEMMA OnlyOnCpu ==
  ASSUME LockInv, NEW e \in Env, OnCpu(e)
  PROVE  \A f \in Env \ {e} :
           pc[f] \notin {"sleep", "sleep_release", "sleep_sched", "wakeup", "wakeup_dequeue"}
  BY DEF LockInv, ThreadInv, RestingThreadInv, OnCpu, OpenPcs

\* Counting labels: when only e can be inside sleep or wakeup, the two counts of
\* WaitersCounted are decided by the label of e alone.
LEMMA CountsOf ==
  ASSUME NEW e \in Env, NEW P,
         \A f \in Env \ {e} :
           P[f] \notin {"sleep", "sleep_release", "sleep_sched", "wakeup", "wakeup_dequeue"}
  PROVE  /\ Cardinality({f \in Env : P[f] \in {"sleep", "sleep_release", "sleep_sched"}})
              = InEntering(P[e])
         /\ Cardinality({f \in Env : P[f] \in {"wakeup", "wakeup_dequeue"}})
              = InWaking(P[e])
<1> DEFINE S == {"sleep", "sleep_release", "sleep_sched"}
           W == {"wakeup", "wakeup_dequeue"}
<1>1. (\A f \in Env \ {e} : P[f] \notin S) /\ \A f \in Env \ {e} : P[f] \notin W
  OBVIOUS
<1>2. S = {"sleep", "sleep_release", "sleep_sched"} /\ W = {"wakeup", "wakeup_dequeue"}
  OBVIOUS
<1> HIDE DEF S, W
<1>3. Cardinality({f \in Env : P[f] \in S}) = IF P[e] \in S THEN 1 ELSE 0
  BY Zenon, <1>1, CountOne
<1>4. Cardinality({f \in Env : P[f] \in W}) = IF P[e] \in W THEN 1 ELSE 0
  BY Zenon, <1>1, CountOne
<1> QED
  BY <1>2, <1>3, <1>4 DEF InEntering, InWaking

\* The books before a step of the process on the CPU ...
LEMMA Books ==
  ASSUME LockInv, WaitersCounted, NEW e \in Env, OnCpu(e)
  PROVE  Len(chanq) + InEntering(pc[e]) = Deficit(count) + InWaking(pc[e])
  BY Zenon, OnlyOnCpu, CountsOf DEF WaitersCounted, Entering, Waking, Deficit

\* ... and what they must be for WaitersCounted to hold after it.
LEMMA BooksNext ==
  ASSUME LockInv, NEW e \in Env, OnCpu(e), NEW l, pc' = [pc EXCEPT ![e] = l],
         Len(chanq') + InEntering(l) = Deficit(count') + InWaking(l)
  PROVE  WaitersCounted'
<1>1. pc \in [Env -> Pcs]
  BY DEF LockInv, TypeOK, SchedTypeOK
<1>2. pc'[e] = l /\ \A f \in Env \ {e} : pc'[f] = pc[f]
  BY <1>1
<1>3. \A f \in Env \ {e} :
        pc'[f] \notin {"sleep", "sleep_release", "sleep_sched", "wakeup", "wakeup_dequeue"}
  BY <1>2, OnlyOnCpu
<1>4. Cardinality(Entering') = InEntering(l) /\ Cardinality(Waking') = InWaking(l)
  BY Zenon, <1>2, <1>3, CountsOf DEF Entering, Waking
<1> QED
  BY <1>4 DEF WaitersCounted, Deficit

\* The conditions under which a step of the process on the CPU in its own code,
\* to label l, keeps LockInv.
LEMMA OwnStep ==
  ASSUME LockInv, NEW e \in Env, OnCpu(e), irq[e] = "none",
         NEW l \in Pcs \ {"dead", "sleep_back"}, pc' = [pc EXCEPT ![e] = l],
         UNCHANGED <<spc, saved, irq>>,
         status' \in [Env -> Statuses], ready' \in Seq(Env), chanq' \in Seq(Env),
         channel' \in [Env -> BOOLEAN], count' \in Int,
         PlaceMatchesStatus',
         \A f \in Env : status[f] \in {"RUNNING", "EXIT"} => status'[f] = status[f],
         cpu' \in Cpus, cpu'.proc = cpu.proc, CpuInv', cpu'.held = HeldAt(l),
         l \in OpenPcs \ {"trapret"} => cpu'.ien,
         l \in GuardPcs \cup BothPcs \cup {"sleep_sched"} => cpu'.intena
  PROVE  LockInv'
<1>1. pc \in [Env -> Pcs] /\ spc = "switched" /\ cpu.proc = e
  BY DEF LockInv, TypeOK, SchedTypeOK, OnCpu
<1>2. pc' \in [Env -> Pcs] /\ pc'[e] = l /\ \A f \in Env \ {e} : pc'[f] = pc[f]
  BY <1>1
<1>3. TypeOK'
  BY <1>2 DEF LockInv, TypeOK, SchedTypeOK, ChannelTypeOK
<1>4. \A f \in Env : ThreadInv(f)'
  <2> SUFFICES ASSUME NEW f \in Env PROVE ThreadInv(f)'
    OBVIOUS
  <2>1. ThreadInv(f)
    BY DEF LockInv
  <2>2. CASE f = e
    <3>1. RunningThreadInv(e)'
      BY <1>1, <1>2, <2>1, <2>2 DEF RunningThreadInv, ThreadInv, OnCpu
    <3> QED
      BY <1>1, <1>2, <2>2, <3>1 DEF ThreadInv, OnCpu
  <2>3. CASE f # e
    BY <1>1, <1>2, <2>1, <2>3 DEF ThreadInv, OnCpu, RestingThreadInv
  <2> QED
    BY <2>2, <2>3
<1>5. SchedulerInv'
  BY <1>1, NullAssumption DEF SchedulerInv
<1> QED
  BY <1>3, <1>4, <1>5 DEF LockInv

\* The conditions under which a step inside a clock interrupt keeps LockInv.
LEMMA HandlerStep ==
  ASSUME LockInv, NEW e \in Env, OnCpu(e), pc[e] \in OpenPcs,
         NEW l \in IrqPcs \ {"yield_ret"}, irq' = [irq EXCEPT ![e] = l],
         UNCHANGED <<spc, status, ready, saved, pc, chanq, channel, count>>,
         cpu' \in Cpus, cpu'.proc = cpu.proc, CpuInv',
         l \in {"none", "yield", "iret"} => cpu'.held = {},
         l = "none" => cpu'.ien,
         l \in {"yield", "iret"} => ~cpu'.ien,
         l = "yield_sched" => cpu'.held = {"qlock"} /\ ~cpu'.intena
  PROVE  LockInv'
<1>1. irq \in [Env -> IrqPcs] /\ spc = "switched" /\ cpu.proc = e
  BY DEF LockInv, TypeOK, SchedTypeOK, OnCpu
<1>2. irq' \in [Env -> IrqPcs] /\ irq'[e] = l /\ \A f \in Env \ {e} : irq'[f] = irq[f]
  BY <1>1
<1>3. TypeOK'
  BY <1>2 DEF LockInv, TypeOK, SchedTypeOK, ChannelTypeOK
<1>4. \A f \in Env : ThreadInv(f)'
  <2> SUFFICES ASSUME NEW f \in Env PROVE ThreadInv(f)'
    OBVIOUS
  <2>1. ThreadInv(f)
    BY DEF LockInv
  <2>2. CASE f = e
    <3>1. HeldAt(pc[e]) = {} /\ pc[e] # "dead" /\ pc[e] # "sleep_back"
          /\ pc[e] \notin GuardPcs \cup BothPcs \cup {"sleep_sched"}
      BY DEF HeldAt, OpenPcs, GuardPcs, BothPcs, QueuePcs
    <3>2. RunningThreadInv(e)'
      BY SMTT(60), <1>1, <1>2, <2>1, <2>2, <3>1 DEF RunningThreadInv, ThreadInv, OnCpu, IrqPcs
    <3> QED
      BY <1>1, <1>2, <2>2, <3>1, <3>2 DEF ThreadInv, OnCpu
  <2>3. CASE f # e
    BY <1>1, <1>2, <2>1, <2>3 DEF ThreadInv, OnCpu, RestingThreadInv
  <2> QED
    BY <2>2, <2>3
<1>5. SchedulerInv'
  BY <1>1, NullAssumption DEF SchedulerInv
<1>6. PlaceMatchesStatus'
  BY DEF PlaceMatchesStatus, NoDuplicates, InSeq, LockInv
<1> QED
  BY <1>3, <1>4, <1>5, <1>6 DEF LockInv

\* What LockInv says of the process on the CPU, in one place.
LEMMA OnCpuFacts ==
  ASSUME LockInv, NEW e \in Env, OnCpu(e)
  PROVE  /\ cpu \in Cpus /\ ~cpu.panic /\ cpu.held \in SUBSET Locks
         /\ cpu.held = {} => cpu.ncli = 0
         /\ cpu.held = {"lk"} \/ cpu.held = {"qlock"} => cpu.ncli = 1
         /\ cpu.held = {"lk", "qlock"} => cpu.ncli = 2
         /\ cpu.held # {} => ~cpu.ien
         /\ RunningThreadInv(e)
         /\ irq[e] # "none" => pc[e] \in OpenPcs
         /\ irq[e] = "yield_ret" => ~saved[e]
         /\ pc[e] = "sleep_back" => saved[e]
         /\ status \in [Env -> Statuses] /\ ready \in Seq(Env) /\ chanq \in Seq(Env)
         /\ channel \in [Env -> BOOLEAN] /\ count \in Int
         /\ PlaceMatchesStatus
<1>1. CpuInv /\ TypeOK /\ ThreadInv(e) /\ PlaceMatchesStatus
  BY DEF LockInv
<1>2. cpu \in Cpus /\ cpu.held \in SUBSET Locks /\ cpu.ncli \in Nat
  BY <1>1 DEF TypeOK, SchedTypeOK, Cpus
<1>3. RunningThreadInv(e)
  BY <1>1 DEF ThreadInv
<1>4. /\ cpu.held = {} => cpu.ncli = 0
      /\ cpu.held = {"lk"} \/ cpu.held = {"qlock"} => cpu.ncli = 1
      /\ cpu.held = {"lk", "qlock"} => cpu.ncli = 2
  BY <1>1 DEF CpuInv, One
<1> QED
  BY <1>1, <1>2, <1>3, <1>4
  DEF CpuInv, ThreadInv, TypeOK, SchedTypeOK, ChannelTypeOK

\* Taking a free lock, and dropping a held one, keep CpuInv.
LEMMA TakeLock ==
  ASSUME LockInv, NEW lk \in Locks, lk \notin cpu.held,
         cpu' = acquire_kspinlock(cpu, lk)
  PROVE  /\ cpu' \in Cpus /\ cpu'.proc = cpu.proc /\ CpuInv'
         /\ cpu'.held = cpu.held \cup {lk} /\ ~cpu'.ien
         /\ cpu.held = {} => cpu'.intena = cpu.ien
         /\ cpu.held # {} => cpu'.intena = cpu.intena
<1>1. cpu \in Cpus /\ CpuInv
  BY DEF LockInv, TypeOK, SchedTypeOK
<1>2. /\ cpu' \in Cpus /\ cpu'.proc = cpu.proc /\ cpu'.panic = cpu.panic
      /\ cpu'.ncli = cpu.ncli + 1 /\ ~cpu'.ien /\ cpu'.held = cpu.held \cup {lk}
      /\ cpu'.intena = IF cpu.ncli = 0 THEN cpu.ien ELSE cpu.intena
  BY <1>1, AcquireFree
<1>3. cpu.held \in SUBSET {"qlock", "lk"} /\ (lk = "lk" \/ lk = "qlock")
  BY <1>1 DEF Cpus, Locks
<1>4. (cpu.held = {} => cpu.ncli = 0) /\ (cpu.held # {} => cpu.ncli # 0)
  BY <1>1, <1>3 DEF CpuInv, One
<1>5. CpuInv'
  BY <1>1, <1>2, <1>3 DEF CpuInv, One
<1> QED
  BY <1>2, <1>4, <1>5

\* Releasing a held lock keeps CpuInv; c is the CPU with the intena the process
\* brought back from its switch.
LEMMA DropLock ==
  ASSUME LockInv, NEW lk \in Locks, lk \in cpu.held, NEW c \in Cpus,
         c.held = cpu.held, c.ncli = cpu.ncli, c.ien = cpu.ien,
         c.panic = cpu.panic, c.proc = cpu.proc,
         cpu' = release_kspinlock(c, lk)
  PROVE  /\ cpu' \in Cpus /\ cpu'.proc = cpu.proc /\ CpuInv'
         /\ cpu'.held = cpu.held \ {lk} /\ cpu'.intena = c.intena
         /\ cpu'.ien = (cpu.held = {lk} /\ c.intena)
<1>1. cpu \in Cpus /\ CpuInv
  BY DEF LockInv, TypeOK, SchedTypeOK
<1>2. cpu.held \in SUBSET {"qlock", "lk"} /\ (lk = "lk" \/ lk = "qlock")
  BY <1>1 DEF Cpus, Locks
<1>3. ~cpu.ien /\ cpu.ncli > 0
  BY <1>1, <1>2 DEF CpuInv, One
<1>4. /\ cpu' \in Cpus /\ cpu'.proc = cpu.proc /\ cpu'.panic = cpu.panic
      /\ cpu'.ncli = cpu.ncli - 1 /\ cpu'.intena = c.intena
      /\ cpu'.held = cpu.held \ {lk} /\ cpu'.ien = (cpu.ncli = 1 /\ c.intena)
  BY <1>3, ReleaseHeld
<1>5. cpu.ncli = 1 <=> cpu.held = {lk}
  BY <1>1, <1>2 DEF CpuInv, One
<1>6. ~cpu'.panic /\ cpu'.ncli = One("qlock")' + One("lk")'
  BY <1>1, <1>2, <1>4 DEF CpuInv, One
<1>7. cpu'.held # {} => ~cpu'.ien
  BY Zenon, <1>4, <1>5
<1> QED
  BY <1>4, <1>5, <1>6, <1>7 DEF CpuInv
\* Queues as sets: what enqueue (Append) and dequeue (Tail) do to membership.
LEMMA AppendPlaces ==
  ASSUME NEW s \in Seq(Env), NEW x \in Env
  PROVE  /\ Append(s, x) \in Seq(Env)
         /\ \A y : InSeq(y, Append(s, x)) <=> InSeq(y, s) \/ y = x
         /\ NoDuplicates(s) /\ ~InSeq(x, s) => NoDuplicates(Append(s, x))
<1> DEFINE t == Append(s, x)
<1>1. t \in Seq(Env) /\ Len(t) = Len(s) + 1 /\ t[Len(s) + 1] = x
      /\ Len(s) \in Nat /\ \A i \in 1..Len(s) : t[i] = s[i]
  OBVIOUS
<1> HIDE DEF t
<1>2. \A i \in 1..Len(t) : i \in 1..Len(s) \/ i = Len(s) + 1
  BY <1>1
<1>3. \A y : InSeq(y, t) <=> InSeq(y, s) \/ y = x
  <2> SUFFICES ASSUME NEW y PROVE InSeq(y, t) <=> InSeq(y, s) \/ y = x
    OBVIOUS
  <2>1. Len(s) + 1 \in 1..Len(t) /\ 1..Len(s) \subseteq 1..Len(t)
    BY <1>1
  <2> QED
    BY <1>1, <1>2, <2>1 DEF InSeq
<1>4. ASSUME NoDuplicates(s), ~InSeq(x, s) PROVE NoDuplicates(t)
  BY <1>1, <1>2, <1>4 DEF NoDuplicates, InSeq
<1> QED
  BY <1>1, <1>3, <1>4 DEF t

\* dequeue takes exactly the head out of a queue without duplicates.
LEMMA TailPlaces ==
  ASSUME NEW s \in Seq(Env), s # <<>>, NoDuplicates(s)
  PROVE  /\ Tail(s) \in Seq(Env) /\ Head(s) \in Env /\ InSeq(Head(s), s)
         /\ \A y : InSeq(y, Tail(s)) <=> InSeq(y, s) /\ y # Head(s)
         /\ NoDuplicates(Tail(s))
<1> DEFINE t == Tail(s)
<1>1. /\ t \in Seq(Env) /\ Len(s) \in Nat /\ Len(s) >= 1 /\ Len(t) = Len(s) - 1
      /\ Head(s) = s[1] /\ \A i \in 1..Len(t) : t[i] = s[i + 1]
  OBVIOUS
<1> HIDE DEF t
<1>2. s[1] \in Env /\ 1 \in 1..Len(s) /\ \A i \in 1..Len(t) : i + 1 \in 1..Len(s) /\ i + 1 # 1
  BY <1>1
<1>3. \A i \in 1..Len(s) : i = 1 \/ (i - 1 \in 1..Len(t) /\ t[i - 1] = s[i])
  BY <1>1
<1>4. \A y : InSeq(y, t) <=> InSeq(y, s) /\ y # Head(s)
  <2> TAKE y
  <2>1. InSeq(y, t) => InSeq(y, s) /\ y # Head(s)
    BY <1>1, <1>2 DEF InSeq, NoDuplicates
  <2>2. InSeq(y, s) /\ y # Head(s) => InSeq(y, t)
    BY SMTT(60), <1>1, <1>3 DEF InSeq
  <2> QED
    BY <2>1, <2>2
<1>5. NoDuplicates(t)
  <2> SUFFICES ASSUME NEW i \in 1..Len(t), NEW j \in 1..Len(t), t[i] = t[j] PROVE i = j
    BY DEF NoDuplicates
  <2>1. s[i + 1] = s[j + 1] /\ i + 1 \in 1..Len(s) /\ j + 1 \in 1..Len(s)
    BY <1>1, <1>2
  <2> QED
    BY <2>1 DEF NoDuplicates
<1> QED
  BY <1>1, <1>2, <1>4, <1>5 DEF t, InSeq

\* A step that leaves the statuses, the queues and the process on the CPU alone
\* keeps every process in its place.
LEMMA PlaceUnchanged ==
  ASSUME PlaceMatchesStatus, UNCHANGED <<status, ready, chanq>>, cpu'.proc = cpu.proc
  PROVE  PlaceMatchesStatus'
  BY DEF PlaceMatchesStatus, NoDuplicates, InSeq

\* sched() by the process on the CPU passes its checks and switches: qlock is
\* the one lock held and the status is no longer RUNNING.
LEMMA SwitchAway ==
  ASSUME LockInv, NEW e \in Env, OnCpu(e), cpu.held = {"qlock"},
         NEW s \in {"READY", "BLOCKED", "EXIT"},
         sched(e, cpu, [status EXCEPT ![e] = s]),
         pc' \in [Env -> Pcs], irq' \in [Env -> IrqPcs],
         \A f \in Env \ {e} : pc'[f] = pc[f] /\ irq'[f] = irq[f],
         \/ irq'[e] = "yield_ret" /\ pc'[e] \in OpenPcs /\ ~cpu.intena
         \/ irq'[e] = "none" /\ pc'[e] = "sleep_back" /\ cpu.intena
         \/ irq'[e] = "none" /\ pc'[e] = "dead" /\ s = "EXIT",
         UNCHANGED <<ready, count>>, channel' \in [Env -> BOOLEAN],
         IF s = "BLOCKED" THEN chanq' = Append(chanq, e) ELSE chanq' = chanq
  PROVE  LockInv'
<1>1. /\ cpu \in Cpus /\ ~cpu.panic /\ cpu.ncli = 1 /\ ~cpu.ien /\ cpu.proc = e
      /\ status \in [Env -> Statuses] /\ status[e] = "RUNNING"
      /\ ready \in Seq(Env) /\ chanq \in Seq(Env) /\ count \in Int
      /\ PlaceMatchesStatus /\ CpuInv
  BY OnCpuFacts DEF RunningThreadInv, OnCpu, LockInv
<1>2. cpu.intena \in BOOLEAN /\ saved \in [Env -> BOOLEAN]
  BY DEF LockInv, TypeOK, SchedTypeOK, Cpus
<1> DEFINE st == [status EXCEPT ![e] = s]
<1>3. st \in [Env -> Statuses] /\ st[e] = s /\ \A f \in Env \ {e} : st[f] = status[f]
  BY <1>1 DEF Statuses
<1> HIDE DEF st
<1>4. status' = st /\ cpu' = cpu /\ spc' = "returned" /\ saved' = [saved EXCEPT ![e] = cpu.intena]
  BY <1>1, <1>3 DEF sched, holding_kspinlock, st
<1>5. saved' \in [Env -> BOOLEAN] /\ saved'[e] = cpu.intena /\ \A f \in Env \ {e} : saved'[f] = saved[f]
  BY <1>2, <1>4
<1>6. ~InSeq(e, chanq) /\ ~InSeq(e, ready)
  BY <1>1 DEF PlaceMatchesStatus
<1>7. chanq' \in Seq(Env) /\ NoDuplicates(chanq')
      /\ \A f \in Env : InSeq(f, chanq') <=> status'[f] = "BLOCKED"
  <2>1. CASE s = "BLOCKED"
    <3>1. chanq' = Append(chanq, e) /\ NoDuplicates(chanq)
          /\ \A f \in Env : InSeq(f, chanq) <=> status[f] = "BLOCKED"
      BY <1>1, <2>1 DEF PlaceMatchesStatus
    <3>2. /\ chanq' \in Seq(Env) /\ NoDuplicates(chanq')
          /\ \A y : InSeq(y, chanq') <=> InSeq(y, chanq) \/ y = e
      BY SMTT(60), <1>1, <1>6, <3>1, AppendPlaces
    <3> QED
      BY SMTT(60), <1>1, <1>3, <1>4, <2>1, <3>1, <3>2
  <2>2. CASE s # "BLOCKED"
    <3>1. chanq' = chanq /\ NoDuplicates(chanq)
          /\ \A f \in Env : InSeq(f, chanq) <=> status[f] = "BLOCKED"
      BY SMTT(60), <1>1, <2>2 DEF PlaceMatchesStatus
    <3> QED
      BY SMTT(60), <1>1, <1>3, <1>4, <1>6, <2>2, <3>1
  <2> QED
    BY <2>1, <2>2
<1>8. NoDuplicates(ready') /\ \A f \in Env :
        /\ InSeq(f, ready') <=> status'[f] = "READY" /\ f # cpu'.proc
        /\ status'[f] = "RUNNING" => f = cpu'.proc
  <2>1. NoDuplicates(ready) /\ \A f \in Env :
          /\ InSeq(f, ready) <=> status[f] = "READY" /\ f # cpu.proc
          /\ status[f] = "RUNNING" => f = cpu.proc
    BY <1>1 DEF PlaceMatchesStatus
  <2>2. NoDuplicates(ready') /\ \A f \in Env : InSeq(f, ready') <=> InSeq(f, ready)
    BY <2>1 DEF NoDuplicates, InSeq
  <2>3. cpu'.proc = e /\ status'[e] = s /\ s # "RUNNING"
        /\ \A f \in Env \ {e} : status'[f] = status[f]
    BY <1>1, <1>3, <1>4
  <2> QED
    BY SMTT(60), <1>1, <1>6, <2>1, <2>2, <2>3
<1>9. TypeOK'
  BY SMTT(60), <1>1, <1>3, <1>4, <1>5, <1>7 DEF TypeOK, SchedTypeOK, ChannelTypeOK, SchedPcs
<1>10. \A f \in Env : ThreadInv(f)'
  <2> SUFFICES ASSUME NEW f \in Env PROVE ThreadInv(f)'
    OBVIOUS
  <2>1. ThreadInv(f)
    BY DEF LockInv
  <2>2. CASE f = e
    BY SMTT(60), <1>1, <1>3, <1>4, <1>5, <2>2 DEF ThreadInv, OnCpu, RestingThreadInv, OpenPcs
  <2>3. CASE f # e
    BY SMTT(60), <1>1, <1>3, <1>4, <1>5, <2>1, <2>3 DEF ThreadInv, OnCpu, RestingThreadInv
  <2> QED
    BY <2>2, <2>3
<1>11. SchedulerInv'
  BY <1>1, <1>3, <1>4, NullAssumption DEF SchedulerInv
<1>12. CpuInv'
  BY SMTT(60), <1>1, <1>4 DEF CpuInv, One
<1> QED
  BY SMTT(60), <1>7, <1>8, <1>9, <1>10, <1>11, <1>12 DEF LockInv, PlaceMatchesStatus
-----------------------------------------------------------------------------
(* The calls a process makes in its own code. *)

\* acquire_kspinlock by the process on the CPU: from label k to label l.
LEMMA AcquireStep ==
  ASSUME LockInv, NEW e \in Env, NEW k, At(e, k), NEW lk \in Locks,
         NEW l \in Pcs \ {"dead", "sleep_back"}, lk \notin HeldAt(k),
         HeldAt(l) = HeldAt(k) \cup {lk}, l \notin OpenPcs,
         k \in (OpenPcs \ {"trapret"}) \cup GuardPcs,
         cpu' = acquire_kspinlock(cpu, lk), Goto(e, l),
         UNCHANGED <<spc, status, ready, saved, irq, chanq, count>>,
         channel' \in [Env -> BOOLEAN]
  PROVE  LockInv'
<1>1. OnCpu(e) /\ irq[e] = "none" /\ pc[e] = k
  BY DEF At, Running, OnCpu
<1>2. cpu.held = HeldAt(k) /\ (k \in OpenPcs => cpu.ien) /\ (k \in GuardPcs => cpu.intena)
  BY SMTT(60), <1>1, OnCpuFacts DEF RunningThreadInv, OpenPcs, GuardPcs
<1>3. /\ cpu' \in Cpus /\ cpu'.proc = cpu.proc /\ CpuInv'
      /\ cpu'.held = HeldAt(l)
      /\ cpu.held = {} => cpu'.intena = cpu.ien
      /\ cpu.held # {} => cpu'.intena = cpu.intena
  BY <1>2, TakeLock
<1>4. cpu'.intena
  <2>1. (k \in OpenPcs => cpu.held = {}) /\ (k \in GuardPcs => cpu.held # {})
    BY SMTT(60), <1>2 DEF HeldAt, OpenPcs, GuardPcs, BothPcs, QueuePcs
  <2> QED
    BY <1>2, <1>3, <2>1
<1>5. PlaceMatchesStatus'
  BY SMTT(60), <1>1, <1>3, OnCpuFacts DEF PlaceMatchesStatus, NoDuplicates, InSeq
<1> QED
  BY ZenonT(60), <1>1, <1>3, <1>4, <1>5, OnCpuFacts, OwnStep DEF Goto

\* release_kspinlock by the process on the CPU, which lately may have been
\* resumed by the scheduler: c is the CPU as the process sees it.
LEMMA ReleaseStep ==
  ASSUME LockInv, NEW e \in Env, NEW k, At(e, k), NEW lk \in Locks,
         NEW l \in Pcs \ {"dead", "sleep_back"}, lk \in HeldAt(k),
         HeldAt(l) = HeldAt(k) \ {lk},
         NEW c \in Cpus, c.held = cpu.held, c.ncli = cpu.ncli, c.ien = cpu.ien,
         c.panic = cpu.panic, c.proc = cpu.proc, l # "trapret" => c.intena,
         cpu' = release_kspinlock(c, lk), Goto(e, l),
         UNCHANGED <<spc, status, ready, saved, irq, chanq, channel, count>>
  PROVE  LockInv'
<1>1. OnCpu(e) /\ irq[e] = "none" /\ pc[e] = k
  BY DEF At, Running, OnCpu
<1>2. cpu.held = HeldAt(k)
  BY SMTT(60), <1>1, OnCpuFacts DEF RunningThreadInv
<1>3. /\ cpu' \in Cpus /\ cpu'.proc = cpu.proc /\ CpuInv'
      /\ cpu'.held = HeldAt(l) /\ cpu'.intena = c.intena
      /\ cpu'.ien = (cpu.held = {lk} /\ c.intena)
  BY <1>2, DropLock
<1>4. l \in OpenPcs \ {"trapret"} => cpu'.ien
  <2>1. l \in OpenPcs => HeldAt(l) = {}
    BY DEF HeldAt, OpenPcs, GuardPcs, BothPcs, QueuePcs
  <2> QED
    BY Zenon, <1>2, <1>3, <2>1
<1>5. l \in GuardPcs \cup BothPcs \cup {"sleep_sched"} => cpu'.intena
  BY <1>3 DEF GuardPcs, BothPcs
<1>6. PlaceMatchesStatus'
  BY <1>1, <1>3, OnCpuFacts DEF PlaceMatchesStatus, NoDuplicates, InSeq
<1> QED
  BY Zenon, <1>1, <1>3, <1>4, <1>5, <1>6, OnCpuFacts, OwnStep DEF Goto

\* Every step of wait_ksemaphore keeps LockInv ...
LEMMA WaitLocks ==
  ASSUME LockInv, NEW e \in Env, wait_ksemaphore(e)
  PROVE  LockInv'
<1> USE DEF chanVars, Locks, HeldAt, GuardPcs, BothPcs, QueuePcs, OpenPcs, Pcs,
            ThreadPcs, SleepPcs, WakeupPcs
<1>1. CASE WaitAcquire(e)
  <2>1. channel' \in [Env -> BOOLEAN]
    BY <1>1 DEF WaitAcquire, LockInv, TypeOK, ChannelTypeOK
  <2> QED
    BY <1>1, <2>1, AcquireStep DEF WaitAcquire
<1>2. CASE WaitDec(e)
  <2> DEFINE l == IF count' < 0 THEN "sleep" ELSE "wait_release"
  <2>1. OnCpu(e) /\ irq[e] = "none" /\ pc[e] = "wait_dec"
    BY <1>2 DEF WaitDec, At, Running, OnCpu
  <2>2. cpu.held = {"lk"} /\ cpu.intena /\ CpuInv'
    BY SMTT(60), <1>2, <2>1, OnCpuFacts DEF WaitDec, RunningThreadInv, LockInv, CpuInv, One
  <2>3. count' \in Int
    BY <1>2, <2>1, OnCpuFacts DEF WaitDec
  <2>4. l \in Pcs \ {"dead", "sleep_back"} /\ HeldAt(l) = {"lk"} /\ l \notin OpenPcs
    OBVIOUS
  <2>5. pc' = [pc EXCEPT ![e] = l] /\ UNCHANGED <<cpu, spc, status, ready, saved, irq, chanq, channel>>
    BY SMTT(60), <1>2 DEF WaitDec, Goto
  <2>6. PlaceMatchesStatus'
    BY <2>1, <2>5, OnCpuFacts DEF PlaceMatchesStatus, NoDuplicates, InSeq
  <2> HIDE DEF l
  <2> QED
    BY ZenonT(60), <2>1, <2>2, <2>3, <2>4, <2>5, <2>6, OnCpuFacts, OwnStep
<1>3. CASE WaitRelease(e)
  <2>1. OnCpu(e) /\ irq[e] = "none" /\ pc[e] = "wait_release"
    BY <1>3 DEF WaitRelease, At, Running, OnCpu
  <2>2. cpu.intena /\ cpu \in Cpus
    BY <2>1, OnCpuFacts DEF RunningThreadInv
  <2> QED
    BY <1>3, <2>2, ReleaseStep DEF WaitRelease
<1>4. CASE SleepAcquire(e) /\ UNCHANGED count
  <2>1. channel' \in [Env -> BOOLEAN]
    BY <1>4 DEF SleepAcquire, LockInv, TypeOK, ChannelTypeOK
  <2> QED
    BY <1>4, <2>1, AcquireStep DEF SleepAcquire
<1>5. CASE SleepRelease(e) /\ UNCHANGED count
  <2>1. OnCpu(e) /\ irq[e] = "none" /\ pc[e] = "sleep_release"
    BY <1>5 DEF SleepRelease, At, Running, OnCpu
  <2>2. cpu.intena /\ cpu \in Cpus
    BY <2>1, OnCpuFacts DEF RunningThreadInv
  <2>3. HeldAt("sleep_sched") = HeldAt("sleep_release") \ {"lk"}
    OBVIOUS
  <2> QED
    BY <1>5, <2>2, <2>3, ReleaseStep DEF SleepRelease
<1>6. CASE SleepSched(e) /\ UNCHANGED count
  <2>1. OnCpu(e) /\ irq[e] = "none" /\ pc[e] = "sleep_sched"
    BY <1>6 DEF SleepSched, At, Running, OnCpu
  <2>2. cpu.held = {"qlock"} /\ cpu.intena
    BY <2>1, OnCpuFacts DEF RunningThreadInv
  <2>3. /\ pc \in [Env -> Pcs] /\ irq \in [Env -> IrqPcs]
        /\ channel \in [Env -> BOOLEAN]
    BY DEF LockInv, TypeOK, SchedTypeOK, ChannelTypeOK
  <2>4. /\ pc' \in [Env -> Pcs] /\ pc'[e] = "sleep_back"
        /\ \A f \in Env \ {e} : pc'[f] = pc[f]
        /\ irq' = irq /\ ready' = ready /\ chanq' = Append(chanq, e)
        /\ channel' \in [Env -> BOOLEAN]
    BY <1>6, <2>3 DEF SleepSched, Goto
  <2>5. sched(e, cpu, [status EXCEPT ![e] = "BLOCKED"])
    BY <1>6 DEF SleepSched
  <2> QED
    BY Zenon, <1>6, <2>1, <2>2, <2>3, <2>4, <2>5, SwitchAway
<1>7. CASE SleepBack(e) /\ UNCHANGED count
  <2>1. OnCpu(e) /\ irq[e] = "none" /\ pc[e] = "sleep_back"
    BY <1>7 DEF SleepBack, At, Running, OnCpu
  <2>2. cpu \in Cpus /\ saved[e] \in BOOLEAN /\ saved[e]
    BY <2>1, OnCpuFacts DEF LockInv, TypeOK, SchedTypeOK
  <2> DEFINE c == sched_resumed(e)
  <2>3. /\ c \in Cpus /\ c.held = cpu.held /\ c.ncli = cpu.ncli /\ c.ien = cpu.ien
        /\ c.panic = cpu.panic /\ c.proc = cpu.proc /\ c.intena = saved[e]
    BY ZenonT(60), <2>2 DEF sched_resumed, Cpus
  <2>4. cpu' = release_kspinlock(c, "qlock")
    BY <1>7 DEF SleepBack
  <2> HIDE DEF c
  <2> QED
    BY Zenon, <1>7, <2>2, <2>3, <2>4, ReleaseStep DEF SleepBack
<1>8. CASE SleepReacquire(e, "wait_release") /\ UNCHANGED count
  <2>1. channel' \in [Env -> BOOLEAN]
    BY <1>8 DEF SleepReacquire, LockInv, TypeOK, ChannelTypeOK
  <2> QED
    BY <1>8, <2>1, AcquireStep DEF SleepReacquire
<1> QED
  BY SMTT(60), <1>1, <1>2, <1>3, <1>4, <1>5, <1>6, <1>7, <1>8 DEF wait_ksemaphore, sleep

\* Every step of signal_ksemaphore keeps LockInv.
LEMMA SignalLocks ==
  ASSUME LockInv, NEW e \in Env, signal_ksemaphore(e)
  PROVE  LockInv'
<1> USE DEF chanVars, Locks, HeldAt, GuardPcs, BothPcs, QueuePcs, OpenPcs, Pcs,
            ThreadPcs, SleepPcs, WakeupPcs
<1>1. CASE SignalAcquire(e)
  <2>1. channel' \in [Env -> BOOLEAN]
    BY <1>1 DEF SignalAcquire, LockInv, TypeOK, ChannelTypeOK
  <2> QED
    BY <1>1, <2>1, AcquireStep DEF SignalAcquire
<1>2. CASE SignalInc(e)
  <2> DEFINE l == IF count' <= 0 THEN "wakeup" ELSE "signal_release"
  <2>1. OnCpu(e) /\ irq[e] = "none" /\ pc[e] = "signal_inc"
    BY SMTT(60), <1>2 DEF SignalInc, At, Running, OnCpu
  <2>2. cpu.held = {"lk"} /\ cpu.intena /\ CpuInv'
    BY SMTT(60), <1>2, <2>1, OnCpuFacts DEF SignalInc, RunningThreadInv, LockInv, CpuInv, One
  <2>3. count' \in Int
    BY <1>2, <2>1, OnCpuFacts DEF SignalInc
  <2>4. l \in Pcs \ {"dead", "sleep_back"} /\ HeldAt(l) = {"lk"} /\ l \notin OpenPcs
    OBVIOUS
  <2>5. pc' = [pc EXCEPT ![e] = l] /\ UNCHANGED <<cpu, spc, status, ready, saved, irq, chanq, channel>>
    BY SMTT(60), <1>2 DEF SignalInc, Goto
  <2>6. PlaceMatchesStatus'
    BY <2>1, <2>5, OnCpuFacts DEF PlaceMatchesStatus, NoDuplicates, InSeq
  <2> HIDE DEF l
  <2> QED
    BY Zenon, <2>1, <2>2, <2>3, <2>4, <2>5, <2>6, OnCpuFacts, OwnStep
<1>3. CASE SignalRelease(e)
  <2>1. OnCpu(e) /\ irq[e] = "none" /\ pc[e] = "signal_release"
    BY <1>3 DEF SignalRelease, At, Running, OnCpu
  <2>2. cpu.intena /\ cpu \in Cpus
    BY <2>1, OnCpuFacts DEF RunningThreadInv
  <2> QED
    BY <1>3, <2>2, ReleaseStep DEF SignalRelease
<1>4. CASE WakeupAcquire(e) /\ UNCHANGED count
  <2>1. channel' \in [Env -> BOOLEAN]
    BY SMTT(60), <1>4 DEF WakeupAcquire, LockInv, TypeOK, ChannelTypeOK
  <2> QED
    BY <1>4, <2>1, AcquireStep DEF WakeupAcquire
<1>5. CASE WakeupOneDequeue(e) /\ UNCHANGED count
  <2>1. OnCpu(e) /\ irq[e] = "none" /\ pc[e] = "wakeup_dequeue"
    BY <1>5 DEF WakeupOneDequeue, At, Running, OnCpu
  <2>2. cpu.held = {"lk", "qlock"} /\ cpu.intena /\ CpuInv'
    BY <1>5, <2>1, OnCpuFacts DEF WakeupOneDequeue, RunningThreadInv, LockInv, CpuInv, One
  <2>3. pc' = [pc EXCEPT ![e] = "wakeup_release"] /\ UNCHANGED <<cpu, spc, saved, irq, count>>
    BY <1>5 DEF WakeupOneDequeue, Goto
  <2>4. /\ status' \in [Env -> Statuses] /\ ready' \in Seq(Env) /\ chanq' \in Seq(Env)
        /\ channel' \in [Env -> BOOLEAN] /\ PlaceMatchesStatus'
        /\ \A f \in Env : status[f] \in {"RUNNING", "EXIT"} => status'[f] = status[f]
    <3>1. /\ status \in [Env -> Statuses] /\ ready \in Seq(Env) /\ chanq \in Seq(Env)
          /\ channel \in [Env -> BOOLEAN] /\ PlaceMatchesStatus
          /\ status[e] = "RUNNING" /\ cpu.proc = e
      BY <2>1, OnCpuFacts DEF RunningThreadInv, OnCpu
    <3>2. CASE chanq = <<>>
      <4>1. UNCHANGED <<status, ready, chanq, channel>>
        BY SMTT(60), <1>5, <3>2 DEF WakeupOneDequeue
      <4> QED
        BY <2>3, <3>1, <4>1, PlaceUnchanged
    <3>3. CASE chanq # <<>>
      <4> DEFINE h == Head(chanq)
      <4>1. /\ h \in Env /\ InSeq(h, chanq) /\ Tail(chanq) \in Seq(Env)
            /\ \A y : InSeq(y, Tail(chanq)) <=> InSeq(y, chanq) /\ y # h
            /\ NoDuplicates(Tail(chanq))
        BY <3>1, <3>3, TailPlaces DEF PlaceMatchesStatus
      <4>2. /\ chanq' = Tail(chanq) /\ status' = [status EXCEPT ![h] = "READY"]
            /\ channel' = [channel EXCEPT ![h] = FALSE] /\ ready' = Append(ready, h)
        BY <1>5, <3>3 DEF WakeupOneDequeue
      <4> HIDE DEF h
      <4>3. status[h] = "BLOCKED" /\ h # e /\ ~InSeq(h, ready)
        BY <3>1, <4>1 DEF PlaceMatchesStatus
      <4>4. /\ status' \in [Env -> Statuses] /\ status'[h] = "READY"
            /\ \A f \in Env \ {h} : status'[f] = status[f]
        BY <3>1, <4>1, <4>2 DEF Statuses
      <4>5. /\ ready' \in Seq(Env) /\ NoDuplicates(ready')
            /\ \A y : InSeq(y, ready') <=> InSeq(y, ready) \/ y = h
        BY SMTT(60), <3>1, <4>1, <4>2, <4>3, AppendPlaces DEF PlaceMatchesStatus
      <4>6. PlaceMatchesStatus'
        <5>1. \A f \in Env : InSeq(f, chanq') <=> status'[f] = "BLOCKED"
          BY SMTT(60), <3>1, <4>1, <4>2, <4>3, <4>4 DEF PlaceMatchesStatus
        <5>2. \A f \in Env : InSeq(f, ready') <=> status'[f] = "READY" /\ f # cpu'.proc
          BY SMTT(60), <2>3, <3>1, <4>3, <4>4, <4>5 DEF PlaceMatchesStatus
        <5>3. \A f \in Env : status'[f] = "RUNNING" => f = cpu'.proc
          BY <2>3, <3>1, <4>4 DEF PlaceMatchesStatus
        <5> QED
          BY SMTT(60), <4>1, <4>2, <4>5, <5>1, <5>2, <5>3 DEF PlaceMatchesStatus
      <4> QED
        BY SMTT(60), <3>1, <4>1, <4>2, <4>3, <4>4, <4>5, <4>6
    <3> QED
      BY <3>2, <3>3
  <2>5. HeldAt("wakeup_release") = {"lk", "qlock"}
    OBVIOUS
  <2> QED
    BY Zenon, <2>1, <2>2, <2>3, <2>4, <2>5, OnCpuFacts, OwnStep
<1>6. CASE WakeupRelease(e, "signal_release") /\ UNCHANGED count
  <2>1. OnCpu(e) /\ irq[e] = "none" /\ pc[e] = "wakeup_release"
    BY <1>6 DEF WakeupRelease, At, Running, OnCpu
  <2>2. cpu.intena /\ cpu \in Cpus
    BY <2>1, OnCpuFacts DEF RunningThreadInv
  <2>3. HeldAt("signal_release") = HeldAt("wakeup_release") \ {"qlock"}
    OBVIOUS
  <2> QED
    BY SMTT(60), <1>6, <2>2, <2>3, ReleaseStep DEF WakeupRelease
<1> QED
  BY SMTT(60), <1>1, <1>2, <1>3, <1>4, <1>5, <1>6 DEF signal_ksemaphore, wakeup_one

\* The other steps of a thread: starting, system call entry and exit, env_exit.
LEMMA ThreadLocks ==
  ASSUME LockInv, NEW e \in Env,
         \/ ThreadStep(e)
         \/ \E l \in {"wait", "signal", "exit"} : SyscallTo(e, l),
         UNCHANGED <<chanVars, count>>
  PROVE  LockInv'
<1> USE DEF chanVars, Locks, HeldAt, GuardPcs, BothPcs, QueuePcs, OpenPcs, Pcs,
            ThreadPcs, SleepPcs, WakeupPcs
<1>1. CASE EnvStart(e)
  <2>1. OnCpu(e) /\ cpu \in Cpus
    BY <1>1, OnCpuFacts DEF EnvStart, At, Running, OnCpu
  <2> QED
    BY SMTT(60), <1>1, <2>1, ReleaseStep DEF EnvStart
<1>2. ASSUME NEW k \in OpenPcs, NEW l \in OpenPcs \ {"trapret"}, At(e, k), Goto(e, l),
             NEW b \in BOOLEAN, cpu' = [cpu EXCEPT !.clk = b, !.ien = TRUE],
             UNCHANGED <<spc, status, ready, saved, irq>>
      PROVE  LockInv'
  <2>1. OnCpu(e) /\ irq[e] = "none" /\ pc[e] = k
    BY <1>2 DEF At, Running, OnCpu
  <2>2. cpu \in Cpus /\ cpu.held = {} /\ cpu.ncli = 0 /\ ~cpu.panic
    BY Zenon, <2>1, OnCpuFacts DEF RunningThreadInv
  <2>3. /\ cpu' \in Cpus /\ cpu'.held = {} /\ cpu'.ncli = 0 /\ ~cpu'.panic
        /\ cpu'.proc = cpu.proc /\ cpu'.ien
    BY ZenonT(60), <1>2, <2>2 DEF Cpus
  <2>4. CpuInv'
    BY <2>3 DEF CpuInv, One
  <2>5. PlaceMatchesStatus'
    BY <1>2, <2>1, <2>3, OnCpuFacts, PlaceUnchanged
  <2> QED
    BY ZenonT(60), <1>2, <2>1, <2>3, <2>4, <2>5, OnCpuFacts, OwnStep DEF Goto
<1>3. CASE TrapRet(e)
  <2>1. cpu \in Cpus
    BY DEF LockInv, TypeOK, SchedTypeOK
  <2>2. cpu' = [cpu EXCEPT !.clk = cpu.clk, !.ien = TRUE] /\ cpu.clk \in BOOLEAN
    BY Zenon, <1>3, <2>1 DEF TrapRet, Cpus
  <2> QED
    BY Zenon, <1>2, <1>3, <2>2 DEF TrapRet
<1>4. CASE SysRet(e) \/ \E l \in {"wait", "signal", "exit"} : SyscallTo(e, l)
  <2>1. cpu \in Cpus
    BY DEF LockInv, TypeOK, SchedTypeOK
  <2>2. cpu' = [cpu EXCEPT !.clk = TRUE, !.ien = TRUE]
    BY <1>4, <2>1 DEF SysRet, SyscallTo, kclock_resume, Cpus
  <2> QED
    BY Zenon, <1>2, <1>4, <2>2 DEF SysRet, SyscallTo
<1>5. CASE ExitAcquire(e)
  <2>1. channel' \in [Env -> BOOLEAN]
    BY DEF LockInv, TypeOK, ChannelTypeOK
  <2> QED
    BY <1>5, <2>1, AcquireStep DEF ExitAcquire
<1>6. CASE ExitSched(e)
  <2>1. OnCpu(e) /\ irq[e] = "none" /\ pc[e] = "exit_sched"
    BY <1>6 DEF ExitSched, At, Running, OnCpu
  <2>2. cpu.held = {"qlock"}
    BY <2>1, OnCpuFacts DEF RunningThreadInv
  <2>3. /\ pc \in [Env -> Pcs] /\ irq \in [Env -> IrqPcs]
        /\ channel' \in [Env -> BOOLEAN]
    BY DEF LockInv, TypeOK, SchedTypeOK, ChannelTypeOK
  <2>4. /\ pc' \in [Env -> Pcs] /\ pc'[e] = "dead"
        /\ \A f \in Env \ {e} : pc'[f] = pc[f]
        /\ irq' = irq /\ ready' = ready /\ chanq' = chanq
    BY <1>6, <2>3 DEF ExitSched, Goto
  <2>5. sched(e, cpu, [status EXCEPT ![e] = "EXIT"])
    BY <1>6 DEF ExitSched
  <2> QED
    BY Zenon, <2>1, <2>2, <2>3, <2>4, <2>5, SwitchAway
<1> QED
  BY SMTT(60), <1>1, <1>3, <1>4, <1>5, <1>6 DEF ThreadStep

\* A clock interrupt and the yield inside it.
LEMMA InterruptLocks ==
  ASSUME LockInv, NEW e \in Env, InterruptStep(e), UNCHANGED <<chanVars, count>>
  PROVE  LockInv'
<1> USE DEF chanVars, Locks
<1>1. OnCpu(e)
  BY DEF InterruptStep, ClockInterrupt, YieldAcquire, YieldSched, YieldReturn,
         TrapReturn, Running, OnCpu
<1>2. /\ cpu \in Cpus /\ ~cpu.panic /\ CpuInv /\ RunningThreadInv(e)
      /\ irq[e] # "none" => pc[e] \in OpenPcs
  BY <1>1, OnCpuFacts DEF LockInv
<1>3. CASE ClockInterrupt(e)
  <2>1. cpu.ien /\ irq[e] = "none" /\ cpu.held = {} /\ cpu.ncli = 0
    BY <1>1, <1>2, <1>3, OnCpuFacts DEF ClockInterrupt, CpuInv
  <2>2. pc[e] \in OpenPcs
    <3>1. pc[e] \in Pcs /\ HeldAt(pc[e]) = {} /\ pc[e] # "dead"
      BY <1>1, <1>2, <2>1 DEF RunningThreadInv, LockInv, TypeOK, SchedTypeOK, ThreadInv
    <3> QED
      BY <3>1 DEF HeldAt, Pcs, OpenPcs, QueuePcs, GuardPcs, BothPcs, ThreadPcs,
                  SleepPcs, WakeupPcs
  <2>3. /\ cpu' \in Cpus /\ cpu'.held = {} /\ cpu'.ncli = 0 /\ ~cpu'.panic
        /\ cpu'.proc = cpu.proc /\ ~cpu'.ien
    BY Zenon, <1>2, <1>3, <2>1 DEF ClockInterrupt, kclock_stop, Cpus
  <2>4. CpuInv'
    BY <2>3 DEF CpuInv, One
  <2> QED
    BY Zenon, <1>1, <1>3, <2>2, <2>3, <2>4, HandlerStep DEF ClockInterrupt, IrqPcs
<1>4. CASE YieldAcquire(e)
  <2>1. cpu.held = {} /\ ~cpu.ien /\ pc[e] \in OpenPcs
    BY <1>2, <1>4 DEF YieldAcquire, RunningThreadInv
  <2>2. /\ cpu' \in Cpus /\ cpu'.proc = cpu.proc /\ CpuInv'
        /\ cpu'.held = {"qlock"} /\ ~cpu'.intena
    BY SMTT(60), <1>4, <2>1, TakeLock DEF YieldAcquire
  <2> QED
    BY Zenon, <1>1, <1>4, <2>1, <2>2, HandlerStep DEF YieldAcquire, IrqPcs
<1>5. CASE YieldSched(e)
  <2>1. cpu.held = {"qlock"} /\ ~cpu.intena /\ pc[e] \in OpenPcs
    BY <1>2, <1>5 DEF YieldSched, RunningThreadInv
  <2>2. /\ pc \in [Env -> Pcs] /\ irq \in [Env -> IrqPcs]
        /\ channel' \in [Env -> BOOLEAN]
    BY DEF LockInv, TypeOK, SchedTypeOK, ChannelTypeOK
  <2>3. /\ irq' \in [Env -> IrqPcs] /\ irq'[e] = "yield_ret"
        /\ \A f \in Env \ {e} : irq'[f] = irq[f]
        /\ pc' = pc /\ ready' = ready /\ chanq' = chanq
    BY <1>5, <2>2 DEF YieldSched, IrqPcs
  <2>4. sched(e, cpu, [status EXCEPT ![e] = "READY"])
    BY <1>5 DEF YieldSched
  <2> QED
    BY Zenon, <1>1, <2>1, <2>2, <2>3, <2>4, SwitchAway
<1>6. CASE YieldReturn(e)
  <2>1. cpu.held = {"qlock"} /\ pc[e] \in OpenPcs /\ ~saved[e] /\ saved[e] \in BOOLEAN
    BY Zenon, <1>1, <1>2, <1>6, OnCpuFacts
    DEF YieldReturn, RunningThreadInv, LockInv, TypeOK, SchedTypeOK
  <2> DEFINE c == sched_resumed(e)
  <2>2. /\ c \in Cpus /\ c.held = cpu.held /\ c.ncli = cpu.ncli /\ c.ien = cpu.ien
        /\ c.panic = cpu.panic /\ c.proc = cpu.proc /\ c.intena = saved[e]
    BY <1>2, <2>1 DEF sched_resumed, Cpus
  <2>3. cpu' = release_kspinlock(c, "qlock")
    BY <1>6 DEF YieldReturn
  <2> HIDE DEF c
  <2>4. cpu' \in Cpus /\ cpu'.proc = cpu.proc /\ CpuInv' /\ cpu'.held = {} /\ ~cpu'.ien
    BY <2>1, <2>2, <2>3, DropLock
  <2> QED
    BY Zenon, <1>1, <1>6, <2>1, <2>4, HandlerStep DEF YieldReturn, IrqPcs
<1>7. CASE TrapReturn(e)
  <2>1. cpu.held = {} /\ ~cpu.ien /\ cpu.ncli = 0 /\ pc[e] \in OpenPcs
    BY <1>1, <1>2, <1>7, OnCpuFacts DEF TrapReturn, RunningThreadInv
  <2>2. /\ cpu' \in Cpus /\ cpu'.held = {} /\ cpu'.ncli = 0 /\ ~cpu'.panic
        /\ cpu'.proc = cpu.proc /\ cpu'.ien
    BY Zenon, <1>2, <1>7, <2>1 DEF TrapReturn, kclock_resume, Cpus
  <2>3. CpuInv'
    BY <2>2 DEF CpuInv, One
  <2> QED
    BY Zenon, <1>1, <1>7, <2>1, <2>2, <2>3, HandlerStep DEF TrapReturn, IrqPcs
<1> QED
  BY <1>3, <1>4, <1>5, <1>6, <1>7 DEF InterruptStep
-----------------------------------------------------------------------------
(* The scheduler's own thread. *)

\* A step of the scheduler that leaves the threads and the queues alone.
LEMMA SchedulerMove ==
  ASSUME LockInv, spc # "switched", NEW q \in SchedPcs \ {"switched"}, spc' = q,
         UNCHANGED <<status, ready, saved, irq, pc, chanq, channel, count>>,
         cpu' \in Cpus, CpuInv', SchedulerInv', PlaceMatchesStatus'
  PROVE  LockInv'
<1>1. TypeOK'
  BY DEF LockInv, TypeOK, SchedTypeOK, ChannelTypeOK
<1>2. \A e \in Env : ThreadInv(e)'
  BY DEF LockInv, ThreadInv, OnCpu, RestingThreadInv
<1> QED
  BY <1>1, <1>2 DEF LockInv

\* fos_scheduler keeps LockInv; in particular its assertions hold on return
\* from a thread, and a thread is dispatched where it can be resumed.
LEMMA SchedulerLocks ==
  ASSUME LockInv, SchedulerStep, UNCHANGED <<chanVars, count>>
  PROVE  LockInv'
<1> USE DEF chanVars, Locks
<1>1. /\ cpu \in Cpus /\ CpuInv /\ SchedulerInv /\ PlaceMatchesStatus
      /\ status \in [Env -> Statuses] /\ ready \in Seq(Env)
  BY DEF LockInv, TypeOK, SchedTypeOK
<1>2. CASE SchedSti
  <2>1. cpu.held = {} /\ cpu.proc = NULL /\ spc' = "acquire" /\ spc = "sti"
    BY <1>1, <1>2 DEF SchedSti, SchedulerInv
  <2>2. /\ cpu' \in Cpus /\ cpu'.held = {} /\ cpu'.ncli = cpu.ncli
        /\ cpu'.panic = cpu.panic /\ cpu'.proc = cpu.proc
    BY ZenonT(60), <1>1, <1>2, <2>1 DEF SchedSti, Cpus
  <2>3. CpuInv' /\ SchedulerInv'
    BY <1>1, <2>1, <2>2 DEF CpuInv, One, SchedulerInv
  <2>4. PlaceMatchesStatus'
    BY <1>1, <1>2, <2>2, PlaceUnchanged DEF SchedSti
  <2> QED
    BY Zenon, <1>2, <2>1, <2>2, <2>3, <2>4, SchedulerMove DEF SchedSti, SchedPcs
<1>3. CASE SchedAcquire
  <2>1. cpu.held = {} /\ cpu.proc = NULL /\ spc' = "pick" /\ spc = "acquire"
    BY <1>1, <1>3 DEF SchedAcquire, SchedulerInv
  <2>2. cpu' \in Cpus /\ cpu'.proc = cpu.proc /\ CpuInv' /\ cpu'.held = {"qlock"}
    BY SMTT(60), <1>3, <2>1, TakeLock DEF SchedAcquire
  <2>3. SchedulerInv'
    BY <1>1, <2>1, <2>2 DEF SchedulerInv
  <2>4. PlaceMatchesStatus'
    BY <1>1, <1>3, <2>2, PlaceUnchanged DEF SchedAcquire
  <2> QED
    BY SMTT(60), <1>3, <2>1, <2>2, <2>3, <2>4, SchedulerMove DEF SchedAcquire, SchedPcs
<1>4. CASE SchedReturn
  <2>1. /\ spc' = "pick" /\ spc = "returned" /\ cpu.held = {"qlock"}
        /\ cpu.proc \in Env /\ status[cpu.proc] # "RUNNING"
    BY <1>1, <1>4 DEF SchedReturn, SchedulerInv, Cpus
  <2>2. /\ cpu' \in Cpus /\ cpu'.held = cpu.held /\ cpu'.ncli = cpu.ncli
        /\ cpu'.panic = cpu.panic /\ cpu'.ien = cpu.ien
        /\ cpu'.proc = IF status[cpu.proc] = "READY" THEN cpu.proc ELSE NULL
    BY Zenon, <1>1, <1>4, <2>1 DEF SchedReturn, holding_kspinlock, kclock_stop, Cpus
  <2>3. CpuInv'
    BY <1>1, <2>2 DEF CpuInv, One
  <2>4. SchedulerInv'
    BY SMTT(60), <1>1, <1>4, <2>1, <2>2 DEF SchedulerInv, SchedReturn
  <2>5. PlaceMatchesStatus'
    <3>1. UNCHANGED <<status, ready, chanq>>
      BY <1>4 DEF SchedReturn
    <3>2. NoDuplicates(ready') /\ NoDuplicates(chanq')
      BY <1>1, <3>1 DEF PlaceMatchesStatus
    <3>3. \A e \in Env : InSeq(e, chanq') <=> status'[e] = "BLOCKED"
      BY <1>1, <3>1 DEF PlaceMatchesStatus
    <3>4. \A e \in Env : /\ InSeq(e, ready') <=> status'[e] = "READY" /\ e # cpu'.proc
                         /\ status'[e] = "RUNNING" => e = cpu'.proc
      BY <1>1, <2>1, <2>2, <3>1, NullAssumption DEF PlaceMatchesStatus
    <3> QED
      BY <3>2, <3>3, <3>4 DEF PlaceMatchesStatus
  <2> QED
    BY SMTT(60), <1>4, <2>1, <2>2, <2>3, <2>4, <2>5, SchedulerMove DEF SchedReturn, SchedPcs
<1>5. CASE SchedScan
  <2>1. cpu.held = {"qlock"} /\ cpu.proc = NULL /\ spc = "scan" /\ spc' \in {"sti", "prompt"}
    BY <1>1, <1>5 DEF SchedScan, SchedulerInv
  <2> DEFINE d == release_kspinlock(cpu, "qlock")
  <2>2. cpu.ncli = 1 /\ ~cpu.ien
    BY <1>1, <2>1 DEF CpuInv, One
  <2>3. /\ d \in Cpus /\ d.proc = cpu.proc /\ d.panic = cpu.panic
        /\ d.ncli = 0 /\ d.held = {}
    BY <1>1, <2>1, <2>2, ReleaseHeld
  <2>4. cpu' = d \/ cpu' = [d EXCEPT !.ien = FALSE, !.ncli = 0, !.intena = FALSE, !.proc = NULL]
    BY <1>5 DEF SchedScan
  <2> HIDE DEF d
  <2>5. cpu' \in Cpus /\ cpu'.proc = NULL /\ cpu'.panic = cpu.panic /\ cpu'.ncli = 0 /\ cpu'.held = {}
    BY Zenon, <2>1, <2>3, <2>4 DEF Cpus
  <2>6. CpuInv' /\ SchedulerInv'
    BY <1>1, <2>1, <2>5 DEF CpuInv, One, SchedulerInv
  <2>7. PlaceMatchesStatus'
    BY <1>1, <1>5, <2>1, <2>5, PlaceUnchanged DEF SchedScan
  <2> QED
    BY <1>5, <2>1, <2>5, <2>6, <2>7, SchedulerMove DEF SchedScan, SchedPcs
<1>6. CASE SchedPick
  <2> DEFINE r == RequeuedRR
  <2>1. /\ spc = "pick" /\ cpu.held = {"qlock"} /\ cpu.proc \in Env \cup {NULL}
        /\ cpu.proc # NULL => cpu.proc \in Env /\ status[cpu.proc] = "READY"
    BY <1>1, <1>6 DEF SchedPick, SchedulerInv, Cpus
  <2>2. r \in Seq(Env) /\ NoDuplicates(r) /\ \A y \in Env : InSeq(y, r) <=> status[y] = "READY"
    <3>1. /\ NoDuplicates(ready)
          /\ \A y \in Env : InSeq(y, ready) <=> status[y] = "READY" /\ y # cpu.proc
      BY <1>1 DEF PlaceMatchesStatus
    <3>2. CASE cpu.proc = NULL
      BY SMTT(60), <1>1, <3>1, <3>2, NullAssumption DEF RequeuedRR
    <3>3. CASE cpu.proc # NULL
      <4>1. /\ r \in Seq(Env) /\ NoDuplicates(r)
            /\ \A y : InSeq(y, r) <=> InSeq(y, ready) \/ y = cpu.proc
        BY SMTT(60), <1>1, <2>1, <3>1, <3>3, AppendPlaces DEF RequeuedRR
      <4> QED
        BY SMTT(60), <2>1, <3>1, <3>3, <4>1
    <3> QED
      BY <3>2, <3>3
  <2>3. \A y \in Env : status[y] # "RUNNING"
    BY SMTT(60), <1>1, <2>1, NullAssumption DEF PlaceMatchesStatus
  <2>4. CASE r = <<>>
    <3>1. cpu.proc = NULL
      <4>1. \A y \in Env : ~InSeq(y, <<>>)
        BY DEF InSeq
      <4> QED
        BY <2>1, <2>2, <2>4, <4>1
    <3>2. cpu' = kclock_stop(cpu) /\ spc' = "scan" /\ UNCHANGED <<status, ready, saved, irq, pc>>
      BY <1>6, <2>4 DEF SchedPick
    <3>3. /\ cpu' \in Cpus /\ cpu'.held = cpu.held /\ cpu'.ncli = cpu.ncli
          /\ cpu'.panic = cpu.panic /\ cpu'.ien = cpu.ien /\ cpu'.proc = cpu.proc
      BY Zenon, <1>1, <3>2 DEF kclock_stop, Cpus
    <3>4. CpuInv' /\ SchedulerInv'
      BY <1>1, <2>1, <3>1, <3>2, <3>3 DEF CpuInv, One, SchedulerInv
    <3>5. PlaceMatchesStatus'
      BY <1>1, <3>2, <3>3, PlaceUnchanged
    <3> QED
      BY SMTT(60), <2>1, <3>2, <3>3, <3>4, <3>5, SchedulerMove DEF SchedPcs
  <2>5. CASE r # <<>>
    <3> DEFINE h == Head(r)
    <3>1. /\ h \in Env /\ status[h] = "READY" /\ Tail(r) \in Seq(Env) /\ NoDuplicates(Tail(r))
          /\ \A y \in Env : InSeq(y, Tail(r)) <=> status[y] = "READY" /\ y # h
      BY <2>2, <2>5, TailPlaces
    <3>2. /\ cpu' = [kclock_stop(cpu) EXCEPT !.proc = h] /\ spc' = "switched"
          /\ status' = [status EXCEPT ![h] = "RUNNING"] /\ ready' = Tail(r)
          /\ UNCHANGED <<saved, irq, pc, chanq, channel, count>>
      BY <1>6, <2>5 DEF SchedPick
    <3> HIDE DEF h, r
    <3>3. /\ cpu' \in Cpus /\ cpu'.held = cpu.held /\ cpu'.ncli = cpu.ncli
          /\ cpu'.panic = cpu.panic /\ cpu'.ien = cpu.ien /\ cpu'.proc = h
      BY Zenon, <1>1, <3>1, <3>2 DEF kclock_stop, Cpus
    <3>4. /\ status' \in [Env -> Statuses] /\ status'[h] = "RUNNING"
          /\ \A y \in Env \ {h} : status'[y] = status[y]
      BY <1>1, <3>1, <3>2 DEF Statuses
    <3>5. CpuInv' /\ SchedulerInv'
      BY SMTT(60), <1>1, <3>1, <3>2, <3>3, NullAssumption DEF CpuInv, One, SchedulerInv
    <3>6. PlaceMatchesStatus'
      <4>1. NoDuplicates(chanq') /\ \A y \in Env : InSeq(y, chanq') <=> status'[y] = "BLOCKED"
        <5>1. NoDuplicates(chanq) /\ \A y \in Env : InSeq(y, chanq) <=> status[y] = "BLOCKED"
          BY <1>1 DEF PlaceMatchesStatus
        <5> QED
          BY <3>1, <3>2, <3>4, <5>1
      <4>2. \A y \in Env : /\ InSeq(y, ready') <=> status'[y] = "READY" /\ y # cpu'.proc
                           /\ status'[y] = "RUNNING" => y = cpu'.proc
        BY SMTT(60), <2>3, <3>1, <3>2, <3>3, <3>4
      <4> QED
        BY <3>1, <3>2, <4>1, <4>2 DEF PlaceMatchesStatus
    <3>7. TypeOK'
      BY SMTT(60), <3>1, <3>2, <3>3, <3>4 DEF LockInv, TypeOK, SchedTypeOK, ChannelTypeOK, SchedPcs
    <3>8. \A f \in Env : ThreadInv(f)'
      <4> SUFFICES ASSUME NEW f \in Env PROVE ThreadInv(f)'
        OBVIOUS
      <4>1. ThreadInv(f) /\ RestingThreadInv(f)
        BY <2>1 DEF LockInv, ThreadInv, OnCpu
      <4>2. CASE f = h
        <5>1. pc[h] # "dead"
          BY SMTT(60), <3>1, <4>1, <4>2 DEF ThreadInv
        <5>2. RunningThreadInv(f)'
          <6>1. cpu'.held = {"qlock"} /\ status'[f] = "RUNNING" /\ UNCHANGED <<irq, pc>>
            BY SMTT(60), <2>1, <3>2, <3>3, <3>4, <4>2
          <6>2. CASE irq[f] = "yield_ret"
            BY <6>1, <6>2 DEF RunningThreadInv
          <6>3. CASE irq[f] = "none" /\ pc[f] \in {"new", "sleep_back"}
            <7>1. HeldAt(pc[f]) = {"qlock"} /\ pc[f] \notin OpenPcs
                  /\ pc[f] \notin GuardPcs \cup BothPcs \cup {"sleep_sched"}
              BY <6>3 DEF HeldAt, OpenPcs, GuardPcs, BothPcs, QueuePcs
            <7> QED
              BY SMTT(60), <6>1, <6>3, <7>1 DEF RunningThreadInv
          <6> QED
            BY SMTT(60), <4>1, <4>2, <5>1, <6>2, <6>3 DEF RestingThreadInv
        <5> QED
          BY SMTT(60), <3>2, <3>3, <4>1, <4>2, <5>1, <5>2 DEF ThreadInv, OnCpu
      <4>3. CASE f # h
        BY SMTT(60), <3>2, <3>3, <3>4, <4>1, <4>3 DEF ThreadInv, OnCpu, RestingThreadInv
      <4> QED
        BY <4>2, <4>3
    <3> QED
      BY SMTT(60), <3>5, <3>6, <3>7, <3>8 DEF LockInv
  <2> QED
    BY <2>4, <2>5
<1> QED
  BY <1>2, <1>3, <1>4, <1>5, <1>6 DEF SchedulerStep

\* A device interrupt changes nothing but the clock's mask; Prompt and
\* stuttering change nothing at all.
LEMMA IdleLocks ==
  ASSUME LockInv,
         \/ (OtherInterrupt \/ Prompt) /\ UNCHANGED <<chanVars, count>>
         \/ UNCHANGED vars
  PROVE  LockInv'
<1>1. /\ UNCHANGED <<spc, status, ready, saved, irq, pc, chanq, channel, count>>
      /\ cpu' = cpu \/ cpu' = kclock_resume(cpu)
  BY DEF OtherInterrupt, Prompt, schedVars, chanVars, vars
<1>2. cpu \in Cpus /\ CpuInv /\ SchedulerInv /\ PlaceMatchesStatus
  BY DEF LockInv, TypeOK, SchedTypeOK
<1>3. /\ cpu' \in Cpus /\ cpu'.held = cpu.held /\ cpu'.ncli = cpu.ncli
      /\ cpu'.panic = cpu.panic /\ cpu'.ien = cpu.ien /\ cpu'.proc = cpu.proc
      /\ cpu'.intena = cpu.intena
  BY Zenon, <1>1, <1>2 DEF kclock_resume, Cpus
<1>4. CpuInv' /\ SchedulerInv'
  BY <1>1, <1>2, <1>3 DEF CpuInv, One, SchedulerInv
<1>5. PlaceMatchesStatus'
  BY SMTT(60), <1>1, <1>2, <1>3, PlaceUnchanged
<1>6. \A e \in Env : ThreadInv(e)'
  BY SMTT(60), <1>1, <1>3 DEF LockInv, ThreadInv, OnCpu, RestingThreadInv, RunningThreadInv
<1>7. TypeOK'
  BY <1>1, <1>3 DEF LockInv, TypeOK, SchedTypeOK, ChannelTypeOK
<1> QED
  BY SMTT(60), <1>4, <1>5, <1>6, <1>7 DEF LockInv
-----------------------------------------------------------------------------
(* The semaphore's books. *)

\* A step that moves no process, no queue and no count keeps the books.
LEMMA CountsUnchanged ==
  ASSUME WaitersCounted, UNCHANGED <<pc, chanq, count>>
  PROVE  WaitersCounted'
  BY DEF WaitersCounted, Entering, Waking

\* A step of the process on the CPU between two labels that weigh the same.
LEMMA CountsSame ==
  ASSUME LockInv, WaitersCounted, NEW e \in Env, OnCpu(e), NEW l, Goto(e, l),
         UNCHANGED <<chanq, count>>,
         InEntering(l) = InEntering(pc[e]), InWaking(l) = InWaking(pc[e])
  PROVE  WaitersCounted'
<1>1. Len(chanq) + InEntering(pc[e]) = Deficit(count) + InWaking(pc[e])
  BY Books
<1> QED
  BY Zenon, <1>1, BooksNext DEF Goto

\* wait_ksemaphore keeps the books: the decrement that makes the count negative
\* is matched by the caller entering sleep().
LEMMA WaitCounts ==
  ASSUME LockInv, WaitersCounted, NEW e \in Env, wait_ksemaphore(e)
  PROVE  WaitersCounted'
<1>1. OnCpu(e) /\ irq[e] = "none"
  BY DEF wait_ksemaphore, sleep, WaitAcquire, WaitDec, WaitRelease, SleepAcquire,
         SleepRelease, SleepSched, SleepBack, SleepReacquire, At, Running, OnCpu
<1>2. Len(chanq) + InEntering(pc[e]) = Deficit(count) + InWaking(pc[e])
  BY SMTT(60), <1>1, Books
<1>3. chanq \in Seq(Env) /\ count \in Int /\ Len(chanq) \in Nat
  BY <1>1, OnCpuFacts
<1>4. CASE WaitDec(e)
  <2> DEFINE l == IF count' < 0 THEN "sleep" ELSE "wait_release"
  <2>1. /\ pc[e] = "wait_dec" /\ count' = count - 1 /\ chanq' = chanq
        /\ pc' = [pc EXCEPT ![e] = l]
    BY <1>4 DEF WaitDec, At, Goto, chanVars
  <2>2. Len(chanq) = Deficit(count)
    BY <1>2, <1>3, <2>1 DEF InEntering, InWaking, Deficit
  <2>3. Len(chanq') + InEntering(l) = Deficit(count') + InWaking(l)
    BY <1>3, <2>1, <2>2 DEF InEntering, InWaking, Deficit
  <2> HIDE DEF l
  <2> QED
    BY Zenon, <1>1, <2>1, <2>3, BooksNext
<1>5. CASE SleepSched(e) /\ UNCHANGED count
  <2>1. /\ pc[e] = "sleep_sched" /\ chanq' = Append(chanq, e)
        /\ pc' = [pc EXCEPT ![e] = "sleep_back"]
    BY <1>5 DEF SleepSched, At, Goto
  <2>2. Len(chanq') = Len(chanq) + 1
    BY <1>3, <2>1
  <2>3. Len(chanq') + InEntering("sleep_back") = Deficit(count') + InWaking("sleep_back")
    BY <1>2, <1>3, <1>5, <2>1, <2>2 DEF InEntering, InWaking, Deficit
  <2> QED
    BY ZenonT(60), <1>1, <2>1, <2>3, BooksNext
<1>6. CASE \/ WaitAcquire(e) \/ WaitRelease(e)
           \/ SleepAcquire(e) /\ UNCHANGED count
           \/ SleepRelease(e) /\ UNCHANGED count
           \/ SleepBack(e) /\ UNCHANGED count
           \/ SleepReacquire(e, "wait_release") /\ UNCHANGED count
  BY Zenon, <1>1, <1>6, CountsSame
  DEF WaitAcquire, WaitRelease, SleepAcquire, SleepRelease, SleepBack, SleepReacquire,
      At, chanVars, InEntering, InWaking
<1> QED
  BY SMTT(60), <1>4, <1>5, <1>6 DEF wait_ksemaphore, sleep

\* signal_ksemaphore keeps the books: the increment of a non-positive result is
\* matched by the caller entering wakeup_one(), which dequeues one sleeper.
LEMMA SignalCounts ==
  ASSUME LockInv, WaitersCounted, NEW e \in Env, signal_ksemaphore(e)
  PROVE  WaitersCounted'
<1>1. OnCpu(e) /\ irq[e] = "none"
  BY DEF signal_ksemaphore, wakeup_one, SignalAcquire, SignalInc, SignalRelease,
         WakeupAcquire, WakeupOneDequeue, WakeupRelease, At, Running, OnCpu
<1>2. Len(chanq) + InEntering(pc[e]) = Deficit(count) + InWaking(pc[e])
  BY <1>1, Books
<1>3. chanq \in Seq(Env) /\ count \in Int /\ Len(chanq) \in Nat
  BY <1>1, OnCpuFacts
<1>4. CASE SignalInc(e)
  <2> DEFINE l == IF count' <= 0 THEN "wakeup" ELSE "signal_release"
  <2>1. /\ pc[e] = "signal_inc" /\ count' = count + 1 /\ chanq' = chanq
        /\ pc' = [pc EXCEPT ![e] = l]
    BY <1>4 DEF SignalInc, At, Goto, chanVars
  <2>2. Len(chanq) = Deficit(count)
    BY <1>2, <1>3, <2>1 DEF InEntering, InWaking, Deficit
  <2>3. Len(chanq') + InEntering(l) = Deficit(count') + InWaking(l)
    BY <1>3, <2>1, <2>2 DEF InEntering, InWaking, Deficit
  <2> HIDE DEF l
  <2> QED
    BY Zenon, <1>1, <2>1, <2>3, BooksNext
<1>5. CASE WakeupOneDequeue(e) /\ UNCHANGED count
  <2>1. pc[e] = "wakeup_dequeue" /\ pc' = [pc EXCEPT ![e] = "wakeup_release"]
    BY <1>5 DEF WakeupOneDequeue, At, Goto
  <2>2. Len(chanq) = Deficit(count) + 1 /\ Deficit(count) \in Nat
    BY <1>2, <1>3, <2>1 DEF InEntering, InWaking, Deficit
  <2>3. chanq # <<>>
    BY <1>3, <2>2
  <2>4. chanq' = Tail(chanq)
    BY <1>5, <2>3 DEF WakeupOneDequeue
  <2>5. Len(chanq') = Len(chanq) - 1
    BY <1>3, <2>3, <2>4
  <2>6. Len(chanq') + InEntering("wakeup_release") = Deficit(count') + InWaking("wakeup_release")
    BY SMTT(60), <1>3, <1>5, <2>2, <2>5 DEF InEntering, InWaking
  <2> QED
    BY Zenon, <1>1, <2>1, <2>6, BooksNext
<1>6. CASE \/ SignalAcquire(e) \/ SignalRelease(e)
           \/ WakeupAcquire(e) /\ UNCHANGED count
           \/ WakeupRelease(e, "signal_release") /\ UNCHANGED count
  BY <1>1, <1>6, CountsSame
  DEF SignalAcquire, SignalRelease, WakeupAcquire, WakeupRelease,
      At, chanVars, InEntering, InWaking
<1> QED
  BY SMTT(60), <1>4, <1>5, <1>6 DEF signal_ksemaphore, wakeup_one

\* The rest of a thread's code keeps the books: it is outside sleep and wakeup.
LEMMA ThreadCounts ==
  ASSUME LockInv, WaitersCounted, NEW e \in Env,
         \/ ThreadStep(e)
         \/ \E l \in {"wait", "signal", "exit"} : SyscallTo(e, l),
         UNCHANGED <<chanVars, count>>
  PROVE  WaitersCounted'
<1>1. OnCpu(e)
  BY DEF ThreadStep, SyscallTo, EnvStart, TrapRet, SysRet, ExitAcquire, ExitSched,
         At, Running, OnCpu
<1>2. \E l \in ThreadPcs \cup {"wait", "signal"} : Goto(e, l) /\ pc[e] \in ThreadPcs
  BY DEF ThreadStep, SyscallTo, EnvStart, TrapRet, SysRet, ExitAcquire, ExitSched,
         At, ThreadPcs
<1>3. \A l \in ThreadPcs \cup {"wait", "signal"} : InEntering(l) = 0 /\ InWaking(l) = 0
  BY DEF ThreadPcs, InEntering, InWaking
<1> QED
  BY <1>1, <1>2, <1>3, CountsSame DEF chanVars
-----------------------------------------------------------------------------
(* The theorems. *)

\* The state after boot satisfies the inductive invariant.
LEMMA InitIInv == Init => IInv
<1> SUFFICES ASSUME Init PROVE IInv
  OBVIOUS
<1> USE DEF Init, SchedInit, ChannelInit
<1>1. Cardinality(Env) \in Nat
  BY EnvAssumption, FS_CardinalityType
<1>2. ready \in Seq(Env) /\ Len(ready) = Cardinality(Env)
  <2>1. ready \in [1..Cardinality(Env) -> Env]
    BY DEF Orders
  <2> QED
    BY <1>1, <2>1
<1>3. cpu \in Cpus /\ cpu.held = {} /\ cpu.ncli = 0 /\ ~cpu.panic /\ cpu.proc = NULL
  BY DEF BootCpu, Cpus
<1>4. TypeOK
  BY <1>2, <1>3, CountAssumption
  DEF TypeOK, SchedTypeOK, ChannelTypeOK, SchedPcs, Statuses, IrqPcs, Pcs, ThreadPcs
<1>5. CpuInv /\ SchedulerInv
  BY <1>3 DEF CpuInv, One, SchedulerInv
<1>6. \A e \in Env : ThreadInv(e)
  BY Zenon DEF ThreadInv, OnCpu, RestingThreadInv
<1>7. PlaceMatchesStatus
  <2>1. NoDuplicates(ready) /\ \A e \in Env : InSeq(e, ready)
    BY <1>2 DEF Orders, NoDuplicates, InSeq
  <2>2. NoDuplicates(<<>>) /\ \A e \in Env : ~InSeq(e, <<>>)
    BY DEF NoDuplicates, InSeq
  <2> QED
    BY <1>3, <2>1, <2>2, NullAssumption DEF PlaceMatchesStatus
<1>8. WaitersCounted
  <2>1. Entering = {} /\ Waking = {} /\ Len(chanq) = 0
    BY DEF Entering, Waking
  <2> QED
    BY <2>1, FS_EmptySet, CountAssumption DEF WaitersCounted
<1> QED
  BY SMTT(60), <1>4, <1>5, <1>6, <1>7, <1>8 DEF IInv, LockInv

\* Every step, of a thread, an interrupt or the scheduler, keeps it.
LEMMA NextIInv == IInv /\ [Next]_vars => IInv'
<1> SUFFICES ASSUME IInv, [Next]_vars PROVE IInv'
  OBVIOUS
<1>1. LockInv /\ WaitersCounted
  BY DEF IInv
<1>2. CASE SchedulerStep /\ UNCHANGED <<chanVars, count>>
  <2>1. UNCHANGED <<pc, chanq, count>>
    BY <1>2 DEF SchedulerStep, SchedSti, SchedAcquire, SchedPick, SchedReturn,
                SchedScan, chanVars
  <2> QED
    BY <1>1, <1>2, <2>1, SchedulerLocks, CountsUnchanged DEF IInv
<1>3. CASE ((OtherInterrupt \/ Prompt) /\ UNCHANGED <<chanVars, count>>) \/ UNCHANGED vars
  <2>1. UNCHANGED <<pc, chanq, count>>
    BY <1>3 DEF OtherInterrupt, Prompt, schedVars, chanVars, vars
  <2> QED
    BY SMTT(60), <1>1, <1>3, <2>1, IdleLocks, CountsUnchanged DEF IInv
<1>4. ASSUME NEW e \in Env, UserCall(e) PROVE IInv'
  <2>1. \E l \in {"wait", "signal", "exit"} : SyscallTo(e, l)
    BY <1>4 DEF UserCall
  <2>2. UNCHANGED <<chanVars, count>>
    BY <1>4 DEF UserCall
  <2> QED
    BY <1>1, <2>1, <2>2, ThreadLocks, ThreadCounts DEF IInv
<1>5. ASSUME NEW e \in Env, KernelStep(e) PROVE IInv'
  <2>1. CASE wait_ksemaphore(e)
    BY <1>1, <2>1, WaitLocks, WaitCounts DEF IInv
  <2>2. CASE signal_ksemaphore(e)
    BY <1>1, <2>2, SignalLocks, SignalCounts DEF IInv
  <2>3. CASE ThreadStep(e) /\ UNCHANGED <<chanVars, count>>
    BY <1>1, <2>3, ThreadLocks, ThreadCounts DEF IInv
  <2> QED
    BY <1>5, <2>1, <2>2, <2>3 DEF KernelStep
<1>6. ASSUME NEW e \in Env, InterruptStep(e), UNCHANGED <<chanVars, count>> PROVE IInv'
  <2>1. UNCHANGED <<pc, chanq, count>>
    BY <1>6 DEF InterruptStep, ClockInterrupt, YieldAcquire, YieldSched, YieldReturn,
                TrapReturn, chanVars
  <2> QED
    BY <1>1, <1>6, <2>1, InterruptLocks, CountsUnchanged DEF IInv
<1> QED
  BY <1>2, <1>3, <1>4, <1>5, <1>6 DEF Next

\* IInv is an inductive invariant of the kernel with one semaphore.
THEOREM Invariance == Spec => []IInv
  BY InitIInv, NextIInv, PTL DEF Spec

\* No check of pushcli/popcli, of the spinlocks, of sched() or of trap() ever
\* fails, for any number of environments waiting, signalling and exiting under
\* any interleaving of interrupts.
THEOREM PanicFree == Spec => []NoPanic
<1>1. IInv => NoPanic
  BY DEF IInv, LockInv, CpuInv, NoPanic
<1> QED
  BY <1>1, Invariance, PTL

\* The variables keep their types.
THEOREM TypeCorrect == Spec => []TypeOK
<1>1. IInv => TypeOK
  BY DEF IInv, LockInv
<1> QED
  BY <1>1, Invariance, PTL

\* wait_ksemaphore and signal_ksemaphore keep count equal to minus the number
\* of sleepers whenever it is negative: no wakeup is lost.
THEOREM SleepersCounted == Spec => []WaitersCounted
<1>1. IInv => WaitersCounted
  BY DEF IInv
<1> QED
  BY <1>1, Invariance, PTL

\* enqueue and dequeue never lose or duplicate a process: its env_status names
\* the one queue it is in.
THEOREM EveryProcessInItsPlace == Spec => []PlaceMatchesStatus
<1>1. IInv => PlaceMatchesStatus
  BY SMTT(60) DEF IInv, LockInv
<1> QED
  BY <1>1, Invariance, PTL

\* sched() gives every thread back the interrupt state it had.
THEOREM InterruptStateKept == Spec => []InterruptStatePerThread
<1>1. IInv => InterruptStatePerThread
  <2> SUFFICES ASSUME LockInv, NEW e \in Env, Running(e)
               PROVE  /\ irq[e] = "none" /\ pc[e] \in {"user", "sysret", "exit", "wait",
                                                       "signal", "sleep_reacquire"} => cpu.ien
                      /\ irq[e] # "none" => ~cpu.ien
    BY DEF IInv, InterruptStatePerThread, InterruptsMatch
  <2>1. OnCpu(e)
    BY SMTT(60) DEF Running, OnCpu
  <2>2. RunningThreadInv(e) /\ (cpu.held # {} => ~cpu.ien) /\ irq[e] \in IrqPcs
    BY <2>1, OnCpuFacts DEF LockInv, TypeOK, SchedTypeOK
  <2> QED
    BY <2>2 DEF RunningThreadInv, OpenPcs, IrqPcs
<1> QED
  BY <1>1, Invariance, PTL
=============================================================================
