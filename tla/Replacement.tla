---------------------------- MODULE Replacement ----------------------------
(***************************************************************************)
(* The choice of a victim in page_fault_handler (kern/trap/fault_handler.c)*)
(* for each replacement algorithm, and get_optimal_num_faults.  A working  *)
(* set is the sequence of its pages in list order; the hand is a position  *)
(* in it, 0 when page_last_WS_element is NULL.                             *)
(***************************************************************************)
EXTENDS Integers, Sequences, FiniteSets, FiniteSetsExt, SequencesExt

CONSTANT StampBits    \* the width of time_stamp, 32 in the code

ASSUME StampBitsAssumption == StampBits \in Nat \ {0}

INT_MAX == 2147483647
MaxStamp == 2^StampBits - 1       \* 0xFFFFFFFF
TopBit == 2^(StampBits - 1)       \* 1 << 31

\* The position of the first page of s that is in S, or 0.
FirstIn(s, S) ==
  LET at == {i \in DOMAIN s : s[i] \in S}
  IN IF at = {} THEN 0 ELSE Min(at)

\* The list as the hand walks it.
Rotation(ws, hand) ==
  LET h == IF hand = 0 THEN 1 ELSE hand
  IN SubSeq(ws, h, Len(ws)) \o SubSeq(ws, 1, h - 1)

\* The position in ws of the k-th element the hand comes to.
Position(ws, hand, k) ==
  LET h == IF hand = 0 THEN 1 ELSE hand
  IN ((h + k - 2) % Len(ws)) + 1

\* The step to the next element without the return to the first.
NextWithoutWrap(ws, i) == IF i = Len(ws) THEN 0 ELSE i + 1

NextPosition(ws, i) == (i % Len(ws)) + 1
-----------------------------------------------------------------------------
\* A sweep that never gives a page its second chance.
ClockIgnoresUsed(ws, hand, used, modified) ==
  [at |-> Position(ws, hand, 1), reprieved |-> {}]

\* The hand stops at the first page that is not used and clears the used bit
\* of every page it passes; when all are used it comes back to where it began.
Clock(ws, hand, used, modified) ==
  LET rot == Rotation(ws, hand)
      first == FirstIn(rot, ToSet(ws) \ used)
  IN IF first = 0
       THEN [at |-> Position(ws, hand, 1), reprieved |-> ToSet(ws)]
       ELSE [at |-> Position(ws, hand, first),
             reprieved |-> ToSet(SubSeq(rot, 1, first - 1))]

\* The search for an unused page, without the one for an unmodified page
\* before it.
ModifiedClockOnePass(ws, hand, used, modified) ==
  Clock(ws, hand, used, modified)

\* First a page neither used nor modified, then the sweep of CLOCK, then, when
\* that cleared every used bit, an unmodified page, then the page at the hand.
ModifiedClock(ws, hand, used, modified) ==
  LET rot == Rotation(ws, hand)
      clean == FirstIn(rot, (ToSet(ws) \ used) \ modified)
      unused == FirstIn(rot, ToSet(ws) \ used)
      unmodified == FirstIn(rot, ToSet(ws) \ modified)
  IN CASE clean # 0 -> [at |-> Position(ws, hand, clean), reprieved |-> {}]
       [] clean = 0 /\ unused # 0 -> Clock(ws, hand, used, modified)
       [] clean = 0 /\ unused = 0 ->
            [at |-> Position(ws, hand, IF unmodified # 0 THEN unmodified ELSE 1),
             reprieved |-> ToSet(ws)]
-----------------------------------------------------------------------------
\* update_WS_time_stamps for one page: shift right, the used bit on top.
Aged(stamp, isUsed) == (stamp \div 2) + (IF isUsed THEN TopBit ELSE 0)

\* The pages LRU aging may evict: those with the smallest stamp, provided that
\* one is below 0xFFFFFFFF; of them the first in the list.
LeastStamped(ws, stamp) ==
  LET below == {i \in DOMAIN ws : stamp[ws[i]] < MaxStamp}
  IN {i \in below : \A j \in DOMAIN ws :
        \/ stamp[ws[i]] < stamp[ws[j]]
        \/ stamp[ws[i]] = stamp[ws[j]] /\ i <= j}
-----------------------------------------------------------------------------
\* How far ahead of position i the stream refers to page q again.
Distance(stream, i, q) ==
  LET later == {j \in i + 1 .. Len(stream) : stream[j] = q}
  IN IF later = {} THEN INT_MAX ELSE Min(later) - i

\* A choice of the nearest page instead of the farthest.
NearestPage(ws, stream, i) ==
  Min({v \in DOMAIN ws : \A j \in DOMAIN ws :
         Distance(stream, i, ws[v]) <= Distance(stream, i, ws[j])})

\* victim_index: the first page whose next use is farthest away.
FarthestPage(ws, stream, i) ==
  Min({v \in DOMAIN ws : \A j \in DOMAIN ws :
         Distance(stream, i, ws[v]) >= Distance(stream, i, ws[j])})

\* The simulation of the recorded stream, one reference at a time.
get_optimal_num_faults(ws, maxWSSize, stream) ==
  LET Refer(sim, i) ==
        IF stream[i] \in ToSet(sim.ws) THEN sim
        ELSE [ws |-> IF Len(sim.ws) < maxWSSize
                       THEN Append(sim.ws, stream[i])
                       ELSE [sim.ws EXCEPT ![FarthestPage(sim.ws, stream, i)] = stream[i]],
              faults |-> sim.faults + 1]
      start == [ws |-> SubSeq(ws, 1, Min({Len(ws), maxWSSize})), faults |-> 0]
  IN FoldLeft(Refer, start, [i \in DOMAIN stream |-> i]).faults

\* The reference: follow every choice of victim and take the best outcome.
FewestFaults(ws, maxWSSize, stream) ==
  LET Outcomes(o, p) ==
        IF p \in o.ws THEN {o}
        ELSE IF Cardinality(o.ws) < maxWSSize
          THEN {[ws |-> o.ws \cup {p}, faults |-> o.faults + 1]}
          ELSE {[ws |-> (o.ws \ {q}) \cup {p}, faults |-> o.faults + 1] : q \in o.ws}
      Refer(os, p) == UNION {Outcomes(o, p) : o \in os}
      final == FoldLeft(Refer, {[ws |-> ToSet(ws), faults |-> 0]}, stream)
  IN Min({o.faults : o \in final})
=============================================================================
