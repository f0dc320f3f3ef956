----------------------------- MODULE RingProofs ------------------------------
(***************************************************************************)
(* The three hops of the pipeline, for any ring, any number of threads,    *)
(* any packets and reports: the slot index keeps writer and reader of a    *)
(* slot apart, and nothing is lost on the way.  The arithmetic behind the  *)
(* index comes first, then TimeRing, with what it takes to show that its   *)
(* ring is a first-in first-out channel, then SmRing and FlushRing.        *)
(***************************************************************************)
EXTENDS TimeRing, SmRing, FlushRing, FiniteSetTheorems, SequenceTheorems, TLAPS

\* Quotient and remainder put a number together again.
LEMMA DivMod ==
  ASSUME NEW N \in Nat \ {0}, NEW a \in Nat
  PROVE  /\ a = (N * (a \div N)) + (a % N)
         /\ a \div N \in Nat
         /\ a % N \in 0 .. (N - 1)
  OBVIOUS

\* The only multiple of N strictly between -N and N is zero.
LEMMA SmallMultiple ==
  ASSUME NEW N \in Nat \ {0}, NEW d \in Int, NEW r \in Int,
         r = N * d, -N < r, r < N
  PROVE  d = 0
<1>1. ASSUME d >= 1 PROVE FALSE
  <2>1. N * d >= N  BY <1>1
  <2> QED  BY <2>1
<1>2. ASSUME d <= -1 PROVE FALSE
  <2>1. N * d <= -N  BY <1>2
  <2> QED  BY <2>1
<1> QED  BY <1>1, <1>2

\* Two numbers less than a lap apart have different remainders.
LEMMA ModDistinct ==
  ASSUME NEW N \in Nat \ {0}, NEW a \in Nat, NEW b \in Nat,
         a < b, b - a < N
  PROVE  a % N # b % N
<1> DEFINE p == a \div N
           q == b \div N
<1>1. a = (N * p) + (a % N) /\ p \in Nat /\ a % N \in 0 .. (N - 1)
  BY DivMod
<1>2. b = (N * q) + (b % N) /\ q \in Nat /\ b % N \in 0 .. (N - 1)
  BY DivMod
<1> HIDE DEF p, q
<1> SUFFICES ASSUME a % N = b % N PROVE FALSE
  OBVIOUS
<1>3. b - a = N * (q - p)  BY <1>1, <1>2
<1>4. q - p = 0  BY <1>1, <1>2, <1>3, SmallMultiple
<1> QED  BY <1>3, <1>4, <1>1, <1>2

\* The remainder of the successor: one more, or zero at the end of a lap.
LEMMA ModSucc ==
  ASSUME NEW N \in Nat \ {0}, NEW a \in Nat
  PROVE  (a + 1) % N = IF (a % N) + 1 >= N THEN 0 ELSE (a % N) + 1
<1> DEFINE p == a \div N
           q == (a + 1) \div N
           r == a % N
           s == (a + 1) % N
<1>0. a + 1 \in Nat  OBVIOUS
<1>1. a = (N * p) + r /\ p \in Nat /\ r \in 0 .. (N - 1)  BY DivMod
<1>2. a + 1 = (N * q) + s /\ q \in Nat /\ s \in 0 .. (N - 1)  BY <1>0, DivMod
<1> HIDE DEF p, q, r, s
<1>3. CASE r + 1 >= N
  <2>1. r = N - 1  BY <1>3, <1>1
  <2>2. 0 - s = N * (q - p - 1)  BY <1>1, <1>2, <2>1
  <2>3. q - p - 1 = 0  BY <2>2, <1>1, <1>2, SmallMultiple
  <2>4. s = 0  BY <2>2, <2>3, <1>1, <1>2
  <2> QED  BY <2>4, <1>3 DEF r, s
<1>4. CASE r + 1 < N
  <2>1. r + 1 - s = N * (q - p)  BY <1>1, <1>2
  <2>2. q - p = 0  BY <2>1, <1>1, <1>2, <1>4, SmallMultiple
  <2>3. s = r + 1  BY <2>1, <2>2, <1>1, <1>2
  <2> QED  BY <2>3, <1>4, <1>1 DEF r, s
<1> QED  BY <1>3, <1>4, <1>1

\* The assumption in the form the lemmas above ask for.
LEMMA LapSize == TIME_INDEX \in Nat \ {0}
  BY TimeIndexAssumption

\* Stepping a reader's index is the same as stepping its second.
LEMMA ReadNextIsSucc ==
  ASSUME NEW s \in Nat
  PROVE  READ_NEXT_TIME_INDEX(READ_TIME_INDEX(s)) = READ_TIME_INDEX(s + 1)
<1>1. (s + 1) % TIME_INDEX =
        IF (s % TIME_INDEX) + 1 >= TIME_INDEX THEN 0 ELSE (s % TIME_INDEX) + 1
  BY LapSize, ModSucc
<1> QED  BY <1>1 DEF READ_NEXT_TIME_INDEX, READ_TIME_INDEX

\* The writer of second s uses the slot that readers will call s + 1.
LEMMA WriteIsSucc ==
  ASSUME NEW s \in Nat
  PROVE  PKT_WRITE_TIME_INDEX(s) = READ_TIME_INDEX(s + 1)
<1>1. (s + 1) % TIME_INDEX =
        IF (s % TIME_INDEX) + 1 >= TIME_INDEX THEN 0 ELSE (s % TIME_INDEX) + 1
  BY LapSize, ModSucc
<1> QED  BY <1>1 DEF PKT_WRITE_TIME_INDEX, READ_TIME_INDEX

LEMMA ReadIndexIsSlot ==
  ASSUME NEW s \in Nat
  PROVE  READ_TIME_INDEX(s) \in Slots
<1>1. s % TIME_INDEX \in 0 .. (TIME_INDEX - 1)  BY LapSize, DivMod
<1> QED  BY <1>1 DEF READ_TIME_INDEX, Slots

(* Seconds less than a lap apart have slots of their own: what lets the    *)
(* rings of the probe do without locks (core/inc/ServerGlobal.h, the three *)
(* index macros).                                                          *)
THEOREM SlotsOfALapDiffer ==
  ASSUME NEW s \in Nat, NEW t \in Nat, s < t, t - s < TIME_INDEX
  PROVE  READ_TIME_INDEX(s) # READ_TIME_INDEX(t)
<1>1. s % TIME_INDEX # t % TIME_INDEX  BY LapSize, ModDistinct
<1> QED  BY <1>1 DEF READ_TIME_INDEX

-----------------------------------------------------------------------------

\* lastIdx and curIdx stand for seconds of the current lap, and a router at
\* a slot is at one whose second is over.
ReaderSecond(r) ==
  /\ lastIdx[r] = READ_TIME_INDEX(rSec[r])
  /\ curIdx[r] = READ_TIME_INDEX(cSec[r])
  /\ rSec[r] <= cSec[r] /\ cSec[r] <= now
  /\ now - rSec[r] <= MaxReadLag
  /\ rpc[r] \in RouterAtSlot => rSec[r] < cSec[r]

ReaderSeconds == \A r \in Router : ReaderSecond(r)

\* t_index stands for the second after the one the agent saw, which is over
\* by at most MaxWriteDelay ticks.
WriterSecond ==
  apc \in AgentAtSlot =>
    /\ t_index = READ_TIME_INDEX(aSec + 1)
    /\ aSec <= now /\ now <= aSec + MaxWriteDelay

\* A slot is busy only while its router empties it, and never overfull.
SlotFine(r, i) ==
  /\ busy[r][i] = TRUE => rpc[r] \in {"route", "release"} /\ i = lastIdx[r]
  /\ cnt[r][i] <= maxPktPerRouter

\* An admitted packet has a place besides.
SlotState ==
  /\ \A r \in Router : \A i \in Slots : SlotFine(r, i)
  /\ apc \in {"copy", "count"} => cnt[router][t_index] < maxPktPerRouter

SecInv == TypeOK /\ ReaderSeconds /\ WriterSecond

-----------------------------------------------------------------------------
\* Within the lag a router may have, equal indices mean equal seconds.
LEMMA SameSlotSameSecond ==
  ASSUME SecInv, NEW r \in Router
  PROVE  (lastIdx[r] = curIdx[r]) <=> (rSec[r] = cSec[r])
<1>1. /\ rSec[r] \in Nat /\ cSec[r] \in Nat /\ now \in Nat
      /\ rSec[r] <= cSec[r] /\ cSec[r] <= now /\ now - rSec[r] <= MaxReadLag
      /\ lastIdx[r] = READ_TIME_INDEX(rSec[r])
      /\ curIdx[r] = READ_TIME_INDEX(cSec[r])
  BY DEF SecInv, TypeOK, ReaderSeconds, ReaderSecond
<1>2. CASE rSec[r] = cSec[r]
  BY <1>1, <1>2
<1>3. CASE rSec[r] < cSec[r]
  <2>1. cSec[r] - rSec[r] < TIME_INDEX
    BY <1>1, SchedulingAssumption, RingClockAssumption, TimeIndexAssumption
  <2>2. READ_TIME_INDEX(rSec[r]) # READ_TIME_INDEX(cSec[r])
    BY <1>1, <1>3, <2>1, SlotsOfALapDiffer
  <2> QED  BY <1>1, <1>3, <2>2
<1> QED  BY <1>1, <1>2, <1>3

LEMMA SecInvExcludes == SecInv => SlotExclusion
<1> SUFFICES ASSUME SecInv, NEW r \in Router, apc \in AgentAtSlot,
                    rpc[r] \in RouterAtSlot
             PROVE  t_index # lastIdx[r]
  BY DEF SlotExclusion
<1>1. /\ rSec[r] \in Nat /\ cSec[r] \in Nat /\ now \in Nat /\ aSec \in Nat
      /\ rSec[r] < cSec[r] /\ cSec[r] <= now /\ now - rSec[r] <= MaxReadLag
      /\ lastIdx[r] = READ_TIME_INDEX(rSec[r])
  BY DEF SecInv, TypeOK, ReaderSeconds, ReaderSecond
<1>2. /\ t_index = READ_TIME_INDEX(aSec + 1)
      /\ aSec <= now /\ now <= aSec + MaxWriteDelay
  BY DEF SecInv, WriterSecond
<1> DEFINE w == aSec + 1
<1>3. w \in Nat /\ rSec[r] < w /\ w - rSec[r] < TIME_INDEX
  BY <1>1, <1>2, SchedulingAssumption, RingClockAssumption, TimeIndexAssumption
<1>4. t_index = READ_TIME_INDEX(w)
  BY <1>2
<1> HIDE DEF w
<1>5. READ_TIME_INDEX(rSec[r]) # READ_TIME_INDEX(w)
  BY <1>1, <1>3, SlotsOfALapDiffer
<1> QED  BY <1>1, <1>4, <1>5

-----------------------------------------------------------------------------
LEMMA SecInvInit == Init => SecInv
<1> SUFFICES ASSUME Init PROVE SecInv
  OBVIOUS
<1>0. FirstSec \in Nat /\ READ_TIME_INDEX(FirstSec) \in Slots
  BY TimeRingAssumption, RingClockAssumption, ReadIndexIsSlot
<1>1. TypeOK
  BY <1>0, TimeRingAssumption, RingClockAssumption, TimeIndexAssumption DEF Init, TypeOK, Slots, Router
<1>2. ReaderSeconds
  BY <1>0, TimeRingAssumption, RingClockAssumption DEF Init, ReaderSeconds, ReaderSecond, RouterAtSlot
<1>3. WriterSecond
  BY DEF Init, WriterSecond, AgentAtSlot
<1> QED  BY <1>1, <1>2, <1>3 DEF SecInv

\* A reader at a slot whose index differs is behind, and may move on by one.
LEMMA BehindMeansBefore ==
  ASSUME SecInv, NEW r \in Router, lastIdx[r] # curIdx[r]
  PROVE  rSec[r] < cSec[r]
<1>1. rSec[r] # cSec[r]  BY SameSlotSameSecond
<1>2. rSec[r] \in Nat /\ cSec[r] \in Nat /\ rSec[r] <= cSec[r]
  BY DEF SecInv, TypeOK, ReaderSeconds, ReaderSecond
<1> QED  BY <1>1, <1>2

LEMMA NextSlotStep ==
  ASSUME SecInv, NEW r \in Router, NextSlot(r)
  PROVE  /\ lastIdx' \in [Router -> Slots] /\ rSec' \in [Router -> Nat]
         /\ lastIdx'[r] = READ_TIME_INDEX(rSec'[r])
         /\ rSec'[r] = rSec[r] + 1
         /\ \A q \in Router \ {r} : lastIdx'[q] = lastIdx[q] /\ rSec'[q] = rSec[q]
<1>1. /\ lastIdx \in [Router -> Slots] /\ rSec \in [Router -> Nat]
      /\ lastIdx[r] = READ_TIME_INDEX(rSec[r])
  BY DEF SecInv, TypeOK, ReaderSeconds, ReaderSecond
<1> DEFINE s == rSec[r]
<1>2. s \in Nat /\ s + 1 \in Nat /\ lastIdx[r] = READ_TIME_INDEX(s)
  BY <1>1
<1>3. rSec' = [rSec EXCEPT ![r] = s + 1]
  BY DEF NextSlot
<1> HIDE DEF s
<1>4. READ_NEXT_TIME_INDEX(READ_TIME_INDEX(s)) = READ_TIME_INDEX(s + 1)
  BY <1>2, ReadNextIsSucc
<1>5. lastIdx' = [lastIdx EXCEPT ![r] = READ_TIME_INDEX(s + 1)]
  BY <1>2, <1>4 DEF NextSlot
<1>6. READ_TIME_INDEX(s + 1) \in Slots
  BY <1>2, ReadIndexIsSlot
<1> QED  BY <1>1, <1>2, <1>3, <1>5, <1>6 DEF s

\* What a router keeps, one router at a time.
LEMMA RouterTyped ==
  ASSUME TypeOK, NEW r \in Router
  PROVE  /\ lastIdx[r] \in Slots /\ pos[r] \in Nat
         /\ \A i \in Slots : cnt[r][i] \in Int
<1>1. /\ lastIdx \in [Router -> Slots] /\ pos \in [Router -> Nat]
      /\ cnt \in [Router -> [Slots -> Int]]
  BY DEF TypeOK
<1> QED  BY <1>1

\* Changing one counter to a number leaves the counters typed.
LEMMA CntStep ==
  ASSUME TypeOK, NEW r \in Router, NEW i \in Slots, NEW c \in Int,
         cnt' = [cnt EXCEPT ![r][i] = c]
  PROVE  cnt' \in [Router -> [Slots -> Int]]
<1>1. cnt \in [Router -> [Slots -> Int]] /\ cnt[r] \in [Slots -> Int]
  BY DEF TypeOK
<1>2. [cnt[r] EXCEPT ![i] = c] \in [Slots -> Int]
  BY <1>1
<1> QED  BY <1>1, <1>2

LEMMA SecInvStep == SecInv /\ [Next]_vars => SecInv'
<1> SUFFICES ASSUME SecInv, [Next]_vars PROVE SecInv'
  OBVIOUS
<1> USE DEF SecInv
<1>1. CASE Tick
  <2>1. TypeOK'
    BY <1>1 DEF Tick, TypeOK, ring, agent, readers
  <2>2. ASSUME NEW r \in Router PROVE ReaderSecond(r)'
    <3>1. /\ now + 1 - rSec[r] <= MaxReadLag /\ now' = now + 1
          /\ rpc' = rpc /\ lastIdx' = lastIdx /\ curIdx' = curIdx
          /\ rSec' = rSec /\ cSec' = cSec
      BY <1>1 DEF Tick, readers
    <3>2. now \in Nat /\ rSec[r] \in Nat /\ cSec[r] \in Nat /\ ReaderSecond(r)
      BY DEF TypeOK, ReaderSeconds
    <3>3. cSec[r] <= now + 1
      BY <3>2 DEF ReaderSecond
    <3> QED  BY <3>1, <3>2, <3>3 DEF ReaderSecond, RouterAtSlot
  <2>3. WriterSecond'
    BY <1>1, TimeRingAssumption, RingClockAssumption
    DEF Tick, TypeOK, WriterSecond, AgentAtSlot, agent, readers
  <2> QED  BY <2>1, <2>2, <2>3 DEF ReaderSeconds
<1>2. CASE AgentRecv
  <2>1. /\ PKT_WRITE_TIME_INDEX(now) = READ_TIME_INDEX(now + 1)
        /\ READ_TIME_INDEX(now + 1) \in Slots
    <3> DEFINE n == now + 1
    <3>1. now \in Nat /\ n \in Nat  BY DEF TypeOK
    <3>2. PKT_WRITE_TIME_INDEX(now) = READ_TIME_INDEX(n)  BY <3>1, WriteIsSucc
    <3> HIDE DEF n
    <3>3. READ_TIME_INDEX(n) \in Slots  BY <3>1, ReadIndexIsSlot
    <3> QED  BY <3>2, <3>3 DEF n
  <2>2. TypeOK'
    BY <1>2, <2>1 DEF AgentRecv, TypeOK, AgentAtSlot, ring, readers
  <2>3. ReaderSeconds'
    BY <1>2 DEF AgentRecv, ReaderSeconds, ReaderSecond, RouterAtSlot, readers
  <2>4. WriterSecond'
    BY <1>2, <2>1, TimeRingAssumption, RingClockAssumption
    DEF AgentRecv, TypeOK, WriterSecond, AgentAtSlot
  <2> QED  BY <2>2, <2>3, <2>4
<1>3. CASE AgentDrop
  <2>1. TypeOK'
    BY <1>3 DEF AgentDrop, TypeOK, AgentAtSlot, ring, readers
  <2>2. ReaderSeconds'
    BY <1>3 DEF AgentDrop, ReaderSeconds, ReaderSecond, RouterAtSlot, readers
  <2>3. WriterSecond'
    BY <1>3 DEF AgentDrop, WriterSecond, AgentAtSlot
  <2> QED  BY <2>1, <2>2, <2>3
<1>4. CASE AgentAdmit
  <2>1. TypeOK'
    BY <1>4 DEF AgentAdmit, TypeOK, AgentAtSlot, ring, readers
  <2>2. ReaderSeconds'
    BY <1>4 DEF AgentAdmit, ReaderSeconds, ReaderSecond, RouterAtSlot, readers
  <2>3. WriterSecond'
    BY <1>4 DEF AgentAdmit, WriterSecond, AgentAtSlot
  <2> QED  BY <2>1, <2>2, <2>3
<1>5. CASE AgentCopy
  <2>1. TypeOK'
    BY <1>5 DEF AgentCopy, TypeOK, AgentAtSlot, ring, readers
  <2>2. ReaderSeconds'
    BY <1>5 DEF AgentCopy, ReaderSeconds, ReaderSecond, RouterAtSlot, readers
  <2>3. WriterSecond'
    BY <1>5 DEF AgentCopy, WriterSecond, AgentAtSlot
  <2> QED  BY <2>1, <2>2, <2>3
<1>6. CASE AgentCount
  <2>0. cnt' \in [Router -> [Slots -> Int]]
    <3>1. router \in Router /\ t_index \in Slots /\ cnt[router][t_index] + 1 \in Int
      BY DEF TypeOK
    <3>2. cnt' = [cnt EXCEPT ![router][t_index] = cnt[router][t_index] + 1]
      BY <1>6 DEF AgentCount
    <3> QED  BY <3>1, <3>2, CntStep
  <2>a. router' \in Router
    BY <1>6, TimeRingAssumption, RingClockAssumption DEF AgentCount, TypeOK, Router
  <2>1. TypeOK'
    BY <1>6, <2>0, <2>a DEF AgentCount, TypeOK, AgentAtSlot, ring, readers
  <2>2. ReaderSeconds'
    BY <1>6 DEF AgentCount, ReaderSeconds, ReaderSecond, RouterAtSlot, readers
  <2>3. WriterSecond'
    BY <1>6 DEF AgentCount, WriterSecond, AgentAtSlot
  <2> QED  BY <2>1, <2>2, <2>3
<1>7. ASSUME NEW r \in Router, RouterStep(r) PROVE SecInv'
  <2>1. CASE RouterWake(r)
    <3>0. READ_TIME_INDEX(now) \in Slots
      BY ReadIndexIsSlot DEF TypeOK
    <3>1. TypeOK'
      BY <2>1, <3>0 DEF RouterWake, TypeOK, ring, agent
    <3>2. ASSUME NEW q \in Router PROVE ReaderSecond(q)'
      <4>1. ReaderSecond(q)
        BY DEF ReaderSeconds
      <4>2. CASE q # r
        BY <2>1, <3>0, <4>1, <4>2 DEF RouterWake, TypeOK, ReaderSecond, agent
      <4>3. CASE q = r
        BY <2>1, <3>0, <4>1, <4>3, TimeRingAssumption, RingClockAssumption
        DEF RouterWake, TypeOK, ReaderSecond, RouterAtSlot, agent
      <4> QED  BY <4>2, <4>3
    <3>3. WriterSecond'
      BY <2>1 DEF RouterWake, WriterSecond, AgentAtSlot, agent
    <3> QED  BY <3>1, <3>2, <3>3 DEF ReaderSeconds
  <2>2. CASE RouterSleep(r)
    <3>1. TypeOK'
      BY <2>2 DEF RouterSleep, TypeOK, ring, agent
    <3>2. ASSUME NEW q \in Router PROVE ReaderSecond(q)'
      <4>1. ReaderSecond(q)
        BY DEF ReaderSeconds
      <4>2. CASE q # r
        BY <2>2, <4>1, <4>2 DEF RouterSleep, TypeOK, ReaderSecond, agent
      <4>3. CASE q = r
        BY <2>2, <4>1, <4>3, TimeRingAssumption, RingClockAssumption
        DEF RouterSleep, TypeOK, ReaderSecond, RouterAtSlot, agent
      <4> QED  BY <4>2, <4>3
    <3>3. WriterSecond'
      BY <2>2 DEF RouterSleep, WriterSecond, AgentAtSlot, agent
    <3> QED  BY <3>1, <3>2, <3>3 DEF ReaderSeconds
  <2>3. CASE RouterSkip(r)
    <3>0. NextSlot(r)  BY <2>3 DEF RouterSkip
    <3>a. /\ lastIdx' \in [Router -> Slots] /\ rSec' \in [Router -> Nat]
          /\ lastIdx'[r] = READ_TIME_INDEX(rSec'[r])
          /\ rSec'[r] = rSec[r] + 1
          /\ \A q \in Router \ {r} :
               lastIdx'[q] = lastIdx[q] /\ rSec'[q] = rSec[q]
      BY <3>0, NextSlotStep
    <3>b. rSec[r] < cSec[r]
      BY <2>3, BehindMeansBefore DEF RouterSkip, ReaderSeconds, ReaderSecond, RouterAtSlot
    <3>1. TypeOK'
      BY <2>3, <3>a, <3>b DEF RouterSkip, TypeOK, ring, agent
    <3>2. ASSUME NEW q \in Router PROVE ReaderSecond(q)'
      <4>1. ReaderSecond(q)
        BY DEF ReaderSeconds
      <4>2. CASE q # r
        BY <2>3, <3>a, <3>b, <4>1, <4>2 DEF RouterSkip, TypeOK, ReaderSecond, agent
      <4>3. CASE q = r
        <5>1. /\ curIdx'[q] = READ_TIME_INDEX(cSec'[q])
              /\ cSec'[q] = cSec[q] /\ now' = now
              /\ rpc'[q] \notin RouterAtSlot
          BY <2>3, <4>1, <4>3 DEF RouterSkip, TypeOK, ReaderSecond, RouterAtSlot, agent
        <5>2. /\ rSec[q] \in Nat /\ cSec[q] \in Nat /\ now \in Nat
              /\ cSec[q] <= now /\ now - rSec[q] <= MaxReadLag
          BY <4>1 DEF TypeOK, ReaderSecond
        <5>3. /\ rSec'[q] <= cSec[q] /\ now - rSec'[q] <= MaxReadLag
          BY <3>a, <3>b, <4>3, <5>2, TimeRingAssumption, RingClockAssumption
        <5>4. lastIdx'[q] = READ_TIME_INDEX(rSec'[q])
          BY <3>a, <4>3
        <5> QED  BY <5>1, <5>2, <5>3, <5>4 DEF ReaderSecond, RouterAtSlot
      <4> QED  BY <4>2, <4>3
    <3>3. WriterSecond'
      BY <2>3 DEF RouterSkip, WriterSecond, AgentAtSlot, agent
    <3> QED  BY <3>1, <3>2, <3>3 DEF ReaderSeconds
  <2>4. CASE RouterTake(r)
    <3>0. rSec[r] < cSec[r]
      BY <2>4, BehindMeansBefore DEF RouterTake
    <3>1. TypeOK'
      BY <2>4, <3>0 DEF RouterTake, TypeOK, ring, agent
    <3>2. ASSUME NEW q \in Router PROVE ReaderSecond(q)'
      <4>1. ReaderSecond(q)
        BY DEF ReaderSeconds
      <4>2. CASE q # r
        BY <2>4, <3>0, <4>1, <4>2 DEF RouterTake, TypeOK, ReaderSecond, agent
      <4>3. CASE q = r
        BY <2>4, <3>0, <4>1, <4>3, TimeRingAssumption, RingClockAssumption
        DEF RouterTake, TypeOK, ReaderSecond, RouterAtSlot, agent
      <4> QED  BY <4>2, <4>3
    <3>3. WriterSecond'
      BY <2>4 DEF RouterTake, WriterSecond, AgentAtSlot, agent
    <3> QED  BY <3>1, <3>2, <3>3 DEF ReaderSeconds
  <2>5. CASE RouterBusy(r)
    <3>1. TypeOK'
      BY <2>5 DEF RouterBusy, TypeOK, ring, agent
    <3>2. ASSUME NEW q \in Router PROVE ReaderSecond(q)'
      <4>1. ReaderSecond(q)
        BY DEF ReaderSeconds
      <4>2. /\ UNCHANGED <<now, lastIdx, curIdx, rSec, cSec>>
            /\ rpc[r] \in RouterAtSlot
            /\ rpc'[q] = IF q = r THEN "route" ELSE rpc[q]
        BY <2>5 DEF RouterBusy, TypeOK, RouterAtSlot
      <4>3. rpc'[q] \in RouterAtSlot => rpc[q] \in RouterAtSlot
        BY <4>2
      <4> QED  BY <4>1, <4>2, <4>3 DEF ReaderSecond
    <3>3. WriterSecond'
      BY <2>5 DEF RouterBusy, WriterSecond, AgentAtSlot, agent
    <3> QED  BY <3>1, <3>2, <3>3 DEF ReaderSeconds
  <2>6. CASE RouterRoute(r)
    <3>0. cnt' \in [Router -> [Slots -> Int]]
      <4>1. lastIdx[r] \in Slots /\ cnt[r][lastIdx[r]] - 1 \in Int
        BY RouterTyped
      <4>2. cnt' = [cnt EXCEPT ![r][lastIdx[r]] = cnt[r][lastIdx[r]] - 1]
        BY <2>6 DEF RouterRoute
      <4> QED  BY <4>1, <4>2, CntStep
    <3>a. pos' \in [Router -> Nat]
      <4>0. pos \in [Router -> Nat]
        BY DEF TypeOK
      <4>1. pos \in [Router -> Nat] /\ pos[r] + 1 \in Nat
        BY <4>0, RouterTyped
      <4>2. pos' = [pos EXCEPT ![r] = pos[r] + 1]
        BY <2>6 DEF RouterRoute
      <4> QED  BY <4>1, <4>2
    <3>1. TypeOK'
      BY <2>6, <3>0, <3>a DEF RouterRoute, TypeOK, ring, agent
    <3>2. ASSUME NEW q \in Router PROVE ReaderSecond(q)'
      <4>1. ReaderSecond(q)
        BY DEF ReaderSeconds
      <4>2. UNCHANGED <<now, lastIdx, curIdx, rSec, cSec, rpc>>
        BY <2>6 DEF RouterRoute
      <4> QED  BY <4>1, <4>2 DEF ReaderSecond
    <3>3. WriterSecond'
      BY <2>6 DEF RouterRoute, WriterSecond, AgentAtSlot, agent
    <3> QED  BY <3>1, <3>2, <3>3 DEF ReaderSeconds
  <2>7. CASE RouterZero(r)
    <3>0. cnt' \in [Router -> [Slots -> Int]]
      <4>1. lastIdx[r] \in Slots /\ 0 \in Int
        BY DEF TypeOK
      <4>2. cnt' = [cnt EXCEPT ![r][lastIdx[r]] = 0]
        BY <2>7 DEF RouterZero
      <4> QED  BY <4>1, <4>2, CntStep
    <3>1. TypeOK'
      BY <2>7, <3>0 DEF RouterZero, TypeOK, ring, agent
    <3>2. ASSUME NEW q \in Router PROVE ReaderSecond(q)'
      <4>1. ReaderSecond(q)
        BY DEF ReaderSeconds
      <4>2. CASE q # r
        BY <2>7, <4>1, <4>2 DEF RouterZero, TypeOK, ReaderSecond, agent
      <4>3. CASE q = r
        BY <2>7, <4>1, <4>3, TimeRingAssumption, RingClockAssumption
        DEF RouterZero, TypeOK, ReaderSecond, RouterAtSlot, agent
      <4> QED  BY <4>2, <4>3
    <3>3. WriterSecond'
      BY <2>7 DEF RouterZero, WriterSecond, AgentAtSlot, agent
    <3> QED  BY <3>1, <3>2, <3>3 DEF ReaderSeconds
  <2>8. CASE RouterRelease(r)
    <3>0. NextSlot(r)  BY <2>8 DEF RouterRelease
    <3>a. /\ lastIdx' \in [Router -> Slots] /\ rSec' \in [Router -> Nat]
          /\ lastIdx'[r] = READ_TIME_INDEX(rSec'[r])
          /\ rSec'[r] = rSec[r] + 1
          /\ \A q \in Router \ {r} :
               lastIdx'[q] = lastIdx[q] /\ rSec'[q] = rSec[q]
      BY <3>0, NextSlotStep
    <3>b. rSec[r] < cSec[r]
      BY <2>8, BehindMeansBefore DEF RouterRelease, ReaderSeconds, ReaderSecond, RouterAtSlot
    <3>1. TypeOK'
      BY <2>8, <3>a, <3>b DEF RouterRelease, TypeOK, ring, agent
    <3>2. ASSUME NEW q \in Router PROVE ReaderSecond(q)'
      <4>1. ReaderSecond(q)
        BY DEF ReaderSeconds
      <4>2. CASE q # r
        BY <2>8, <3>a, <3>b, <4>1, <4>2 DEF RouterRelease, TypeOK, ReaderSecond, agent
      <4>3. CASE q = r
        <5>1. /\ curIdx'[q] = READ_TIME_INDEX(cSec'[q])
              /\ cSec'[q] = cSec[q] /\ now' = now
              /\ rpc'[q] \notin RouterAtSlot
          BY <2>8, <4>1, <4>3 DEF RouterRelease, TypeOK, ReaderSecond, RouterAtSlot, agent
        <5>2. /\ rSec[q] \in Nat /\ cSec[q] \in Nat /\ now \in Nat
              /\ cSec[q] <= now /\ now - rSec[q] <= MaxReadLag
          BY <4>1 DEF TypeOK, ReaderSecond
        <5>3. /\ rSec'[q] <= cSec[q] /\ now - rSec'[q] <= MaxReadLag
          BY <3>a, <3>b, <4>3, <5>2, TimeRingAssumption, RingClockAssumption
        <5>4. lastIdx'[q] = READ_TIME_INDEX(rSec'[q])
          BY <3>a, <4>3
        <5> QED  BY <5>1, <5>2, <5>3, <5>4 DEF ReaderSecond, RouterAtSlot
      <4> QED  BY <4>2, <4>3
    <3>3. WriterSecond'
      BY <2>8 DEF RouterRelease, WriterSecond, AgentAtSlot, agent
    <3> QED  BY <3>1, <3>2, <3>3 DEF ReaderSeconds
  <2> QED  BY <1>7, <2>1, <2>2, <2>3, <2>4, <2>5, <2>6, <2>7, <2>8 DEF RouterStep
<1>8. CASE UNCHANGED vars
  BY <1>8
  DEF TypeOK, ReaderSeconds, ReaderSecond, WriterSecond, AgentAtSlot, RouterAtSlot,
      vars, ring, agent, readers
<1> QED  BY <1>1, <1>2, <1>3, <1>4, <1>5, <1>6, <1>7, <1>8 DEF Next, Agent

THEOREM SecInvAlways == Spec => []SecInv
  BY SecInvInit, SecInvStep, PTL DEF Spec

(* Type correctness of the hop.                                            *)
THEOREM TypeCorrect == Spec => []TypeOK
<1>1. SecInv => TypeOK  BY DEF SecInv
<1> QED  BY <1>1, SecInvAlways, PTL

(* The agent and a router are never in the same slot, however many slots   *)
(* and routers there are, if the agent is done within one tick of reading  *)
(* the clock and no router is TIME_INDEX - 1 seconds or more behind        *)
(* (ReadTcpAgent::processPacket, Routers::readTcpPacket).                  *)
THEOREM SlotsAreExclusive == Spec => []SlotExclusion
  BY SecInvAlways, SecInvExcludes, PTL

(* lastIdx # curIdx in Routers::run is exact: the router drains every      *)
(* second that is over, and none that is not.                              *)
THEOREM OnlyThePastIsDrained == Spec => []DrainsOnlyThePast
<1>1. SecInv => DrainsOnlyThePast
  <2> SUFFICES ASSUME SecInv PROVE DrainsOnlyThePast
    OBVIOUS
  <2>1. \A r \in Router : (lastIdx[r] = curIdx[r]) <=> (rSec[r] = cSec[r])
    BY SameSlotSameSecond
  <2> QED  BY <2>1 DEF SecInv, ReaderSeconds, ReaderSecond, DrainsOnlyThePast
<1> QED  BY <1>1, SecInvAlways, PTL

-----------------------------------------------------------------------------
LEMMA SlotStateStep == SecInv /\ SlotState /\ [Next]_vars => SlotState'
<1> SUFFICES ASSUME SecInv, SlotState, [Next]_vars PROVE SlotState'
  OBVIOUS
<1>0. /\ TypeOK /\ SlotExclusion
      /\ \A r \in Router : \A i \in Slots : SlotFine(r, i)
      /\ apc \in {"copy", "count"} => cnt[router][t_index] < maxPktPerRouter
  BY SecInvExcludes DEF SecInv, SlotState
<1>a. /\ busy \in [Router -> [Slots -> BOOLEAN]]
      /\ cnt \in [Router -> [Slots -> Int]]
      /\ lastIdx \in [Router -> Slots] /\ router \in Router /\ t_index \in Slots
      /\ rpc \in [Router -> {"sleep", "drain", "take", "route", "release"}]
      /\ \A r \in Router : \A i \in Slots : cnt[r][i] \in Int /\ busy[r][i] \in BOOLEAN
  BY <1>0 DEF TypeOK
<1>b. maxPktPerRouter \in Nat
  BY TimeRingAssumption, RingClockAssumption
<1>1. ASSUME NEW q \in Router, NEW i \in Slots PROVE SlotFine(q, i)'
  <2>0. SlotFine(q, i) /\ cnt[q][i] \in Int  BY <1>0, <1>a
  <2>1. CASE UNCHANGED <<busy, cnt, rpc, lastIdx>>
    BY <2>0, <2>1 DEF SlotFine
  <2>2. CASE AgentCount
    BY <1>0, <1>a, <1>b, <2>0, <2>2 DEF AgentCount, SlotFine, readers
  <2>3. ASSUME NEW r \in Router, RouterStep(r) PROVE SlotFine(q, i)'
    <3>1. CASE RouterWake(r) \/ RouterSleep(r) \/ RouterTake(r) \/ RouterSkip(r)
      <4>1. UNCHANGED <<busy, cnt>>
        BY <3>1 DEF RouterWake, RouterSleep, RouterTake, RouterSkip, ring
      <4>2. rpc[r] \notin {"route", "release"}
        BY <3>1 DEF RouterWake, RouterSleep, RouterTake, RouterSkip
      <4>3. q # r => rpc'[q] = rpc[q] /\ lastIdx'[q] = lastIdx[q]
        BY <3>1, <1>a
        DEF RouterWake, RouterSleep, RouterTake, RouterSkip, NextSlot
      <4> QED  BY <2>0, <4>1, <4>2, <4>3 DEF SlotFine
    <3>2. CASE RouterBusy(r)
      BY <1>a, <2>0, <3>2 DEF RouterBusy, SlotFine
    <3>3. CASE RouterRoute(r)
      BY <1>a, <1>b, <2>0, <3>3 DEF RouterRoute, SlotFine
    <3>4. CASE RouterZero(r)
      BY <1>a, <1>b, <2>0, <3>4 DEF RouterZero, SlotFine
    <3>5. CASE RouterRelease(r)
      BY <1>a, <2>0, <3>5 DEF RouterRelease, NextSlot, SlotFine
    <3> QED  BY <2>3, <3>1, <3>2, <3>3, <3>4, <3>5 DEF RouterStep
  <2> QED
    BY <2>1, <2>2, <2>3
    DEF Next, Agent, Tick, AgentRecv, AgentDrop, AgentAdmit, AgentCopy,
        vars, ring, readers
<1>2. ASSUME apc' \in {"copy", "count"}
      PROVE  cnt'[router'][t_index'] < maxPktPerRouter
  <2>1. CASE UNCHANGED <<cnt, router, t_index, apc>>
    BY <1>0, <1>2, <2>1
  <2>2. CASE AgentAdmit
    BY <1>a, <1>b, <2>2 DEF AgentAdmit, SlotRefuses, ring
  <2>3. CASE AgentCopy
    BY <1>0, <2>3 DEF AgentCopy
  <2>4. CASE AgentRecv \/ AgentDrop \/ AgentCount
    BY <1>2, <2>4 DEF AgentRecv, AgentDrop, AgentCount
  <2>5. ASSUME NEW r \in Router, RouterRoute(r) \/ RouterZero(r)
        PROVE  cnt'[router'][t_index'] < maxPktPerRouter
    <3>1. UNCHANGED <<apc, router, t_index>>
      BY <2>5 DEF RouterRoute, RouterZero, agent
    <3>2. r = router => t_index # lastIdx[r]
      BY <1>0, <1>2, <2>5, <3>1
      DEF SlotExclusion, AgentAtSlot, RouterAtSlot, RouterRoute, RouterZero
    <3>3. cnt'[router][t_index] = cnt[router][t_index]
      BY <1>a, <2>5, <3>2 DEF RouterRoute, RouterZero
    <3> QED  BY <1>0, <1>2, <3>1, <3>3
  <2>6. ASSUME NEW r \in Router, RouterStep(r), ~ (RouterRoute(r) \/ RouterZero(r))
        PROVE  UNCHANGED <<cnt, router, t_index, apc>>
    BY <2>6 DEF RouterStep, RouterWake, RouterSleep, RouterSkip, RouterTake,
                RouterBusy, RouterRelease, ring, agent
  <2>7. CASE Tick \/ UNCHANGED vars
    BY <2>1, <2>7 DEF Tick, vars, ring, agent
  <2> QED  BY <2>1, <2>2, <2>3, <2>4, <2>5, <2>6, <2>7 DEF Next, Agent
<1> QED  BY <1>1, <1>2 DEF SlotState

(* The busy flag never costs a packet: the agent refuses one only when the *)
(* router's share of the second is used up (ReadTcpAgent.cpp:58).          *)
THEOREM OnlyFullSlotsRefuse == Spec => DropOnlyWhenFull
<1>1. Init => SlotState
  BY TimeRingAssumption, RingClockAssumption DEF Init, SlotState, SlotFine
<1>2. SecInv /\ SlotState /\ [Next]_vars
        => [AgentDrop => cnt[router][t_index] = maxPktPerRouter]_vars
  <2> SUFFICES ASSUME SecInv, SlotState, AgentDrop
               PROVE  cnt[router][t_index] = maxPktPerRouter
    OBVIOUS
  <2>1. /\ router \in Router /\ t_index \in Slots
        /\ cnt[router][t_index] \in Int /\ SlotExclusion
    BY SecInvExcludes DEF SecInv, TypeOK
  <2>2. /\ busy[router][t_index] =>
             rpc[router] \in {"route", "release"} /\ t_index = lastIdx[router]
        /\ cnt[router][t_index] <= maxPktPerRouter
    BY <2>1 DEF SlotState, SlotFine
  <2>3. ~ busy[router][t_index]
    BY <2>1, <2>2 DEF SlotExclusion, AgentAtSlot, RouterAtSlot, AgentDrop
  <2>4. cnt[router][t_index] >= maxPktPerRouter
    BY <2>3 DEF AgentDrop, SlotRefuses
  <2> QED  BY <2>1, <2>2, <2>4, TimeRingAssumption, RingClockAssumption
<1>3. SecInv /\ SlotState /\ [Next]_vars => SlotState'
  BY SlotStateStep
<1> QED  BY <1>1, <1>2, <1>3, SecInvAlways, PTL DEF Spec, DropOnlyWhenFull

-----------------------------------------------------------------------------
(* Sequences put one after the other.                                      *)

\* Induction, as far as it can be stated of a set: what holds of 0 and of the
\* successor holds of every number, for else there would be more numbers up to
\* m that it does not hold of than predecessors of theirs.
LEMMA NatsIn ==
  ASSUME NEW P, 0 \in P, \A n \in Nat : n \in P => n + 1 \in P
  PROVE  Nat \subseteq P
<1> SUFFICES ASSUME NEW m \in Nat, m \notin P PROVE FALSE
  OBVIOUS
<1> DEFINE Out == (0 .. m) \ P
           pred == [x \in Out |-> x - 1]
<1>1. m \in Out /\ IsFiniteSet(Out)
  <2>1. IsFiniteSet(0 .. m)
    BY FS_Interval
  <2> QED  BY <2>1, FS_Subset
<1>2. \A x \in Out : x \in Nat /\ x # 0 /\ x - 1 \in Out /\ x - 1 # m
  OBVIOUS
<1>3. IsFiniteSet(Out \ {m}) /\ Cardinality(Out \ {m}) = Cardinality(Out) - 1
  BY <1>1, FS_RemoveElement
<1>4. Cardinality(Out) \in Nat
  BY <1>1, FS_CardinalityType
<1>5. pred \in [Out -> Out \ {m}]
  BY <1>2
<1>6. \E x, y \in Out : x # y /\ pred[x] = pred[y]
  <2> HIDE DEF Out, pred
  <2>1. Cardinality(Out \ {m}) < Cardinality(Out)
    BY <1>3, <1>4
  <2> QED  BY <1>1, <1>3, <1>5, <2>1, FS_PigeonHole
<1> QED  BY <1>2, <1>6

\* s \o t, but that the provers need not look at it.
Join(s, t) == s \o t

\* h[i] is what the first i of m sequences make, as FlattenSeq has it.
Joins(h, ss, m) ==
  h = [i \in 1 .. m |-> IF i = 1 THEN ss[i] ELSE Join(h[i - 1], ss[i])]

\* Every element but the first is the one before and a sequence more.
Grows(h, ss, m) ==
  /\ h[1] = ss[1]
  /\ \A i \in 2 .. m : h[i] = Join(h[i - 1], ss[i])

LEMMA GrowsMore ==
  ASSUME NEW n \in Nat \ {0}, NEW T, NEW ss, NEW h \in [1 .. n -> T], Grows(h, ss, n),
         NEW next \in T, next = Join(h[n], ss[n + 1])
  PROVE  \E k \in [1 .. (n + 1) -> T] : Grows(k, ss, n + 1)
<1> DEFINE k == [i \in 1 .. (n + 1) |-> IF i = n + 1 THEN next ELSE h[i]]
<1>1. k \in [1 .. (n + 1) -> T]
  OBVIOUS
<1>2. \A i \in 1 .. n : k[i] = h[i]
  OBVIOUS
<1>3. k[n + 1] = next
  OBVIOUS
<1> HIDE DEF k
<1>4. ASSUME NEW i \in 2 .. (n + 1) PROVE k[i] = Join(k[i - 1], ss[i])
  <2>1. CASE i = n + 1
    <3>1. i - 1 = n /\ n \in 1 .. n
      BY <2>1
    <3> QED  BY <1>2, <1>3, <2>1, <3>1
  <2>2. CASE i # n + 1
    <3>1. i \in 2 .. n /\ i \in 1 .. n /\ i - 1 \in 1 .. n
      BY <2>2
    <3>2. h[i] = Join(h[i - 1], ss[i])
      BY <3>1 DEF Grows
    <3> QED  BY <1>2, <3>1, <3>2
  <2> QED  BY <2>1, <2>2
<1>5. k[1] = ss[1]
  BY <1>2 DEF Grows
<1> QED  BY <1>1, <1>4, <1>5 DEF Grows

LEMMA JoinsExists ==
  ASSUME NEW m \in Nat \ {0}, NEW T, NEW ss, \A i \in 1 .. m : ss[i] \in T,
         \A s, t \in T : Join(s, t) \in T
  PROVE  \E h \in [1 .. m -> T] : Joins(h, ss, m)
<1> DEFINE P == {n \in Nat : n < m => \E h \in [1 .. (n + 1) -> T] : Grows(h, ss, n + 1)}
<1>1. 0 \in P
  <2> DEFINE h == [i \in 1 .. (0 + 1) |-> ss[1]]
  <2>1. h \in [1 .. (0 + 1) -> T] /\ Grows(h, ss, 0 + 1)
    BY DEF Grows
  <2> HIDE DEF h
  <2> QED  BY <2>1
<1>2. ASSUME NEW n \in Nat, n \in P PROVE n + 1 \in P
  <2> SUFFICES ASSUME n + 1 < m
               PROVE  \E h \in [1 .. ((n + 1) + 1) -> T] : Grows(h, ss, (n + 1) + 1)
    OBVIOUS
  <2>1. PICK h \in [1 .. (n + 1) -> T] : Grows(h, ss, n + 1)
    BY <1>2
  <2>2. h[n + 1] \in T /\ ss[(n + 1) + 1] \in T /\ n + 1 \in Nat \ {0}
    OBVIOUS
  <2>3. Join(h[n + 1], ss[(n + 1) + 1]) \in T
    BY <2>2
  <2> HIDE DEF P
  <2> QED  BY <2>1, <2>2, <2>3, GrowsMore
<1>3. Nat \subseteq P
  <2> HIDE DEF P
  <2> QED  BY <1>1, <1>2, NatsIn
<1>4. PICK h \in [1 .. m -> T] : Grows(h, ss, m)
  <2>1. m - 1 \in P /\ m - 1 \in Nat /\ (m - 1) + 1 = m /\ m - 1 < m
    BY <1>3
  <2> QED  BY <2>1
<1>5. \A i \in 1 .. m : h[i] = IF i = 1 THEN ss[i] ELSE Join(h[i - 1], ss[i])
  BY <1>4 DEF Grows
<1>6. Joins(h, ss, m)
  BY <1>4, <1>5 DEF Joins
<1> QED  BY <1>4, <1>6

LEMMA JoinsSteps ==
  ASSUME NEW m \in Nat \ {0}, NEW ss, NEW h, Joins(h, ss, m)
  PROVE  /\ h[1] = ss[1]
         /\ \A i \in 1 .. (m - 1) : h[i + 1] = Join(h[i], ss[i + 1])
<1>2. \A i \in 1 .. m : h[i] = IF i = 1 THEN ss[i] ELSE Join(h[i - 1], ss[i])
  BY DEF Joins
<1>3. ASSUME NEW i \in 1 .. (m - 1) PROVE h[i + 1] = Join(h[i], ss[i + 1])
  <2>1. i + 1 \in 1 .. m /\ i + 1 # 1 /\ (i + 1) - 1 = i
    OBVIOUS
  <2> QED  BY <1>2, <2>1
<1> QED
  <2>1. 1 \in 1 .. m
    OBVIOUS
  <2> QED  BY <1>2, <1>3, <2>1

\* tt starts with the first m sequences of ss, or with one more.
Starts(ss, tt, m) == \A i \in 1 .. m : tt[i] = ss[i]
Follows(ss, tt, m) == \A i \in 1 .. m : tt[i + 1] = ss[i]
Sequences(ss, T, m) == \A i \in 1 .. m : ss[i] \in T
JoinsAnyway(T) == \A s, t, u \in T : Join(Join(s, t), u) = Join(s, Join(t, u))

\* What the first sequences make does not depend on those after them.
LEMMA JoinsAgree ==
  ASSUME NEW m \in Nat \ {0}, NEW n \in Nat, m <= n,
         NEW ss, NEW tt, Starts(ss, tt, m),
         NEW h, Joins(h, ss, m), NEW k, Joins(k, tt, n)
  PROVE  \A i \in 1 .. m : h[i] = k[i]
<1> DEFINE P == {j \in Nat : j < m => h[j + 1] = k[j + 1]}
<1>1. /\ h[1] = ss[1] /\ k[1] = tt[1]
      /\ \A i \in 1 .. (m - 1) : h[i + 1] = Join(h[i], ss[i + 1])
      /\ \A i \in 1 .. (n - 1) : k[i + 1] = Join(k[i], tt[i + 1])
  BY JoinsSteps DEF Starts
<1>2. 0 \in P
  BY <1>1 DEF Starts
<1>3. ASSUME NEW j \in Nat, j \in P PROVE j + 1 \in P
  <2> SUFFICES ASSUME j + 1 < m PROVE h[(j + 1) + 1] = k[(j + 1) + 1]
    OBVIOUS
  <2>1. h[j + 1] = k[j + 1]
    BY <1>3
  <2>2. j + 1 \in 1 .. (m - 1) /\ j + 1 \in 1 .. (n - 1) /\ (j + 1) + 1 \in 1 .. m
    OBVIOUS
  <2> HIDE DEF P
  <2> QED  BY <1>1, <2>1, <2>2 DEF Starts
<1>4. Nat \subseteq P
  <2> HIDE DEF P
  <2> QED  BY <1>2, <1>3, NatsIn
<1> QED
  <2> SUFFICES ASSUME NEW i \in 1 .. m PROVE h[i] = k[i]
    OBVIOUS
  <2>1. i - 1 \in Nat /\ i - 1 < m /\ (i - 1) + 1 = i
    OBVIOUS
  <2>2. i - 1 \in P
    BY <1>4, <2>1
  <2> QED  BY <2>1, <2>2

\* What FlattenSeq makes of m sequences of T.
Made(ss, m, T) ==
  \E h \in [1 .. m -> T] : Joins(h, ss, m) /\ FlattenSeq(ss) = h[m]

\* A sequence in front is in front of whatever the others make.
LEMMA JoinsFirst ==
  ASSUME NEW m \in Nat \ {0}, NEW n \in Nat \ {0}, n = m + 1, NEW T,
         JoinsAnyway(T), NEW ss, NEW tt, Sequences(ss, T, m), Follows(ss, tt, m), tt[1] \in T,
         NEW h \in [1 .. m -> T], Joins(h, ss, m), NEW k, Joins(k, tt, n)
  PROVE  k[n] = Join(tt[1], h[m])
<1> DEFINE P == {j \in Nat : j < m => k[(j + 1) + 1] = Join(tt[1], h[j + 1])}
<1>1. /\ h[1] = ss[1] /\ k[1] = tt[1]
      /\ \A i \in 1 .. (m - 1) : h[i + 1] = Join(h[i], ss[i + 1])
      /\ \A i \in 1 .. (n - 1) : k[i + 1] = Join(k[i], tt[i + 1])
  <2> HIDE DEF P
  <2> QED  BY JoinsSteps
<1>2. 0 \in P
  <2>1. 1 \in 1 .. m /\ 1 \in 1 .. (n - 1)
    OBVIOUS
  <2>2. k[1 + 1] = Join(k[1], tt[1 + 1]) /\ tt[1 + 1] = ss[1]
    BY <1>1, <2>1 DEF Follows
  <2> QED  BY <1>1, <2>2
<1>3. ASSUME NEW j \in Nat, j \in P PROVE j + 1 \in P
  <2> SUFFICES ASSUME j + 1 < m
               PROVE  k[((j + 1) + 1) + 1] = Join(tt[1], h[(j + 1) + 1])
    OBVIOUS
  <2>1. k[(j + 1) + 1] = Join(tt[1], h[j + 1])
    BY <1>3
  <2>2. PICK i \in 1 .. (m - 1) : i = j + 1
    OBVIOUS
  <2>3. i \in 1 .. m /\ i + 1 \in 1 .. m /\ i + 1 \in 1 .. (n - 1)
    OBVIOUS
  <2> HIDE DEF P
  <2>4. /\ h[i + 1] = Join(h[i], ss[i + 1])
        /\ k[(i + 1) + 1] = Join(k[i + 1], tt[(i + 1) + 1])
        /\ tt[(i + 1) + 1] = ss[i + 1]
    BY <1>1, <2>3 DEF Follows
  <2>5. h[i] \in T /\ ss[i + 1] \in T
    BY <2>3 DEF Sequences
  <2>6. Join(Join(tt[1], h[i]), ss[i + 1]) = Join(tt[1], Join(h[i], ss[i + 1]))
    BY <2>5 DEF JoinsAnyway
  <2> QED  BY <2>1, <2>2, <2>4, <2>6
<1>4. Nat \subseteq P
  <2> HIDE DEF P
  <2> QED  BY <1>2, <1>3, NatsIn
<1>5. m - 1 \in P /\ m - 1 < m /\ (m - 1) + 1 = m
  <2>1. m - 1 \in Nat
    OBVIOUS
  <2> HIDE DEF P
  <2> QED  BY <1>4, <2>1
<1> QED  BY <1>5

LEMMA MadeOne ==
  ASSUME NEW T, NEW ss, Made(ss, 1, T)
  PROVE  FlattenSeq(ss) = ss[1]
<1>1. PICK h \in [1 .. 1 -> T] : Joins(h, ss, 1) /\ FlattenSeq(ss) = h[1]
  BY DEF Made
<1> QED  BY <1>1, JoinsSteps

LEMMA MadeLast ==
  ASSUME NEW m \in Nat \ {0}, NEW n \in Nat \ {0}, n = m + 1, NEW T, NEW ss, NEW tt,
         Made(ss, m, T), Made(tt, n, T), Starts(ss, tt, m)
  PROVE  FlattenSeq(tt) = Join(FlattenSeq(ss), tt[n])
<1>1. PICK h \in [1 .. m -> T] : Joins(h, ss, m) /\ FlattenSeq(ss) = h[m]
  BY DEF Made
<1>2. PICK k \in [1 .. n -> T] : Joins(k, tt, n) /\ FlattenSeq(tt) = k[n]
  BY DEF Made
<1>3. \A i \in 1 .. m : h[i] = k[i]
  <2>1. n \in Nat /\ m \in Nat \ {0} /\ m <= n
    OBVIOUS
  <2> QED  BY <1>1, <1>2, <2>1, JoinsAgree
<1>4. \A i \in 1 .. (n - 1) : k[i + 1] = Join(k[i], tt[i + 1])
  BY <1>2, JoinsSteps
<1>5. m \in 1 .. m /\ m \in 1 .. (n - 1)
  OBVIOUS
<1> QED  BY <1>1, <1>2, <1>3, <1>4, <1>5

LEMMA MadeFirst ==
  ASSUME NEW m \in Nat \ {0}, NEW n \in Nat \ {0}, n = m + 1, NEW T, NEW ss, NEW tt,
         JoinsAnyway(T), Made(ss, m, T), Made(tt, n, T),
         Sequences(ss, T, m), Follows(ss, tt, m), tt[1] \in T
  PROVE  FlattenSeq(tt) = Join(tt[1], FlattenSeq(ss))
<1>1. PICK h \in [1 .. m -> T] : Joins(h, ss, m) /\ FlattenSeq(ss) = h[m]
  BY DEF Made
<1>2. PICK k \in [1 .. n -> T] : Joins(k, tt, n) /\ FlattenSeq(tt) = k[n]
  BY DEF Made
<1>3. k[n] = Join(tt[1], h[m])
  BY <1>1, <1>2, JoinsFirst
<1> QED  BY <1>1, <1>2, <1>3

LEMMA FlatIs ==
  ASSUME NEW S, NEW ss \in Seq(Seq(S)), Len(ss) # 0
  PROVE  Made(ss, Len(ss), Seq(S))
<1>0. PICK m \in Nat \ {0} : m = Len(ss)
  OBVIOUS
<1>a. \A i \in 1 .. m : ss[i] \in Seq(S)
  BY <1>0, ElementOfSeq
<1>b. \A s, t \in Seq(S) : Join(s, t) \in Seq(S)
  BY ConcatProperties DEF Join
<1>1. PICK g \in [1 .. m -> Seq(S)] : Joins(g, ss, m)
  BY <1>a, <1>b, JoinsExists
<1> DEFINE f == CHOOSE h : Joins(h, ss, Len(ss))
<1>2. Joins(f, ss, Len(ss))
  BY <1>0, <1>1
<1>3. FlattenSeq(ss) = f[Len(ss)]
  BY Zenon DEF FlattenSeq, Joins, Join
<1> HIDE DEF f
<1>4. \A i \in 1 .. m : f[i] = g[i]
  <2>1. Joins(f, ss, m) /\ m <= m /\ m \in Nat /\ Starts(ss, ss, m)
    BY <1>0, <1>2 DEF Starts
  <2> QED  BY <1>1, <2>1, JoinsAgree
<1>5. m \in 1 .. m
  OBVIOUS
<1>6. Joins(g, ss, m) /\ FlattenSeq(ss) = g[m]
  BY <1>0, <1>1, <1>3, <1>4, <1>5
<1>7. Made(ss, m, Seq(S))
  BY <1>6 DEF Made
<1> QED  BY <1>0, <1>7

LEMMA SeqJoinsAnyway == \A S : JoinsAnyway(Seq(S))
<1>1. \A S : \A s, t, u \in Seq(S) : (s \o t) \o u = s \o (t \o u)
  BY ConcatAssociative, Zenon
<1> QED  BY <1>1, Zenon DEF JoinsAnyway, Join

LEMMA FlatEmpty == FlattenSeq(<<>>) = <<>>
<1>1. Len(<<>>) = 0
  OBVIOUS
<1> QED  BY <1>1, Zenon DEF FlattenSeq

LEMMA FlatTyped ==
  ASSUME NEW S, NEW ss \in Seq(Seq(S))
  PROVE  FlattenSeq(ss) \in Seq(S)
<1>1. CASE Len(ss) = 0
  <2>1. ss = <<>>
    BY <1>1, EmptySeq
  <2> QED  BY <2>1, FlatEmpty, EmptySeq
<1>2. CASE Len(ss) # 0
  <2>1. PICK h \in [1 .. Len(ss) -> Seq(S)] :
           Joins(h, ss, Len(ss)) /\ FlattenSeq(ss) = h[Len(ss)]
    BY <1>2, FlatIs DEF Made
  <2>2. Len(ss) \in 1 .. Len(ss)
    BY <1>2
  <2> QED  BY <2>1, <2>2
<1> QED  BY <1>1, <1>2

\* Another sequence at the end.
LEMMA FlatLast ==
  ASSUME NEW S, NEW ss \in Seq(Seq(S)), NEW tt \in Seq(Seq(S)),
         Len(tt) = Len(ss) + 1, \A i \in 1 .. Len(ss) : tt[i] = ss[i]
  PROVE  FlattenSeq(tt) = FlattenSeq(ss) \o tt[Len(tt)]
<1>0. PICK m \in Nat, n \in Nat \ {0} : m = Len(ss) /\ n = Len(tt) /\ n = m + 1
  OBVIOUS
<1>1. Made(tt, n, Seq(S))
  BY <1>0, FlatIs
<1>2. CASE m = 0
  <2>1. ss = <<>>
    BY <1>0, <1>2, EmptySeq
  <2>2. n = 1
    BY <1>0, <1>2
  <2>3. 1 \in 1 .. Len(tt)
    BY <1>0, <2>2
  <2>4. tt[1] \in Seq(S)
    BY <2>3, ElementOfSeq
  <2>5. <<>> \o tt[1] = tt[1]
    BY <2>4, ConcatEmptySeq
  <2>6. FlattenSeq(tt) = tt[1]
    BY <1>1, <2>2, MadeOne
  <2> QED  BY <1>0, <2>1, <2>2, <2>5, <2>6, FlatEmpty
<1>3. CASE m # 0
  <2>1. m \in Nat \ {0} /\ Made(ss, m, Seq(S)) /\ Starts(ss, tt, m)
    BY <1>0, <1>3, FlatIs DEF Starts
  <2>2. FlattenSeq(tt) = Join(FlattenSeq(ss), tt[n])
    BY <1>0, <1>1, <2>1, MadeLast
  <2> QED  BY <1>0, <2>2 DEF Join
<1> QED  BY <1>2, <1>3

\* Another sequence in front.
LEMMA FlatFirst ==
  ASSUME NEW S, NEW ss \in Seq(Seq(S)), NEW tt \in Seq(Seq(S)),
         Len(tt) = Len(ss) + 1, \A i \in 1 .. Len(ss) : tt[i + 1] = ss[i]
  PROVE  FlattenSeq(tt) = tt[1] \o FlattenSeq(ss)
<1>0. PICK m \in Nat, n \in Nat \ {0} : m = Len(ss) /\ n = Len(tt) /\ n = m + 1
  OBVIOUS
<1>1. Made(tt, n, Seq(S))
  BY <1>0, FlatIs
<1>2. tt[1] \in Seq(S)
  <2>1. 1 \in 1 .. Len(tt)
    BY <1>0
  <2> QED  BY <2>1, ElementOfSeq
<1>3. CASE m = 0
  <2>1. ss = <<>>
    BY <1>0, <1>3, EmptySeq
  <2>2. n = 1
    BY <1>0, <1>3
  <2>3. tt[1] \o <<>> = tt[1]
    BY <1>2, ConcatEmptySeq
  <2>4. FlattenSeq(tt) = tt[1]
    BY <1>1, <2>2, MadeOne
  <2> QED  BY <2>1, <2>3, <2>4, FlatEmpty
<1>4. CASE m # 0
  <2>1. m \in Nat \ {0} /\ Made(ss, m, Seq(S))
    BY <1>0, <1>4, FlatIs
  <2>2. JoinsAnyway(Seq(S))
    BY SeqJoinsAnyway
  <2>3. Sequences(ss, Seq(S), m) /\ Follows(ss, tt, m)
    BY <1>0, ElementOfSeq DEF Sequences, Follows
  <2>4. FlattenSeq(tt) = Join(tt[1], FlattenSeq(ss))
    BY <1>0, <1>1, <1>2, <2>1, <2>2, <2>3, MadeFirst
  <2> QED  BY <2>4 DEF Join
<1> QED  BY <1>3, <1>4

LEMMA FunSeq ==
  ASSUME NEW T, NEW n \in Nat, NEW f \in [1 .. n -> T]
  PROVE  f \in Seq(T) /\ Len(f) = n
  OBVIOUS

\* All sequences but the last, and all but the first.
LEMMA FrontRest ==
  ASSUME NEW T, NEW m \in Nat, NEW ss \in Seq(T), Len(ss) = m + 1
  PROVE  /\ \E uu \in Seq(T) : Len(uu) = m /\ Starts(uu, ss, m)
         /\ \E uu \in Seq(T) : Len(uu) = m /\ Follows(uu, ss, m)
<1>1. \A i \in 1 .. (m + 1) : ss[i] \in T
  BY ElementOfSeq
<1> DEFINE front == [i \in 1 .. m |-> ss[i]]
           rest == [i \in 1 .. m |-> ss[i + 1]]
<1>2. front \in [1 .. m -> T]
  <2>1. \A i \in 1 .. m : ss[i] \in T
    BY <1>1
  <2> QED  BY <2>1
<1>3. rest \in [1 .. m -> T]
  <2>1. \A i \in 1 .. m : i + 1 \in 1 .. (m + 1) /\ ss[i + 1] \in T
    BY <1>1
  <2> QED  BY <2>1
<1>4. (\A i \in 1 .. m : front[i] = ss[i]) /\ (\A i \in 1 .. m : rest[i] = ss[i + 1])
  OBVIOUS
<1> HIDE DEF front, rest
<1>5. front \in Seq(T) /\ Len(front) = m /\ rest \in Seq(T) /\ Len(rest) = m
  BY <1>2, <1>3, FunSeq
<1>6. Starts(front, ss, m) /\ Follows(rest, ss, m)
  BY <1>4 DEF Starts, Follows
<1> QED  BY <1>5, <1>6

\* The two lemmas above, for sequences given by their first or last part.
LEMMA FlatStarts ==
  ASSUME NEW S, NEW m \in Nat, NEW ss \in Seq(Seq(S)), Len(ss) = m,
         NEW tt \in Seq(Seq(S)), Len(tt) = m + 1, Starts(ss, tt, m)
  PROVE  FlattenSeq(tt) = Join(FlattenSeq(ss), tt[m + 1])
<1>1. Len(tt) = Len(ss) + 1 /\ \A i \in 1 .. Len(ss) : tt[i] = ss[i]
  BY Zenon DEF Starts
<1>2. FlattenSeq(tt) = FlattenSeq(ss) \o tt[Len(tt)]
  BY <1>1, FlatLast, Zenon
<1> QED  BY <1>2, Zenon DEF Join

LEMMA FlatFollows ==
  ASSUME NEW S, NEW m \in Nat, NEW ss \in Seq(Seq(S)), Len(ss) = m,
         NEW tt \in Seq(Seq(S)), Len(tt) = m + 1, Follows(ss, tt, m)
  PROVE  FlattenSeq(tt) = Join(tt[1], FlattenSeq(ss))
<1>1. Len(tt) = Len(ss) + 1 /\ \A i \in 1 .. Len(ss) : tt[i + 1] = ss[i]
  BY Zenon DEF Follows
<1>2. FlattenSeq(tt) = tt[1] \o FlattenSeq(ss)
  BY <1>1, FlatFirst, Zenon
<1> QED  BY <1>2, Zenon DEF Join

\* An empty sequence at either end adds nothing.
LEMMA JoinEmpty ==
  ASSUME NEW S, NEW s \in Seq(S)
  PROVE  Join(s, <<>>) = s /\ Join(<<>>, s) = s
  BY ConcatEmptySeq DEF Join

LEMMA FlatEmptyLast ==
  ASSUME NEW S, NEW m \in Nat, NEW ss \in Seq(Seq(S)), Len(ss) = m,
         NEW tt \in Seq(Seq(S)), Len(tt) = m + 1, Starts(ss, tt, m), tt[m + 1] = <<>>
  PROVE  FlattenSeq(tt) = FlattenSeq(ss)
<1>1. FlattenSeq(tt) = Join(FlattenSeq(ss), tt[m + 1])
  BY FlatStarts, Zenon
<1>2. FlattenSeq(ss) \in Seq(S)
  BY FlatTyped, Zenon
<1> QED  BY <1>1, <1>2, JoinEmpty, Zenon

LEMMA FlatEmptyFirst ==
  ASSUME NEW S, NEW m \in Nat, NEW ss \in Seq(Seq(S)), Len(ss) = m,
         NEW tt \in Seq(Seq(S)), Len(tt) = m + 1, Follows(ss, tt, m), tt[1] = <<>>
  PROVE  FlattenSeq(tt) = FlattenSeq(ss)
<1>1. FlattenSeq(tt) = Join(tt[1], FlattenSeq(ss))
  BY FlatFollows, Zenon
<1>2. FlattenSeq(ss) \in Seq(S)
  BY FlatTyped, Zenon
<1> QED  BY <1>1, <1>2, JoinEmpty, Zenon

\* What is taken from the front of the first sequence is taken from the whole.
LEMMA FlatTake ==
  ASSUME NEW S, NEW m \in Nat, NEW ss \in Seq(Seq(S)), Len(ss) = m + 1,
         NEW tt \in Seq(Seq(S)), Len(tt) = m + 1, NEW one \in Seq(S),
         ss[1] = Join(one, tt[1]), \A i \in 2 .. (m + 1) : tt[i] = ss[i]
  PROVE  FlattenSeq(ss) = Join(one, FlattenSeq(tt))
<1>1. PICK uu \in Seq(Seq(S)) : Len(uu) = m /\ Follows(uu, ss, m)
  BY FrontRest, Zenon
<1>2. Follows(uu, tt, m)
  <2>1. \A i \in 1 .. m : i + 1 \in 2 .. (m + 1)
    OBVIOUS
  <2> QED  BY <1>1, <2>1, Zenon DEF Follows
<1>3. /\ FlattenSeq(ss) = Join(ss[1], FlattenSeq(uu))
      /\ FlattenSeq(tt) = Join(tt[1], FlattenSeq(uu))
  BY <1>1, <1>2, FlatFollows, Zenon
<1>4. tt[1] \in Seq(S) /\ FlattenSeq(uu) \in Seq(S)
  <2>1. 1 \in 1 .. Len(tt)
    OBVIOUS
  <2>2. tt[1] \in Seq(S)
    BY <2>1, ElementOfSeq, Zenon
  <2>3. FlattenSeq(uu) \in Seq(S)
    BY <1>1, FlatTyped, Zenon
  <2> QED  BY <2>2, <2>3, Zenon
<1>5. Join(Join(one, tt[1]), FlattenSeq(uu)) = Join(one, Join(tt[1], FlattenSeq(uu)))
  BY <1>4, SeqJoinsAnyway DEF JoinsAnyway
<1> QED  BY <1>3, <1>5, Zenon

\* What is put at the end of the last sequence is put at the end of the whole,
\* and so it is if an empty one comes after.
LEMMA FlatPut ==
  ASSUME NEW S, NEW m \in Nat, NEW ss \in Seq(Seq(S)), Len(ss) = m + 1,
         NEW tt \in Seq(Seq(S)), Len(tt) = m + 1, NEW one \in Seq(S),
         tt[m + 1] = Join(ss[m + 1], one), Starts(ss, tt, m)
  PROVE  FlattenSeq(tt) = Join(FlattenSeq(ss), one)
<1>1. PICK uu \in Seq(Seq(S)) : Len(uu) = m /\ Starts(uu, ss, m)
  BY FrontRest, Zenon
<1>2. Starts(uu, tt, m)
  BY <1>1, Zenon DEF Starts
<1>3. /\ FlattenSeq(ss) = Join(FlattenSeq(uu), ss[m + 1])
      /\ FlattenSeq(tt) = Join(FlattenSeq(uu), tt[m + 1])
  BY <1>1, <1>2, FlatStarts, Zenon
<1>4. ss[m + 1] \in Seq(S) /\ FlattenSeq(uu) \in Seq(S)
  <2>1. m + 1 \in 1 .. Len(ss)
    OBVIOUS
  <2>2. ss[m + 1] \in Seq(S)
    BY <2>1, ElementOfSeq, Zenon
  <2>3. FlattenSeq(uu) \in Seq(S)
    BY <1>1, FlatTyped, Zenon
  <2> QED  BY <2>2, <2>3, Zenon
<1>5. Join(Join(FlattenSeq(uu), ss[m + 1]), one) = Join(FlattenSeq(uu), Join(ss[m + 1], one))
  BY <1>4, SeqJoinsAnyway DEF JoinsAnyway
<1> QED  BY <1>3, <1>5, Zenon

LEMMA FlatPutBefore ==
  ASSUME NEW S, NEW n \in Nat \ {0},
         NEW ss \in Seq(Seq(S)), Len(ss) = n + 1,
         NEW tt \in Seq(Seq(S)), Len(tt) = n + 1, NEW one \in Seq(S),
         tt[n] = Join(ss[n], one), Starts(ss, tt, n - 1),
         ss[n + 1] = <<>>, tt[n + 1] = <<>>
  PROVE  FlattenSeq(tt) = Join(FlattenSeq(ss), one)
<1>0. PICK m \in Nat : m = n - 1 /\ n = m + 1
  OBVIOUS
<1>1. PICK uu \in Seq(Seq(S)) : Len(uu) = n /\ Starts(uu, ss, n)
  <2>1. n \in Nat
    OBVIOUS
  <2> QED  BY <2>1, FrontRest, Zenon
<1>2. PICK vv \in Seq(Seq(S)) : Len(vv) = n /\ Starts(vv, tt, n)
  <2>1. n \in Nat
    OBVIOUS
  <2> QED  BY <2>1, FrontRest, Zenon
<1>3. FlattenSeq(ss) = FlattenSeq(uu)
  <2>1. n \in Nat
    OBVIOUS
  <2> QED  BY <1>1, <2>1, FlatEmptyLast, ZenonT(60)
<1>4. FlattenSeq(tt) = FlattenSeq(vv)
  <2>1. n \in Nat
    OBVIOUS
  <2> QED  BY <1>2, <2>1, FlatEmptyLast, ZenonT(60)
<1>5. n \in 1 .. n /\ \A i \in 1 .. m : i \in 1 .. n
  BY <1>0
<1>6. vv[n] = Join(uu[n], one) /\ Starts(uu, vv, m)
  <2>1. vv[n] = Join(uu[n], one)
    BY <1>1, <1>2, <1>5, Zenon DEF Starts
  <2>2. Starts(ss, tt, m)
    BY <1>0
  <2>3. \A i \in 1 .. m : uu[i] = ss[i] /\ tt[i] = ss[i] /\ vv[i] = tt[i]
    BY <1>0, <1>1, <1>2, <1>5, <2>2 DEF Starts
  <2>4. \A i \in 1 .. m : vv[i] = uu[i]
    BY <2>3
  <2> QED  BY <2>1, <2>4 DEF Starts
<1>7. Len(uu) = m + 1 /\ Len(vv) = m + 1 /\ vv[m + 1] = Join(uu[m + 1], one)
  BY <1>0, <1>1, <1>2, <1>6
<1>8. FlattenSeq(vv) = Join(FlattenSeq(uu), one)
  BY <1>6, <1>7, FlatPut, ZenonT(60)
<1> QED  BY <1>3, <1>4, <1>8, Zenon

-----------------------------------------------------------------------------
(* From the agent to a router, the ring is a first-in first-out channel.   *)

\* Packets wait only in slots of the seconds between those of the router and
\* of the agent.
Waiting(r, i) ==
  /\ cnt[r][i] \in Nat
  /\ cnt[r][i] # 0 => \E s \in rSec[r] .. (aSec + 1) : i = READ_TIME_INDEX(s)

\* What a router has taken and not yet routed is what its slot counts.
Taken(r) ==
  /\ rpc[r] \in {"take", "route"} => recCnt[r] \in Nat /\ recCnt[r] <= maxPktPerRouter
  /\ rpc[r] = "take" => recCnt[r] = cnt[r][lastIdx[r]]
  /\ rpc[r] = "route" => recCnt[r] = pos[r] + cnt[r][lastIdx[r]]
  /\ rpc[r] = "release" => recCnt[r] = pos[r] /\ cnt[r][lastIdx[r]] = 0

\* The packet to be counted is at the end of its slot.
Copied ==
  /\ aSec <= now
  /\ apc \in AgentAtSlot => pkt \in Packet
  /\ apc = "count" => store[router][t_index][cnt[router][t_index]] = pkt

FifoInv ==
  /\ SecInv /\ SlotState
  /\ \A r \in Router : \A i \in Slots : Waiting(r, i)
  /\ \A r \in Router : Taken(r)
  /\ Copied

LEMMA FifoInvInit == Init => FifoInv
<1> SUFFICES ASSUME Init PROVE FifoInv
  OBVIOUS
<1>1. SecInv
  BY SecInvInit
<1>2. SlotState
  BY TimeRingAssumption DEF Init, SlotState, SlotFine
<1>3. \A r \in Router : \A i \in Slots : Waiting(r, i)
  BY DEF Init, Waiting
<1>4. \A r \in Router : Taken(r)
  BY DEF Init, Taken
<1>5. Copied
  BY RingClockAssumption DEF Init, Copied, AgentAtSlot
<1> QED  BY <1>1, <1>2, <1>3, <1>4, <1>5 DEF FifoInv

\* What the steps below need of the invariant, in one place.
RingFacts ==
  /\ now \in Nat /\ aSec \in Nat
  /\ cnt \in [Router -> [Slots -> Int]] /\ busy \in [Router -> [Slots -> BOOLEAN]]
  /\ lastIdx \in [Router -> Slots] /\ rSec \in [Router -> Nat]
  /\ rpc \in [Router -> {"sleep", "drain", "take", "route", "release"}]
  /\ recCnt \in [Router -> Int] /\ pos \in [Router -> Nat]
  /\ store \in [Router -> [Slots -> [0 .. (maxPktPerRouter - 1) -> Packet \cup {NoPacket}]]]
  /\ router \in Router /\ t_index \in Slots /\ maxPktPerRouter \in Nat
  /\ \A r \in Router : lastIdx[r] \in Slots /\ pos[r] \in Nat /\ rSec[r] \in Nat
  /\ \A r \in Router : \A i \in Slots : cnt[r][i] \in Nat
  /\ \A r \in Router : rSec[r] <= now /\ lastIdx[r] = READ_TIME_INDEX(rSec[r])
  /\ SlotExclusion

LEMMA RingFactsHold == FifoInv => RingFacts
<1> SUFFICES ASSUME FifoInv PROVE RingFacts
  OBVIOUS
<1>1. TypeOK /\ ReaderSeconds /\ SecInv
  BY DEF FifoInv, SecInv
<1>2. SlotExclusion
  BY <1>1, SecInvExcludes
<1>3. \A r \in Router : rSec[r] <= now /\ lastIdx[r] = READ_TIME_INDEX(rSec[r])
  BY <1>1 DEF TypeOK, ReaderSeconds, ReaderSecond
<1>4. \A r \in Router : lastIdx[r] \in Slots /\ pos[r] \in Nat /\ rSec[r] \in Nat
  BY <1>1 DEF TypeOK
<1>5. \A r \in Router : \A i \in Slots : cnt[r][i] \in Nat
  BY DEF FifoInv, Waiting
<1> QED  BY <1>1, <1>2, <1>3, <1>4, <1>5, TimeRingAssumption DEF RingFacts, TypeOK

\* One counter changes.
LEMMA OneCounter ==
  ASSUME RingFacts, NEW r \in Router, NEW i \in Slots, NEW c,
         cnt' = [cnt EXCEPT ![r][i] = c]
  PROVE  /\ cnt'[r][i] = c
         /\ \A q \in Router : \A j \in Slots :
              (q # r \/ j # i) => cnt'[q][j] = cnt[q][j]
  BY DEF RingFacts

LEMMA WaitingStep ==
  ASSUME FifoInv, [Next]_vars, NEW q \in Router, NEW i \in Slots
  PROVE  Waiting(q, i)'
<1>0. RingFacts /\ Waiting(q, i) /\ cnt[q][i] \in Nat
  BY RingFactsHold DEF FifoInv, RingFacts
<1>1. CASE UNCHANGED <<cnt, rSec, aSec>>
  BY <1>0, <1>1 DEF Waiting
<1>2. CASE AgentRecv
  <2>1. UNCHANGED <<cnt, rSec>> /\ aSec' = now /\ aSec <= now
    BY <1>2 DEF AgentRecv, FifoInv, Copied, ring, readers
  <2>2. rSec[q] \in Nat /\ aSec \in Nat /\ now \in Nat
    BY <1>0 DEF RingFacts
  <2>3. \A s \in rSec[q] .. (aSec + 1) : s \in rSec[q] .. (now + 1)
    BY <2>1, <2>2
  <2> QED  BY <1>0, <2>1, <2>3 DEF Waiting
<1>3. CASE AgentCount
  <2>1. /\ cnt' = [cnt EXCEPT ![router][t_index] = cnt[router][t_index] + 1]
        /\ UNCHANGED <<rSec, aSec>> /\ router \in Router /\ t_index \in Slots
        /\ cnt[router][t_index] \in Nat
    BY <1>0, <1>3 DEF AgentCount, readers, RingFacts
  <2>2. CASE q # router \/ i # t_index
    <3>1. cnt'[q][i] = cnt[q][i]
      BY <1>0, <2>1, <2>2, OneCounter
    <3> QED  BY <1>0, <2>1, <3>1 DEF Waiting
  <2>3. CASE q = router /\ i = t_index
    <3>1. cnt'[q][i] = cnt[q][i] + 1
      BY <1>0, <2>1, <2>3 DEF RingFacts
    <3>2. t_index = READ_TIME_INDEX(aSec + 1) /\ now <= aSec + MaxWriteDelay
      BY <1>3 DEF AgentCount, AgentAtSlot, FifoInv, SecInv, WriterSecond
    <3>3. rSec[q] \in Nat /\ aSec \in Nat /\ now \in Nat /\ rSec[q] <= now
      BY <1>0 DEF RingFacts
    <3>4. aSec + 1 \in rSec[q] .. (aSec + 1)
      BY <3>2, <3>3, SchedulingAssumption, RingClockAssumption
    <3> QED  BY <1>0, <2>1, <2>3, <3>1, <3>2, <3>4 DEF Waiting
  <2> QED  BY <2>2, <2>3
<1>4. ASSUME NEW r \in Router, RouterRoute(r) \/ RouterZero(r) PROVE Waiting(q, i)'
  <2>0. UNCHANGED <<rSec, aSec>>
    BY <1>4 DEF RouterRoute, RouterZero, agent
  <2>1. lastIdx[r] \in Slots /\ cnt[r][lastIdx[r]] \in Nat /\ pos[r] \in Nat
    BY <1>0 DEF RingFacts
  <2>2. \E c \in Nat : /\ cnt' = [cnt EXCEPT ![r][lastIdx[r]] = c]
                       /\ cnt[r][lastIdx[r]] = 0 => c = 0
    <3>1. CASE RouterZero(r)
      BY <3>1 DEF RouterZero
    <3>2. CASE RouterRoute(r)
      <4>1. recCnt[r] \in Nat /\ recCnt[r] = pos[r] + cnt[r][lastIdx[r]] /\ pos[r] < recCnt[r]
        BY <3>2 DEF RouterRoute, More, FifoInv, Taken
      <4>2. cnt[r][lastIdx[r]] # 0 /\ cnt[r][lastIdx[r]] - 1 \in Nat
        BY <2>1, <4>1
      <4> QED  BY <3>2, <4>2 DEF RouterRoute
    <3> QED  BY <1>4, <3>1, <3>2
  <2>3. PICK c \in Nat : /\ cnt' = [cnt EXCEPT ![r][lastIdx[r]] = c]
                         /\ cnt[r][lastIdx[r]] = 0 => c = 0
    BY <2>2
  <2>4. CASE q = r /\ i = lastIdx[r]
    <3>1. cnt'[q][i] = c
      BY <1>0, <2>1, <2>3, <2>4 DEF RingFacts
    <3> QED  BY <1>0, <2>0, <2>3, <2>4, <3>1 DEF Waiting
  <2>5. CASE q # r \/ i # lastIdx[r]
    <3>1. cnt'[q][i] = cnt[q][i]
      BY <1>0, <2>1, <2>3, <2>5, OneCounter
    <3> QED  BY <1>0, <2>0, <3>1 DEF Waiting
  <2> QED  BY <2>4, <2>5
<1>5. ASSUME NEW r \in Router, RouterSkip(r) \/ RouterRelease(r) PROVE Waiting(q, i)'
  <2>1. UNCHANGED <<cnt, aSec>> /\ NextSlot(r) /\ cnt[r][lastIdx[r]] = 0
    BY <1>5 DEF RouterSkip, RouterRelease, ring, agent, FifoInv, Taken
  <2>2. rSec'[r] = rSec[r] + 1 /\ (q # r => rSec'[q] = rSec[q])
    BY <1>0, <2>1 DEF NextSlot, RingFacts
  <2>3. CASE q # r
    BY <1>0, <2>1, <2>2, <2>3 DEF Waiting
  <2>4. CASE q = r
    <3>1. /\ rSec[r] \in Nat /\ aSec \in Nat /\ lastIdx[r] = READ_TIME_INDEX(rSec[r])
      BY <1>0 DEF RingFacts
    <3>2. ASSUME cnt[r][i] # 0
          PROVE  \E s \in (rSec[r] + 1) .. (aSec + 1) : i = READ_TIME_INDEX(s)
      <4>1. PICK s \in rSec[r] .. (aSec + 1) : i = READ_TIME_INDEX(s)
        BY <1>0, <2>4, <3>2 DEF Waiting
      <4>2. s # rSec[r]
        BY <2>1, <3>1, <3>2, <4>1
      <4>3. s \in (rSec[r] + 1) .. (aSec + 1)
        BY <3>1, <4>2
      <4> QED  BY <4>1, <4>3
    <3> QED  BY <1>0, <2>1, <2>2, <2>4, <3>2 DEF Waiting
  <2> QED  BY <2>3, <2>4
<1>6. ASSUME NEW r \in Router, RouterStep(r) PROVE Waiting(q, i)'
  <2>1. CASE RouterWake(r) \/ RouterSleep(r) \/ RouterTake(r) \/ RouterBusy(r)
    <3>1. UNCHANGED <<cnt, rSec, aSec>>
      BY <2>1 DEF RouterWake, RouterSleep, RouterTake, RouterBusy, ring, agent
    <3> QED  BY <1>1, <3>1
  <2> QED  BY <1>4, <1>5, <1>6, <2>1 DEF RouterStep
<1>7. CASE Tick \/ AgentDrop \/ AgentAdmit \/ AgentCopy \/ UNCHANGED vars
  <2>1. UNCHANGED <<cnt, rSec, aSec>>
    BY <1>7 DEF Tick, AgentDrop, AgentAdmit, AgentCopy, vars, ring, agent, readers
  <2> QED  BY <1>1, <2>1
<1> QED  BY <1>2, <1>3, <1>6, <1>7 DEF Next, Agent

LEMMA TakenStep ==
  ASSUME FifoInv, [Next]_vars, NEW q \in Router
  PROVE  Taken(q)'
<1>0. RingFacts /\ Taken(q) /\ lastIdx[q] \in Slots /\ cnt[q][lastIdx[q]] \in Nat
      /\ pos[q] \in Nat /\ cnt[q][lastIdx[q]] <= maxPktPerRouter
  BY RingFactsHold DEF FifoInv, RingFacts, SlotState, SlotFine
<1>1. CASE UNCHANGED <<cnt, rpc, lastIdx, recCnt, pos>>
  BY <1>0, <1>1 DEF Taken
<1>2. CASE AgentCount
  <2>1. /\ cnt' = [cnt EXCEPT ![router][t_index] = cnt[router][t_index] + 1]
        /\ UNCHANGED <<rpc, lastIdx, recCnt, pos>> /\ router \in Router /\ t_index \in Slots
        /\ apc = "count"
    BY <1>0, <1>2 DEF AgentCount, readers, RingFacts
  <2>2. CASE rpc[q] \in RouterAtSlot
    <3>1. q # router \/ lastIdx[q] # t_index
      BY <1>0, <2>1, <2>2 DEF RingFacts, SlotExclusion, AgentAtSlot
    <3>2. cnt'[q][lastIdx[q]] = cnt[q][lastIdx[q]]
      BY <1>0, <2>1, <3>1, OneCounter
    <3> QED  BY <1>0, <2>1, <3>2 DEF Taken
  <2>3. CASE rpc[q] \notin RouterAtSlot
    BY <2>1, <2>3 DEF Taken, RouterAtSlot
  <2> QED  BY <2>2, <2>3
<1>3. ASSUME NEW r \in Router, RouterStep(r) PROVE Taken(q)'
  <2>0. r \in Router /\ lastIdx[r] \in Slots /\ cnt[r][lastIdx[r]] \in Nat /\ pos[r] \in Nat
    BY <1>0 DEF RingFacts
  <2>1. CASE q # r
    <3>1. /\ rpc'[q] = rpc[q] /\ lastIdx'[q] = lastIdx[q]
          /\ recCnt'[q] = recCnt[q] /\ pos'[q] = pos[q]
      BY <1>0, <1>3, <2>1
      DEF RingFacts, RouterStep, RouterWake, RouterSleep, RouterSkip, RouterTake,
          RouterBusy, RouterRoute, RouterZero, RouterRelease, NextSlot
    <3>2. cnt'[q][lastIdx[q]] = cnt[q][lastIdx[q]]
      BY <1>0, <1>3, <2>1
      DEF RingFacts, RouterStep, RouterWake, RouterSleep, RouterSkip, RouterTake,
          RouterBusy, RouterRoute, RouterZero, RouterRelease, ring
    <3> QED  BY <1>0, <3>1, <3>2 DEF Taken
  <2>2. CASE q = r
    <3>1. CASE RouterWake(r) \/ RouterSleep(r) \/ RouterSkip(r) \/ RouterRelease(r)
      <4>1. rpc'[r] \in {"sleep", "drain"}
        BY <1>0, <3>1 DEF RingFacts, RouterWake, RouterSleep, RouterSkip, RouterRelease
      <4> QED  BY <2>2, <4>1 DEF Taken
    <3>2. CASE RouterTake(r)
      <4>1. /\ rpc'[r] = "take" /\ recCnt'[r] = cnt[r][lastIdx[r]]
            /\ cnt' = cnt /\ lastIdx' = lastIdx
        BY <1>0, <3>2 DEF RingFacts, RouterTake, ring
      <4> QED  BY <1>0, <2>2, <4>1 DEF Taken
    <3>3. CASE RouterBusy(r)
      <4>1. /\ rpc[r] = "take" /\ rpc'[r] = "route" /\ pos'[r] = 0
            /\ recCnt' = recCnt /\ cnt' = cnt /\ lastIdx' = lastIdx
        BY <1>0, <3>3 DEF RingFacts, RouterBusy
      <4> QED  BY <1>0, <2>2, <4>1 DEF Taken
    <3>4. CASE RouterRoute(r)
      <4>1. /\ rpc[r] = "route" /\ rpc' = rpc /\ pos'[r] = pos[r] + 1
            /\ recCnt' = recCnt /\ lastIdx' = lastIdx
            /\ cnt' = [cnt EXCEPT ![r][lastIdx[r]] = cnt[r][lastIdx[r]] - 1]
        BY <1>0, <3>4 DEF RingFacts, RouterRoute
      <4>2. cnt'[r][lastIdx[r]] = cnt[r][lastIdx[r]] - 1
        BY <1>0, <2>0, <4>1 DEF RingFacts
      <4> QED  BY <1>0, <2>2, <4>1, <4>2 DEF Taken
    <3>5. CASE RouterZero(r)
      <4>1. /\ rpc[r] = "route" /\ rpc'[r] = "release" /\ ~ (pos[r] < recCnt[r])
            /\ UNCHANGED <<recCnt, lastIdx, pos>>
            /\ cnt' = [cnt EXCEPT ![r][lastIdx[r]] = 0]
        BY <1>0, <3>5 DEF RingFacts, RouterZero, More
      <4>2. cnt'[r][lastIdx[r]] = 0
        BY <1>0, <2>0, <4>1 DEF RingFacts
      <4>3. recCnt[r] \in Nat /\ recCnt[r] = pos[r] + cnt[r][lastIdx[r]]
        BY <1>0, <2>2, <4>1 DEF Taken
      <4> QED  BY <1>0, <2>2, <4>1, <4>2, <4>3 DEF Taken
    <3> QED  BY <1>3, <3>1, <3>2, <3>3, <3>4, <3>5 DEF RouterStep
  <2> QED  BY <2>1, <2>2
<1>4. CASE Tick \/ AgentRecv \/ AgentDrop \/ AgentAdmit \/ AgentCopy \/ UNCHANGED vars
  <2>1. UNCHANGED <<cnt, rpc, lastIdx, recCnt, pos>>
    BY <1>4 DEF Tick, AgentRecv, AgentDrop, AgentAdmit, AgentCopy, vars, ring, readers
  <2> QED  BY <1>1, <2>1
<1> QED  BY <1>2, <1>3, <1>4 DEF Next, Agent

LEMMA CopiedStep ==
  ASSUME FifoInv, [Next]_vars
  PROVE  Copied'
<1>0. RingFacts /\ Copied /\ SlotState
  BY RingFactsHold DEF FifoInv
<1>1. CASE UNCHANGED <<aSec, apc, pkt, router, t_index, store, cnt>> /\ now' \in {now, now + 1}
  BY <1>0, <1>1 DEF Copied, RingFacts
<1>2. CASE AgentRecv
  BY <1>0, <1>2 DEF AgentRecv, Copied, RingFacts
<1>3. CASE AgentDrop \/ AgentAdmit \/ AgentCount
  BY <1>0, <1>3 DEF AgentDrop, AgentAdmit, AgentCount, Copied, AgentAtSlot
<1>4. CASE AgentCopy
  <2>1. /\ store' = [store EXCEPT ![router][t_index][cnt[router][t_index]] = pkt]
        /\ apc = "copy" /\ apc' = "count" /\ UNCHANGED <<now, aSec, pkt, router, t_index, cnt>>
    BY <1>4 DEF AgentCopy
  <2>2. cnt[router][t_index] \in 0 .. (maxPktPerRouter - 1)
    BY <1>0, <2>1 DEF SlotState, RingFacts
  <2>3. store'[router][t_index][cnt[router][t_index]] = pkt
    BY <1>0, <2>1, <2>2 DEF RingFacts
  <2> QED  BY <1>0, <2>1, <2>3 DEF Copied, AgentAtSlot
<1>5. ASSUME NEW r \in Router, RouterStep(r) PROVE Copied'
  <2>1. UNCHANGED <<now, aSec, apc, pkt, router, t_index, store>>
    BY <1>5 DEF RouterStep, RouterWake, RouterSleep, RouterSkip, RouterTake,
                RouterBusy, RouterRoute, RouterZero, RouterRelease, ring, agent
  <2>2. ASSUME apc = "count" PROVE cnt'[router][t_index] = cnt[router][t_index]
    <3>1. CASE RouterRoute(r) \/ RouterZero(r)
      <4>1. rpc[r] \in RouterAtSlot /\ lastIdx[r] \in Slots /\ router \in Router
            /\ t_index \in Slots /\ SlotExclusion
        BY <1>0, <3>1 DEF RouterRoute, RouterZero, RouterAtSlot, RingFacts
      <4>2. router # r \/ t_index # lastIdx[r]
        BY <2>2, <4>1 DEF SlotExclusion, AgentAtSlot
      <4>3. \E c : cnt' = [cnt EXCEPT ![r][lastIdx[r]] = c]
        BY <3>1 DEF RouterRoute, RouterZero
      <4> QED  BY <1>0, <4>1, <4>2, <4>3, OneCounter
    <3>2. CASE ~ (RouterRoute(r) \/ RouterZero(r))
      BY <1>5, <3>2 DEF RouterStep, RouterWake, RouterSleep, RouterSkip, RouterTake,
                        RouterBusy, RouterRelease, ring
    <3> QED  BY <3>1, <3>2
  <2> QED  BY <1>0, <2>1, <2>2 DEF Copied
<1>6. CASE Tick \/ UNCHANGED vars
  <2>1. UNCHANGED <<aSec, apc, pkt, router, t_index, store, cnt>> /\ now' \in {now, now + 1}
    BY <1>6 DEF Tick, vars, ring, agent
  <2> QED  BY <1>1, <2>1
<1> QED  BY <1>2, <1>3, <1>4, <1>5, <1>6 DEF Next, Agent

LEMMA FifoInvAlways == Spec => []FifoInv
<1>1. FifoInv /\ [Next]_vars => FifoInv'
  <2> SUFFICES ASSUME FifoInv, [Next]_vars PROVE FifoInv'
    OBVIOUS
  <2>1. SecInv' /\ SlotState'
    BY SecInvStep, SlotStateStep DEF FifoInv
  <2>2. \A r \in Router : \A i \in Slots : Waiting(r, i)'
    BY WaitingStep
  <2>3. \A r \in Router : Taken(r)'
    BY TakenStep
  <2>4. Copied'
    BY CopiedStep
  <2> QED  BY <2>1, <2>2, <2>3, <2>4 DEF FifoInv
<1> QED  BY <1>1, FifoInvInit, PTL DEF Spec

-----------------------------------------------------------------------------
\* The ring of a router, slot by slot, as Pending lays it out.
Content == Packet \cup {NoPacket}
HeldSlots(r) == now + 2 - rSec[r]
Held(r) == [s \in 1 .. HeldSlots(r) |-> InSlot(r, READ_TIME_INDEX(rSec[r] + s - 1))]

HeldFine(r) ==
  /\ rSec[r] \in Nat /\ now \in Nat /\ rSec[r] <= now /\ HeldSlots(r) \in Nat
  /\ \A i \in Slots : InSlot(r, i) \in Seq(Content)
  /\ Held(r) \in Seq(Seq(Content)) /\ Len(Held(r)) = HeldSlots(r)
  /\ \A k \in 1 .. HeldSlots(r) :
       Held(r)[k] = InSlot(r, READ_TIME_INDEX(rSec[r] + k - 1))

LEMMA PendingIs == \A r \in Router : Pending(r) = FlattenSeq(Held(r))
  BY DEF Pending, Held, HeldSlots

LEMMA SlotOfSecond ==
  ASSUME NEW s \in Nat, NEW k \in Nat, k >= 1
  PROVE  READ_TIME_INDEX(s + k - 1) \in Slots
<1>1. PICK t \in Nat : t = s + k - 1
  OBVIOUS
<1>2. READ_TIME_INDEX(t) \in Slots
  BY ReadIndexIsSlot
<1> QED  BY <1>1, <1>2

LEMMA InSlotTyped ==
  ASSUME FifoInv, NEW r \in Router, NEW i \in Slots
  PROVE  InSlot(r, i) \in Seq(Content)
<1>0. RingFacts /\ Taken(r) /\ cnt[r][i] \in Nat /\ cnt[r][i] <= maxPktPerRouter
      /\ pos[r] \in Nat /\ maxPktPerRouter \in Nat
  BY RingFactsHold DEF FifoInv, RingFacts, SlotState, SlotFine
<1>1. \A k \in 0 .. (maxPktPerRouter - 1) : store[r][i][k] \in Content
  <2>1. store[r][i] \in [0 .. (maxPktPerRouter - 1) -> Content]
    BY <1>0 DEF RingFacts, Content
  <2> QED  BY <2>1
<1>2. CASE rpc[r] \in {"route", "release"} /\ i = lastIdx[r]
  <2>1. recCnt[r] \in Nat /\ recCnt[r] - pos[r] \in Nat
        /\ (recCnt[r] <= maxPktPerRouter \/ recCnt[r] = pos[r])
    BY <1>0, <1>2 DEF Taken
  <2>2. PICK n \in Nat : n = recCnt[r] - pos[r]
    BY <2>1
  <2>3. \A k \in 1 .. n : pos[r] + k - 1 \in 0 .. (maxPktPerRouter - 1)
    BY <1>0, <2>1, <2>2
  <2>4. [k \in 1 .. n |-> store[r][i][pos[r] + k - 1]] \in [1 .. n -> Content]
    BY <1>1, <2>3
  <2>5. [k \in 1 .. n |-> store[r][i][pos[r] + k - 1]] \in Seq(Content)
    BY <2>4, FunSeq
  <2> QED  BY <1>2, <2>2, <2>5 DEF InSlot
<1>3. CASE ~ (rpc[r] \in {"route", "release"} /\ i = lastIdx[r])
  <2>1. PICK n \in Nat : n = cnt[r][i]
    BY <1>0
  <2>2. \A k \in 1 .. n : k - 1 \in 0 .. (maxPktPerRouter - 1)
    BY <1>0, <2>1
  <2>3. [k \in 1 .. n |-> store[r][i][k - 1]] \in [1 .. n -> Content]
    BY <1>1, <2>2
  <2>4. [k \in 1 .. n |-> store[r][i][k - 1]] \in Seq(Content)
    BY <2>3, FunSeq
  <2> QED  BY <1>3, <2>1, <2>4 DEF InSlot
<1> QED  BY <1>2, <1>3

LEMMA HeldIsFine == FifoInv => \A r \in Router : HeldFine(r)
<1> SUFFICES ASSUME FifoInv, NEW r \in Router PROVE HeldFine(r)
  OBVIOUS
<1>1. RingFacts /\ rSec[r] \in Nat /\ now \in Nat /\ rSec[r] <= now
  BY RingFactsHold DEF RingFacts
<1>2. PICK n \in Nat : n = HeldSlots(r)
  BY <1>1 DEF HeldSlots
<1>3. \A i \in Slots : InSlot(r, i) \in Seq(Content)
  BY InSlotTyped
<1>4. \A k \in 1 .. n : READ_TIME_INDEX(rSec[r] + k - 1) \in Slots
  BY <1>1, SlotOfSecond
<1>5. \A k \in 1 .. n : InSlot(r, READ_TIME_INDEX(rSec[r] + k - 1)) \in Seq(Content)
  BY <1>3, <1>4
<1>6. Held(r) \in [1 .. n -> Seq(Content)]
      /\ \A k \in 1 .. n : Held(r)[k] = InSlot(r, READ_TIME_INDEX(rSec[r] + k - 1))
  BY <1>2, <1>5, Zenon DEF Held
<1>7. Held(r) \in Seq(Seq(Content)) /\ Len(Held(r)) = n
  BY <1>6, FunSeq
<1> QED  BY <1>1, <1>2, <1>3, <1>6, <1>7 DEF HeldFine

\* A slot whose count is zero holds nothing.
LEMMA EmptySlot ==
  ASSUME FifoInv, NEW r \in Router, NEW i \in Slots, cnt[r][i] = 0
  PROVE  InSlot(r, i) = <<>>
<1>0. RingFacts /\ Taken(r) /\ pos[r] \in Nat
  BY RingFactsHold DEF FifoInv, RingFacts
<1>1. CASE rpc[r] \in {"route", "release"} /\ i = lastIdx[r]
  <2>1. recCnt[r] - pos[r] = 0
    BY <1>0, <1>1 DEF Taken
  <2> QED  BY <1>1, <2>1 DEF InSlot
<1>2. CASE ~ (rpc[r] \in {"route", "release"} /\ i = lastIdx[r])
  BY <1>2 DEF InSlot
<1> QED  BY <1>1, <1>2

\* A slot whose parts do not change.
LEMMA SlotKept ==
  ASSUME NEW r \in Router, NEW i \in Slots, RingFacts,
         cnt'[r][i] = cnt[r][i], store' = store,
         \/ UNCHANGED <<rpc, lastIdx, recCnt, pos>>
         \/ /\ rpc[r] \notin {"route", "release"}
            /\ rpc'[r] \notin {"route", "release"}
         \/ /\ rpc'[r] = rpc[r] /\ lastIdx'[r] = lastIdx[r]
            /\ recCnt'[r] = recCnt[r] /\ pos'[r] = pos[r]
  PROVE  InSlot(r, i)' = InSlot(r, i)
<1>1. CASE rpc[r] \notin {"route", "release"} /\ rpc'[r] \notin {"route", "release"}
  BY <1>1 DEF InSlot
<1>2. CASE rpc'[r] = rpc[r] /\ lastIdx'[r] = lastIdx[r]
           /\ recCnt'[r] = recCnt[r] /\ pos'[r] = pos[r]
  BY <1>2 DEF InSlot
<1> QED  BY <1>1, <1>2

LEMMA PendingKept ==
  ASSUME NEW r \in Router, HeldFine(r), now' = now, rSec'[r] = rSec[r],
         \A i \in Slots : InSlot(r, i)' = InSlot(r, i)
  PROVE  Pending(r)' = Pending(r)
<1>1. HeldSlots(r)' = HeldSlots(r)
  BY DEF HeldSlots
<1>2. \A k \in 1 .. HeldSlots(r) :
        InSlot(r, READ_TIME_INDEX(rSec[r] + k - 1))' = InSlot(r, READ_TIME_INDEX(rSec[r] + k - 1))
  <2> SUFFICES ASSUME NEW k \in 1 .. HeldSlots(r)
               PROVE  InSlot(r, READ_TIME_INDEX(rSec[r] + k - 1))'
                        = InSlot(r, READ_TIME_INDEX(rSec[r] + k - 1))
    OBVIOUS
  <2>1. READ_TIME_INDEX(rSec[r] + k - 1) \in Slots
    BY SlotOfSecond DEF HeldFine
  <2>2. PICK i \in Slots : i = READ_TIME_INDEX(rSec[r] + k - 1)
    BY <2>1
  <2>3. READ_TIME_INDEX(rSec[r] + k - 1)' = READ_TIME_INDEX(rSec[r] + k - 1)
    BY DEF READ_TIME_INDEX
  <2> QED  BY <2>2, <2>3 DEF InSlot
<1>3. Held(r)' = Held(r)
  BY <1>1, <1>2 DEF Held
<1>4. Pending(r) = FlattenSeq(Held(r)) /\ Pending(r)' = FlattenSeq(Held(r)')
  BY DEF Pending, Held, HeldSlots
<1> QED  BY <1>3, <1>4

-----------------------------------------------------------------------------
\* A sequence and one element more, at its end and at its front.
LEMMA FunPut ==
  ASSUME NEW T, NEW c \in Nat, NEW f \in [1 .. c -> T], NEW g \in [1 .. (c + 1) -> T],
         \A k \in 1 .. c : g[k] = f[k]
  PROVE  g = Join(f, <<g[c + 1]>>)
<1>1. f \in Seq(T) /\ Len(f) = c /\ g \in Seq(T) /\ Len(g) = c + 1
  BY FunSeq
<1>2. PICK x \in T : x = g[c + 1]
  OBVIOUS
<1>3. Append(f, x) = f \o <<x>>
  BY <1>1, AppendIsConcat
<1>4. g = Append(f, x)
  BY <1>1, <1>2
<1> QED  BY <1>2, <1>3, <1>4 DEF Join

After(w, x, t) ==
  /\ Len(w) = Len(t) + 1
  /\ w[1] = x
  /\ \A k \in 1 .. Len(t) : w[k + 1] = t[k]

LEMMA JoinedAfter ==
  ASSUME NEW T, NEW x \in T, NEW t \in Seq(T)
  PROVE  Join(<<x>>, t) \in Seq(T) /\ After(Join(<<x>>, t), x, t)
<1>0. PICK n \in Nat : n = Len(t)
  OBVIOUS
<1>1. <<x>> \in Seq(T) /\ Len(<<x>>) = 1 /\ <<x>>[1] = x
  OBVIOUS
<1>2. PICK one \in Seq(T) : one = <<x>>
  BY <1>1
<1>3. Len(one) = 1 /\ one[1] = x /\ Join(<<x>>, t) = one \o t
  BY <1>1, <1>2 DEF Join
<1>4. one \o t \in Seq(T)
  BY ConcatProperties, Zenon
<1>5. Len(one \o t) = Len(one) + Len(t)
  BY ConcatProperties, Zenon
<1>6. \A i \in 1 .. (Len(one) + Len(t)) :
        (one \o t)[i] = IF i <= Len(one) THEN one[i] ELSE t[i - Len(one)]
  BY ConcatProperties, Zenon
<1>7. PICK whole \in Seq(T) : whole = one \o t
  BY <1>4
<1>8. Len(whole) = 1 + n
  BY <1>0, <1>3, <1>5, <1>7
<1>9. \A i \in 1 .. (1 + n) : whole[i] = IF i <= 1 THEN one[i] ELSE t[i - 1]
  BY <1>0, <1>3, <1>6, <1>7
<1>10. whole[1] = x
  BY <1>3, <1>9
<1>11. ASSUME NEW k \in 1 .. n PROVE whole[k + 1] = t[k]
  <2>1. PICK i \in Nat : i = k + 1
    OBVIOUS
  <2>2. i \in 1 .. (1 + n) /\ ~ (i <= 1) /\ i - 1 = k
    BY <2>1
  <2>3. whole[i] = t[i - 1]
    BY <1>9, <2>2
  <2> QED  BY <2>1, <2>2, <2>3
<1>12. After(whole, x, t)
  BY <1>0, <1>8, <1>10, <1>11 DEF After
<1>13. Join(<<x>>, t) = whole
  BY <1>3, <1>7, Zenon
<1> QED  BY <1>12, <1>13, Zenon

LEMMA FunTake ==
  ASSUME NEW T, NEW c \in Nat, NEW f \in [1 .. (c + 1) -> T], NEW g \in [1 .. c -> T],
         \A k \in 1 .. c : f[k + 1] = g[k], NEW x \in T, f[1] = x
  PROVE  f = Join(<<x>>, g)
<1>1. f \in Seq(T) /\ Len(f) = c + 1 /\ g \in Seq(T) /\ Len(g) = c
  BY FunSeq
<1>3. /\ Join(<<x>>, g) \in Seq(T) /\ Len(Join(<<x>>, g)) = c + 1
      /\ Join(<<x>>, g)[1] = x
      /\ \A k \in 1 .. c : Join(<<x>>, g)[k + 1] = g[k]
  <2>1. Join(<<x>>, g) \in Seq(T) /\ After(Join(<<x>>, g), x, g)
    BY <1>1, JoinedAfter, Zenon
  <2> QED  BY <1>1, <2>1, Zenon DEF After
<1>4. PICK h \in Seq(T) : h = Join(<<x>>, g)
  BY <1>3
<1>5. ASSUME NEW i \in 1 .. (c + 1) PROVE f[i] = h[i]
  <2>1. CASE i = 1
    BY <1>3, <1>4, <2>1
  <2>2. CASE i # 1
    <3>1. PICK k \in 1 .. c : i = k + 1
      BY <2>2
    <3> QED  BY <1>3, <1>4, <3>1
  <2> QED  BY <2>1, <2>2
<1>6. f = h
  BY <1>1, <1>3, <1>4, <1>5, SeqEqual
<1> QED  BY <1>4, <1>6

\* What is joined to the front can be taken off again.
LEMMA JoinedFirst ==
  ASSUME NEW T, NEW s \in Seq(T), NEW t \in Seq(T), NEW x \in T, s = Join(<<x>>, t)
  PROVE  s # <<>> /\ Head(s) = x /\ t = Tail(s)
<1>0. Len(s) = Len(t) + 1 /\ s[1] = x /\ \A k \in 1 .. Len(t) : s[k + 1] = t[k]
  <2>1. After(s, x, t)
    BY JoinedAfter, Zenon
  <2> QED  BY <2>1, Zenon DEF After
<1>1. PICK n \in Nat : n = Len(t)
  OBVIOUS
<1>2. Len(s) = n + 1 /\ s[1] = x /\ \A k \in 1 .. n : s[k + 1] = t[k]
  BY <1>0, <1>1
<1>3. s # <<>> /\ Head(s) = x
  BY <1>1, <1>2
<1>4. Tail(s) \in Seq(T) /\ Len(Tail(s)) = n /\ \A k \in 1 .. n : Tail(s)[k] = s[k + 1]
  BY <1>1, <1>2, <1>3, HeadTailProperties
<1>5. t = Tail(s)
  BY <1>1, <1>2, <1>4, SeqEqual
<1> QED  BY <1>3, <1>5

-----------------------------------------------------------------------------
\* The slots of the seconds that are not over for router r are all different.
LEMMA HeldSlotsDiffer ==
  ASSUME FifoInv, NEW r \in Router,
         NEW j \in 1 .. HeldSlots(r), NEW k \in 1 .. HeldSlots(r), j # k
  PROVE  READ_TIME_INDEX(rSec[r] + j - 1) # READ_TIME_INDEX(rSec[r] + k - 1)
<1>1. rSec[r] \in Nat /\ now \in Nat /\ rSec[r] <= now /\ now - rSec[r] <= MaxReadLag
  BY RingFactsHold DEF RingFacts, FifoInv, SecInv, ReaderSeconds, ReaderSecond
<1>2. PICK s \in Nat : s = rSec[r] + j - 1
  BY <1>1 DEF HeldSlots
<1>3. PICK t \in Nat : t = rSec[r] + k - 1
  BY <1>1 DEF HeldSlots
<1>4. s # t /\ s - t < TIME_INDEX /\ t - s < TIME_INDEX
  BY <1>1, <1>2, <1>3, SchedulingAssumption, RingClockAssumption, TimeIndexAssumption
     DEF HeldSlots
<1>5. READ_TIME_INDEX(s) # READ_TIME_INDEX(t)
  BY <1>4, SlotsOfALapDiffer
<1> QED  BY <1>2, <1>3, <1>5

\* No packet waits in the slot of a second the agent has not come to.
LEMMA LaterSlotEmpty ==
  ASSUME FifoInv, NEW r \in Router, NEW t \in Nat,
         t > aSec + 1, t - rSec[r] < TIME_INDEX
  PROVE  cnt[r][READ_TIME_INDEX(t)] = 0
<1>1. rSec[r] \in Nat /\ aSec \in Nat /\ READ_TIME_INDEX(t) \in Slots
  BY RingFactsHold, ReadIndexIsSlot DEF RingFacts
<1>2. Waiting(r, READ_TIME_INDEX(t))
  BY <1>1 DEF FifoInv
<1>3. ASSUME NEW s \in rSec[r] .. (aSec + 1) PROVE READ_TIME_INDEX(t) # READ_TIME_INDEX(s)
  <2>1. s \in Nat /\ s < t /\ t - s < TIME_INDEX
    BY <1>1, LapSize
  <2> QED  BY <2>1, SlotsOfALapDiffer
<1> QED  BY <1>2, <1>3 DEF Waiting

\* The same after a step.
LEMMA HeldIsFineNext == FifoInv' => \A r \in Router : HeldFine(r)'
<1>1. FifoInv' => (\A r \in Router : HeldFine(r))'
  BY HeldIsFine, PTL
<1> QED  BY <1>1

\* A later clock adds a slot to the end, and that slot is empty.
LEMMA TickKeepsPending ==
  ASSUME FifoInv, FifoInv', Tick, NEW r \in Router
  PROVE  Pending(r)' = Pending(r)
<1>1. RingFacts /\ HeldFine(r) /\ HeldFine(r)' /\ aSec <= now
  BY RingFactsHold, HeldIsFine, HeldIsFineNext DEF FifoInv, Copied
<1>2. /\ now' = now + 1 /\ now + 1 - rSec[r] <= MaxReadLag
      /\ UNCHANGED <<cnt, store, rpc, lastIdx, recCnt, pos, rSec>>
  BY DEF Tick, ring, readers
<1>3. PICK m \in Nat : m = HeldSlots(r)
  BY <1>1 DEF HeldFine
<1>4. HeldSlots(r)' = m + 1 /\ rSec[r] \in Nat /\ now \in Nat /\ aSec \in Nat
  BY <1>1, <1>2, <1>3 DEF HeldSlots, RingFacts
<1>5. \A i \in Slots : InSlot(r, i)' = InSlot(r, i)
  BY <1>1, <1>2, SlotKept
<1>6. ASSUME NEW k \in 1 .. m PROVE Held(r)'[k] = Held(r)[k]
  <2>1. READ_TIME_INDEX(rSec[r] + k - 1) \in Slots
    BY <1>4, SlotOfSecond
  <2>2. Held(r)'[k] = InSlot(r, READ_TIME_INDEX(rSec[r] + k - 1))'
    BY <1>1, <1>4, <1>6 DEF HeldFine
  <2>3. Held(r)[k] = InSlot(r, READ_TIME_INDEX(rSec[r] + k - 1))
    BY <1>1, <1>3, <1>6 DEF HeldFine
  <2> QED  BY <1>2, <2>1, <2>2, <2>3 DEF InSlot, READ_TIME_INDEX
<1>7. Held(r)'[m + 1] = <<>>
  <2>1. PICK t \in Nat : t = now + 2
    BY <1>4
  <2>2. rSec[r] + (m + 1) - 1 = t /\ m + 1 \in 1 .. (m + 1)
        /\ t > aSec + 1 /\ t - rSec[r] < TIME_INDEX
    BY <1>1, <1>2, <1>3, <1>4, <2>1, SchedulingAssumption, RingClockAssumption,
       TimeIndexAssumption DEF HeldSlots
  <2>3. cnt[r][READ_TIME_INDEX(t)] = 0 /\ READ_TIME_INDEX(t) \in Slots
    BY <2>2, LaterSlotEmpty, ReadIndexIsSlot
  <2>4. InSlot(r, READ_TIME_INDEX(t)) = <<>>
    BY <2>3, EmptySlot
  <2>5. Held(r)'[m + 1] = InSlot(r, READ_TIME_INDEX(rSec[r] + (m + 1) - 1))'
    BY <1>1, <1>4, <2>2 DEF HeldFine
  <2> QED  BY <1>2, <2>2, <2>4, <2>5 DEF InSlot, READ_TIME_INDEX
<1>8. PICK ss \in Seq(Seq(Content)) : ss = Held(r) /\ Len(ss) = m
  BY <1>1, <1>3, Zenon DEF HeldFine
<1>9. PICK tt \in Seq(Seq(Content)) : tt = Held(r)' /\ Len(tt) = m + 1
  BY <1>1, <1>4, Zenon DEF HeldFine, Content
<1>10. Starts(ss, tt, m) /\ tt[m + 1] = <<>>
  BY <1>6, <1>7, <1>8, <1>9, Zenon DEF Starts
<1>11. FlattenSeq(tt) = FlattenSeq(ss)
  BY <1>8, <1>9, <1>10, FlatEmptyLast, Zenon
<1>12. Pending(r)' = FlattenSeq(tt)
  BY <1>9, Zenon DEF Pending, Held, HeldSlots
<1>13. Pending(r) = FlattenSeq(ss)
  BY <1>8, PendingIs, Zenon
<1> QED  BY <1>11, <1>12, <1>13, Zenon

\* The ring of a router before and after a step in which one slot changes.
Slotwise(r, n, k, i, ss, tt) ==
  /\ Len(ss) = n /\ Len(tt) = n
  /\ Pending(r) = FlattenSeq(ss) /\ Pending(r)' = FlattenSeq(tt)
  /\ ss[k] = InSlot(r, i) /\ tt[k] = InSlot(r, i)'
  /\ \A j \in 1 .. n : j # k => tt[j] = ss[j]
  /\ \A j \in 1 .. n : ss[j] = InSlot(r, READ_TIME_INDEX(rSec[r] + j - 1))

LEMMA OneSlotChanges ==
  ASSUME FifoInv, FifoInv', NEW r \in Router, NEW n \in Nat, n = HeldSlots(r),
         NEW k \in 1 .. n, now' = now, rSec'[r] = rSec[r],
         NEW i \in Slots, i = READ_TIME_INDEX(rSec[r] + k - 1),
         \A j \in Slots : j # i => InSlot(r, j)' = InSlot(r, j)
  PROVE  \E ss, tt \in Seq(Seq(Content)) : Slotwise(r, n, k, i, ss, tt)
<1>1. HeldFine(r) /\ HeldFine(r)' /\ rSec[r] \in Nat /\ now \in Nat
  BY HeldIsFine, HeldIsFineNext DEF HeldFine
<1>2. HeldSlots(r)' = n
  BY DEF HeldSlots
<1>3. PICK ss \in Seq(Seq(Content)) : ss = Held(r) /\ Len(ss) = n
  BY <1>1, Zenon DEF HeldFine
<1>4. PICK tt \in Seq(Seq(Content)) : tt = Held(r)' /\ Len(tt) = n
  BY <1>1, <1>2, Zenon DEF HeldFine, Content
<1>5. ASSUME NEW j \in 1 .. n
      PROVE  /\ ss[j] = InSlot(r, READ_TIME_INDEX(rSec[r] + j - 1))
             /\ tt[j] = InSlot(r, READ_TIME_INDEX(rSec[r] + j - 1))'
  BY <1>1, <1>2, <1>3, <1>4, <1>5, Zenon DEF HeldFine
<1>6. ss[k] = InSlot(r, i)
  BY <1>5, Zenon
<1>7. tt[k] = InSlot(r, i)'
  <2>1. tt[k] = InSlot(r, READ_TIME_INDEX(rSec[r] + k - 1))'
    BY <1>5, Zenon
  <2> QED  BY <2>1 DEF InSlot, READ_TIME_INDEX
<1>8. ASSUME NEW j \in 1 .. n, j # k PROVE tt[j] = ss[j]
  <2>1. PICK q \in Slots : q = READ_TIME_INDEX(rSec[r] + j - 1)
    BY <1>1, SlotOfSecond
  <2>2. q # i
    BY <1>8, <2>1, HeldSlotsDiffer
  <2>3. tt[j] = InSlot(r, q)'
    <3>1. tt[j] = InSlot(r, READ_TIME_INDEX(rSec[r] + j - 1))'
      BY <1>5, Zenon
    <3>2. READ_TIME_INDEX(rSec[r] + j - 1)' = q
      BY <2>1 DEF READ_TIME_INDEX
    <3> QED  BY <3>1, <3>2 DEF InSlot
  <2>4. ss[j] = InSlot(r, q)
    BY <1>5, <1>8, <2>1
  <2> QED  BY <2>2, <2>3, <2>4
<1>9. Pending(r) = FlattenSeq(ss)
  BY <1>3, PendingIs, Zenon
<1>10. Pending(r)' = FlattenSeq(tt)
  BY <1>4, Zenon DEF Pending, Held, HeldSlots
<1> QED  BY <1>3, <1>4, <1>5, <1>6, <1>7, <1>8, <1>9, <1>10, Zenon DEF Slotwise

\* A packet that is counted is at the end of what waits for its router.
LEMMA CountPutsPacket ==
  ASSUME FifoInv, FifoInv', AgentCount,
         NEW r \in Router, r = router, NEW i \in Slots, i = t_index
  PROVE  Pending(r)' = Append(Pending(r), pkt)
<1>1. /\ RingFacts /\ cnt[r][i] \in Nat /\ maxPktPerRouter \in Nat
      /\ rSec[r] \in Nat /\ now \in Nat /\ aSec \in Nat /\ rSec[r] <= now
      /\ cnt[r][i] < maxPktPerRouter /\ aSec <= now /\ pkt \in Content
      /\ store[r][i][cnt[r][i]] = pkt
  BY RingFactsHold DEF RingFacts, FifoInv, SlotState, Copied, AgentCount, Content, AgentAtSlot
<1>2. /\ cnt' = [cnt EXCEPT ![r][i] = cnt[r][i] + 1]
      /\ UNCHANGED <<now, store, rpc, lastIdx, recCnt, pos, rSec>> /\ apc = "count"
  BY DEF AgentCount, readers
<1>3. i = READ_TIME_INDEX(aSec + 1) /\ now <= aSec + 1 /\ now - rSec[r] <= MaxReadLag
  BY <1>1, <1>2, SchedulingAssumption, RingClockAssumption
  DEF FifoInv, SecInv, WriterSecond, ReaderSeconds, ReaderSecond, AgentAtSlot
<1>4. cnt'[r][i] = cnt[r][i] + 1
  BY <1>1, <1>2 DEF RingFacts
<1>5. ~ (rpc[r] \in {"route", "release"} /\ i = lastIdx[r])
  BY <1>1, <1>2 DEF RingFacts, SlotExclusion, AgentAtSlot, RouterAtSlot
<1>6. InSlot(r, i)' = Join(InSlot(r, i), <<pkt>>)
  <2>1. PICK c \in Nat : c = cnt[r][i]
    BY <1>1
  <2>2. PICK f : f = [k \in 1 .. c |-> store[r][i][k - 1]]
    OBVIOUS
  <2>3. PICK g : g = [k \in 1 .. (c + 1) |-> store[r][i][k - 1]]
    OBVIOUS
  <2>4. \A k \in 1 .. (c + 1) : store[r][i][k - 1] \in Content
    <3>1. store[r][i] \in [0 .. (maxPktPerRouter - 1) -> Content]
      BY <1>1 DEF RingFacts, Content
    <3>2. \A k \in 1 .. (c + 1) : k - 1 \in 0 .. (maxPktPerRouter - 1)
      BY <1>1, <2>1
    <3> QED  BY <3>1, <3>2
  <2>5. f \in [1 .. c -> Content]
    BY <2>2, <2>4
  <2>6. g \in [1 .. (c + 1) -> Content]
    BY <2>3, <2>4
  <2>7. \A k \in 1 .. c : g[k] = f[k]
    BY <2>2, <2>3
  <2>8. g[c + 1] = pkt
    BY <1>1, <2>1, <2>3
  <2>9. g = Join(f, <<pkt>>)
    BY <2>5, <2>6, <2>7, <2>8, FunPut
  <2>10. InSlot(r, i) = f
    BY <1>5, <2>1, <2>2 DEF InSlot
  <2>11. InSlot(r, i)' = g
    BY <1>2, <1>4, <1>5, <2>1, <2>3 DEF InSlot
  <2> QED  BY <2>9, <2>10, <2>11
<1>7. ASSUME NEW j \in Slots, j # i PROVE InSlot(r, j)' = InSlot(r, j)
  <2>1. cnt'[r][j] = cnt[r][j]
    BY <1>1, <1>2, <1>7, OneCounter
  <2> QED  BY <1>1, <1>2, <2>1, SlotKept
<1>8. PICK n \in Nat : n = HeldSlots(r)
  BY <1>1 DEF HeldSlots
<1>9. PICK k \in Nat : k = aSec + 2 - rSec[r]
  BY <1>1, <1>3
<1>10. PICK m \in Nat : m = n - 1
  BY <1>1, <1>8 DEF HeldSlots
<1>11. n = m + 1 /\ k \in 1 .. n /\ (k = m + 1 \/ k = m) /\ rSec[r] + k - 1 = aSec + 1
       /\ (k = m => aSec + 1 = now)
  <2>1. /\ rSec[r] \in Nat /\ now \in Nat /\ aSec \in Nat
        /\ rSec[r] <= now /\ aSec <= now /\ now <= aSec + 1
        /\ n = now + 2 - rSec[r] /\ k = aSec + 2 - rSec[r] /\ m = n - 1
    BY <1>1, <1>3, <1>8, <1>9, <1>10 DEF HeldSlots
  <2>2. n = m + 1 /\ k \in 1 .. n /\ rSec[r] + k - 1 = aSec + 1
    BY <2>1
  <2>3. aSec = now \/ aSec + 1 = now
    BY <2>1
  <2>4. (k = m + 1 \/ k = m) /\ (k = m => aSec + 1 = now)
    BY <2>1, <2>3
  <2> QED  BY <2>2, <2>4
<1>12. PICK ss, tt \in Seq(Seq(Content)) : Slotwise(r, n, k, i, ss, tt)
  BY <1>1, <1>2, <1>3, <1>7, <1>8, <1>11, OneSlotChanges
<1>13. PICK one \in Seq(Content) : one = <<pkt>>
  <2>1. <<pkt>> \in Seq(Content)
    BY <1>1
  <2> QED  BY <2>1
<1>14. tt[k] = Join(ss[k], one)
  BY <1>6, <1>12, <1>13, Zenon DEF Slotwise
<1>15. Len(ss) = m + 1 /\ Len(tt) = m + 1 /\ \A j \in 1 .. (m + 1) : j # k => tt[j] = ss[j]
  BY <1>11, <1>12 DEF Slotwise
<1>16. FlattenSeq(tt) = Join(FlattenSeq(ss), one)
  <2>1. CASE k = m + 1
    <3>1. Starts(ss, tt, m)
      BY <1>15, <2>1 DEF Starts
    <3> QED  BY <1>14, <1>15, <2>1, <3>1, FlatPut, Zenon
  <2>2. CASE k = m
    <3>1. PICK l \in Nat : l = m - 1
      BY <1>11, <2>2
    <3>2. m = l + 1 /\ m + 1 \in 1 .. (m + 1) /\ m + 1 # k
      BY <2>2, <3>1
    <3>3. Starts(ss, tt, l)
      BY <1>15, <2>2, <3>1 DEF Starts
    <3>4. ss[m + 1] = <<>>
      <4>1. PICK t \in Nat : t = now + 1
        BY <1>1
      <4>2. rSec[r] + (m + 1) - 1 = t /\ t > aSec + 1 /\ t - rSec[r] < TIME_INDEX
        <5>1. /\ rSec[r] \in Nat /\ now \in Nat /\ aSec \in Nat /\ aSec + 1 = now
              /\ now - rSec[r] <= MaxReadLag /\ m = now + 1 - rSec[r]
          <6>1. rSec[r] \in Nat /\ now \in Nat /\ aSec \in Nat /\ now - rSec[r] <= MaxReadLag
            BY <1>1, <1>3
          <6>2. aSec + 1 = now /\ m = aSec + 2 - rSec[r]
            BY <1>9, <1>11, <2>2
          <6>3. PICK a \in Nat, b \in Nat : a = aSec /\ b = rSec[r]
            BY <6>1
          <6>4. now = a + 1 /\ m = a + 2 - b
            BY <6>2, <6>3
          <6>5. m = now + 1 - b
            BY <6>4
          <6> QED  BY <6>1, <6>2, <6>3, <6>5
        <5> QED  BY <4>1, <5>1, SchedulingAssumption, RingClockAssumption,
                    TimeIndexAssumption
      <4>3. cnt[r][READ_TIME_INDEX(t)] = 0 /\ READ_TIME_INDEX(t) \in Slots
        BY <1>1, <4>2, LaterSlotEmpty, ReadIndexIsSlot
      <4>4. InSlot(r, READ_TIME_INDEX(t)) = <<>>
        BY <1>1, <4>3, EmptySlot
      <4>5. ss[m + 1] = InSlot(r, READ_TIME_INDEX(rSec[r] + (m + 1) - 1))
        BY <1>11, <1>12, <3>2, Zenon DEF Slotwise
      <4> QED  BY <4>2, <4>4, <4>5, Zenon
    <3>5. tt[m + 1] = <<>>
      BY <1>15, <3>2, <3>4
    <3>6. tt[m] = Join(ss[m], one)
      BY <1>14, <2>2, Zenon
    <3>7. m \in Nat \ {0} /\ Starts(ss, tt, m - 1)
      BY <3>1, <3>2, <3>3
    <3> QED  BY <1>15, <3>4, <3>5, <3>6, <3>7, FlatPutBefore, Zenon
  <2> QED  BY <1>11, <2>1, <2>2
<1>17. FlattenSeq(ss) \in Seq(Content)
  BY FlatTyped, Zenon
<1>18. Append(FlattenSeq(ss), pkt) = Join(FlattenSeq(ss), one)
  <2>1. PICK s \in Seq(Content) : s = FlattenSeq(ss)
    BY <1>17
  <2>2. Append(s, pkt) = s \o <<pkt>>
    BY <1>1, AppendIsConcat
  <2> QED  BY <1>13, <2>1, <2>2, Zenon DEF Join
<1>19. Pending(r)' = FlattenSeq(tt) /\ Pending(r) = FlattenSeq(ss)
  BY <1>12, Zenon DEF Slotwise
<1> QED  BY <1>16, <1>18, <1>19, Zenon

\* A packet that is routed is the first that waits for its router.
LEMMA RouteTakesPacket ==
  ASSUME FifoInv, FifoInv', NEW r \in Router, RouterRoute(r)
  PROVE  /\ Pending(r) # <<>>
         /\ Head(Pending(r)) = store[r][lastIdx[r]][pos[r]]
         /\ Pending(r)' = Tail(Pending(r))
<1>1. /\ RingFacts /\ Taken(r) /\ lastIdx[r] \in Slots /\ pos[r] \in Nat
      /\ maxPktPerRouter \in Nat /\ cnt[r][lastIdx[r]] \in Nat
      /\ rSec[r] \in Nat /\ now \in Nat /\ rSec[r] <= now
      /\ lastIdx[r] = READ_TIME_INDEX(rSec[r])
  BY RingFactsHold DEF RingFacts, FifoInv
<1>2. /\ cnt' = [cnt EXCEPT ![r][lastIdx[r]] = cnt[r][lastIdx[r]] - 1]
      /\ pos' = [pos EXCEPT ![r] = pos[r] + 1]
      /\ UNCHANGED <<now, store, rpc, lastIdx, recCnt, rSec>>
      /\ rpc[r] = "route" /\ pos[r] < recCnt[r]
  BY DEF RouterRoute, More
<1>3. pos'[r] = pos[r] + 1
  BY <1>1, <1>2 DEF RingFacts
<1>4. recCnt[r] \in Nat /\ recCnt[r] <= maxPktPerRouter
  BY <1>1, <1>2 DEF Taken
<1>5. PICK i \in Slots : i = lastIdx[r]
  BY <1>1
<1>6. PICK x : x = store[r][i][pos[r]]
  OBVIOUS
<1>7. x \in Content /\ InSlot(r, i) = Join(<<x>>, InSlot(r, i)')
  <2>1. PICK p \in Nat : p = pos[r]
    BY <1>1
  <2>2. PICK c \in Nat : recCnt[r] = p + c + 1
    <3>1. recCnt[r] - p - 1 \in Nat
      BY <1>2, <1>4, <2>1
    <3> QED  BY <1>4, <2>1, <3>1
  <2>3. PICK f : f = [k \in 1 .. (c + 1) |-> store[r][i][p + k - 1]]
    OBVIOUS
  <2>4. PICK g : g = [k \in 1 .. c |-> store[r][i][p + 1 + k - 1]]
    OBVIOUS
  <2>5. \A k \in 1 .. (c + 1) : store[r][i][p + k - 1] \in Content
    <3>1. store[r][i] \in [0 .. (maxPktPerRouter - 1) -> Content]
      BY <1>1 DEF RingFacts, Content
    <3>2. \A k \in 1 .. (c + 1) : p + k - 1 \in 0 .. (maxPktPerRouter - 1)
      BY <1>1, <1>4, <2>2
    <3> QED  BY <3>1, <3>2
  <2>6. \A k \in 1 .. c : k + 1 \in 1 .. (c + 1) /\ p + (k + 1) - 1 = p + 1 + k - 1
    OBVIOUS
  <2>7. \A k \in 1 .. c : f[k + 1] = g[k]
    BY <2>3, <2>4, <2>6
  <2>8. f \in [1 .. (c + 1) -> Content]
    BY <2>3, <2>5
  <2>9. g \in [1 .. c -> Content]
    <3>1. \A k \in 1 .. c : g[k] \in Content
      BY <2>6, <2>7, <2>8
    <3> QED  BY <2>4, <3>1
  <2>10. f[1] = x /\ x \in Content
    <3>1. 1 \in 1 .. (c + 1) /\ p + 1 - 1 = p
      OBVIOUS
    <3> QED  BY <1>6, <2>1, <2>3, <2>5, <3>1
  <2>11. f = Join(<<x>>, g)
    <3>1. c \in Nat /\ f \in [1 .. (c + 1) -> Content] /\ g \in [1 .. c -> Content]
      BY <2>8, <2>9
    <3>2. x \in Content /\ f[1] = x /\ \A k \in 1 .. c : f[k + 1] = g[k]
      BY <2>7, <2>10
    <3> QED  BY ONLY <3>1, <3>2, FunTake
  <2>12. InSlot(r, i) = f
    <3>1. recCnt[r] - pos[r] = c + 1
      BY <2>1, <2>2
    <3> QED  BY <1>2, <1>5, <2>1, <2>3, <3>1 DEF InSlot
  <2>13. InSlot(r, i)' = g
    <3>1. recCnt'[r] - pos'[r] = c /\ pos'[r] = p + 1
      BY <1>2, <1>3, <2>1, <2>2
    <3> QED  BY <1>2, <1>5, <2>4, <3>1 DEF InSlot
  <2> QED  BY <2>10, <2>11, <2>12, <2>13
<1>8. ASSUME NEW j \in Slots, j # i PROVE InSlot(r, j)' = InSlot(r, j)
  <2>1. cnt'[r][j] = cnt[r][j]
    BY <1>1, <1>2, <1>5, <1>8, OneCounter
  <2> QED  BY <1>2, <1>5, <1>8, <2>1 DEF InSlot
<1>9. PICK n \in Nat : n = HeldSlots(r)
  BY <1>1 DEF HeldSlots
<1>10. PICK m \in Nat : n = m + 1
  <2>1. n - 1 \in Nat
    BY <1>1, <1>9 DEF HeldSlots
  <2> QED  BY <2>1
<1>11. 1 \in 1 .. n /\ i = READ_TIME_INDEX(rSec[r] + 1 - 1)
  <2>1. rSec[r] + 1 - 1 = rSec[r]
    BY <1>1
  <2> QED  BY <1>1, <1>5, <1>10, <2>1
<1>12. PICK ss, tt \in Seq(Seq(Content)) : Slotwise(r, n, 1, i, ss, tt)
  BY <1>2, <1>8, <1>9, <1>11, OneSlotChanges
<1>13. PICK one \in Seq(Content) : one = <<x>>
  <2>1. <<x>> \in Seq(Content)
    BY <1>7
  <2> QED  BY <2>1
<1>14. ss[1] = Join(one, tt[1])
  BY <1>7, <1>12, <1>13, Zenon DEF Slotwise
<1>15. Len(ss) = m + 1 /\ Len(tt) = m + 1 /\ \A j \in 2 .. (m + 1) : tt[j] = ss[j]
  BY <1>10, <1>12 DEF Slotwise
<1>16. FlattenSeq(ss) = Join(one, FlattenSeq(tt))
  BY <1>14, <1>15, FlatTake, Zenon
<1>17. FlattenSeq(ss) \in Seq(Content) /\ FlattenSeq(tt) \in Seq(Content)
  BY FlatTyped, Zenon
<1>18. PICK s, t \in Seq(Content) : s = FlattenSeq(ss) /\ t = FlattenSeq(tt)
  BY <1>17
<1>19. s # <<>> /\ Head(s) = x /\ t = Tail(s)
  BY <1>7, <1>13, <1>16, <1>18, JoinedFirst, Zenon
<1>20. Pending(r)' = t /\ Pending(r) = s
  BY <1>12, <1>18, Zenon DEF Slotwise
<1> QED  BY <1>5, <1>6, <1>19, <1>20, Zenon

\* A router goes on to the next slot only from an empty one.
LEMMA NextSlotKeepsPending ==
  ASSUME FifoInv, FifoInv', NEW r \in Router, RouterSkip(r) \/ RouterRelease(r)
  PROVE  Pending(r)' = Pending(r)
<1>1. /\ RingFacts /\ Taken(r) /\ lastIdx[r] \in Slots
      /\ rSec[r] \in Nat /\ now \in Nat /\ rSec[r] <= now
      /\ lastIdx[r] = READ_TIME_INDEX(rSec[r])
      /\ HeldFine(r) /\ HeldFine(r)'
  BY RingFactsHold, HeldIsFine, HeldIsFineNext DEF RingFacts, FifoInv
<1>2. /\ cnt[r][lastIdx[r]] = 0 /\ NextSlot(r)
      /\ UNCHANGED <<now, cnt, store, recCnt, pos>>
      /\ rpc'[r] = "drain"
      /\ rpc[r] = "drain" \/ rpc[r] = "release"
  BY <1>1 DEF RouterSkip, RouterRelease, Taken, ring, RingFacts
<1>3. rSec'[r] = rSec[r] + 1
  BY <1>1, <1>2 DEF NextSlot, RingFacts
<1>4. InSlot(r, lastIdx[r]) = <<>>
  BY <1>1, <1>2, EmptySlot
<1>5. ASSUME NEW j \in Slots PROVE InSlot(r, j)' = InSlot(r, j)
  <2>1. InSlot(r, j)' = [k \in 1 .. cnt[r][j] |-> store[r][j][k - 1]]
    BY <1>2 DEF InSlot
  <2>2. CASE rpc[r] = "drain" \/ j # lastIdx[r]
    <3>1. InSlot(r, j) = [k \in 1 .. cnt[r][j] |-> store[r][j][k - 1]]
      BY <2>2 DEF InSlot
    <3> QED  BY <2>1, <3>1
  <2>3. CASE j = lastIdx[r]
    <3>1. InSlot(r, j)' = <<>>
      BY <1>2, <2>1, <2>3
    <3> QED  BY <1>4, <2>3, <3>1
  <2> QED  BY <1>2, <2>2, <2>3
<1>6. PICK m \in Nat : m + 1 = HeldSlots(r)
  <2>1. PICK m \in Nat : m = now + 1 - rSec[r]
    BY <1>1
  <2>2. m + 1 = HeldSlots(r)
    BY <1>1, <2>1 DEF HeldSlots
  <2> QED  BY <2>2
<1>7. HeldSlots(r)' = m
  BY <1>1, <1>2, <1>3, <1>6 DEF HeldSlots
<1>8. PICK ss \in Seq(Seq(Content)) : ss = Held(r) /\ Len(ss) = m + 1
  BY <1>1, <1>6, Zenon DEF HeldFine
<1>9. PICK tt \in Seq(Seq(Content)) : tt = Held(r)' /\ Len(tt) = m
  BY <1>1, <1>7, Zenon DEF HeldFine, Content
<1>10. ASSUME NEW k \in 1 .. m PROVE ss[k + 1] = tt[k]
  <2>1. PICK j \in 1 .. (m + 1) : j = k + 1
    OBVIOUS
  <2>2. ss[j] = InSlot(r, READ_TIME_INDEX(rSec[r] + j - 1))
    BY <1>1, <1>6, <1>8, Zenon DEF HeldFine
  <2>3. tt[k] = InSlot(r, READ_TIME_INDEX(rSec[r] + k - 1))'
    BY <1>1, <1>7, <1>9, Zenon DEF HeldFine
  <2>4. PICK t \in Nat : t = rSec[r] + k
    BY <1>1
  <2>5. rSec[r] + j - 1 = t /\ rSec'[r] + k - 1 = t
    BY <1>1, <1>3, <2>1, <2>4
  <2>6. PICK q \in Slots : q = READ_TIME_INDEX(t)
    BY ReadIndexIsSlot
  <2>7. tt[k] = InSlot(r, q)'
    BY <2>3, <2>5, <2>6 DEF InSlot, READ_TIME_INDEX
  <2>8. ss[j] = InSlot(r, q)
    BY <2>2, <2>5, <2>6
  <2> QED  BY <1>5, <2>1, <2>7, <2>8
<1>11. ss[1] = <<>>
  <2>1. 1 \in 1 .. (m + 1) /\ rSec[r] + 1 - 1 = rSec[r]
    BY <1>1
  <2>2. ss[1] = InSlot(r, READ_TIME_INDEX(rSec[r] + 1 - 1))
    BY <1>1, <1>6, <1>8, <2>1, Zenon DEF HeldFine
  <2> QED  BY <1>1, <1>4, <2>1, <2>2
<1>12. Follows(tt, ss, m)
  BY <1>10 DEF Follows
<1>13. FlattenSeq(ss) = FlattenSeq(tt)
  BY <1>8, <1>9, <1>11, <1>12, FlatEmptyFirst, Zenon
<1>14. Pending(r) = FlattenSeq(ss)
  BY <1>8, PendingIs, Zenon
<1>15. Pending(r)' = FlattenSeq(tt)
  BY <1>9, Zenon DEF Pending, Held, HeldSlots
<1> QED  BY <1>13, <1>14, <1>15, Zenon

\* The steps by which a router looks at a slot move nothing.
LEMMA LookKeepsPending ==
  ASSUME FifoInv, NEW r \in Router,
         RouterWake(r) \/ RouterSleep(r) \/ RouterTake(r) \/ RouterBusy(r) \/ RouterZero(r)
  PROVE  Pending(r)' = Pending(r)
<1>1. RingFacts /\ Taken(r) /\ lastIdx[r] \in Slots /\ pos[r] \in Nat
      /\ cnt[r][lastIdx[r]] \in Nat /\ HeldFine(r)
  BY RingFactsHold, HeldIsFine DEF RingFacts, FifoInv
<1>2. UNCHANGED <<now, store, lastIdx, rSec>>
  BY DEF RouterWake, RouterSleep, RouterTake, RouterBusy, RouterZero, ring
<1>3. ASSUME NEW j \in Slots PROVE InSlot(r, j)' = InSlot(r, j)
  <2>1. CASE RouterWake(r) \/ RouterSleep(r) \/ RouterTake(r)
    <3>1. cnt' = cnt /\ rpc[r] \notin {"route", "release"} /\ rpc'[r] \notin {"route", "release"}
      BY <1>1, <2>1 DEF RouterWake, RouterSleep, RouterTake, ring, RingFacts
    <3> QED  BY <1>1, <1>2, <3>1, SlotKept
  <2>2. CASE RouterBusy(r)
    <3>1. /\ UNCHANGED <<cnt, recCnt>> /\ rpc[r] = "take" /\ rpc'[r] = "route"
          /\ pos'[r] = 0 /\ recCnt[r] = cnt[r][lastIdx[r]]
      BY <1>1, <2>2 DEF RouterBusy, RingFacts, Taken
    <3>2. InSlot(r, j) = [k \in 1 .. cnt[r][j] |-> store[r][j][k - 1]]
      BY <3>1 DEF InSlot
    <3>3. CASE j = lastIdx[r]
      <4>1. InSlot(r, j)' = [k \in 1 .. (recCnt[r] - 0) |-> store[r][j][0 + k - 1]]
        BY <1>2, <3>1, <3>3 DEF InSlot
      <4> QED  BY <1>1, <3>1, <3>2, <3>3, <4>1
    <3>4. CASE j # lastIdx[r]
      BY <1>2, <3>1, <3>2, <3>4 DEF InSlot
    <3> QED  BY <3>3, <3>4
  <2>3. CASE RouterZero(r)
    <3>1. /\ rpc[r] = "route" /\ rpc'[r] = "release" /\ UNCHANGED <<recCnt, pos>>
          /\ cnt' = [cnt EXCEPT ![r][lastIdx[r]] = 0]
      BY <1>1, <2>3 DEF RouterZero, RingFacts
    <3>2. CASE j = lastIdx[r]
      BY <1>2, <3>1, <3>2 DEF InSlot
    <3>3. CASE j # lastIdx[r]
      <4>1. cnt'[r][j] = cnt[r][j]
        BY <1>1, <3>1, <3>3, OneCounter
      <4> QED  BY <1>2, <3>1, <3>3, <4>1 DEF InSlot
    <3> QED  BY <3>2, <3>3
  <2> QED  BY <2>1, <2>2, <2>3
<1> QED  BY <1>1, <1>2, <1>3, PendingKept

\* A router moves nothing of another router.
LEMMA OtherRouterKept ==
  ASSUME FifoInv, NEW r \in Router, RouterStep(r), NEW q \in Router, q # r
  PROVE  Pending(q)' = Pending(q)
<1>1. RingFacts /\ HeldFine(q)
  BY RingFactsHold, HeldIsFine
<1>2. /\ rpc'[q] = rpc[q] /\ lastIdx'[q] = lastIdx[q]
      /\ recCnt'[q] = recCnt[q] /\ pos'[q] = pos[q]
  BY <1>1 DEF RingFacts, RouterStep, RouterWake, RouterSleep, RouterSkip, RouterTake,
              RouterBusy, RouterRoute, RouterZero, RouterRelease, NextSlot
<1>3. now' = now /\ store' = store /\ rSec'[q] = rSec[q]
  BY <1>1 DEF RingFacts, RouterStep, RouterWake, RouterSleep, RouterSkip, RouterTake,
              RouterBusy, RouterRoute, RouterZero, RouterRelease, NextSlot, ring
<1>4. \A i \in Slots : cnt'[q][i] = cnt[q][i]
  BY <1>1 DEF RingFacts, RouterStep, RouterWake, RouterSleep, RouterSkip, RouterTake,
              RouterBusy, RouterRoute, RouterZero, RouterRelease, ring
<1>5. \A i \in Slots : InSlot(q, i)' = InSlot(q, i)
  BY <1>1, <1>2, <1>3, <1>4, SlotKept
<1> QED  BY <1>1, <1>3, <1>5, PendingKept

\* The agent moves nothing but by counting a packet, and then of one router.
LEMMA AgentKept ==
  ASSUME FifoInv, AgentRecv \/ AgentDrop \/ AgentAdmit \/ AgentCopy \/ AgentCount \/ UNCHANGED vars,
         NEW q \in Router, AgentCount => q # router
  PROVE  Pending(q)' = Pending(q)
<1>1. RingFacts /\ HeldFine(q) /\ SlotState
  BY RingFactsHold, HeldIsFine DEF FifoInv
<1>2. UNCHANGED <<now, rSec, rpc, lastIdx, recCnt, pos>>
  BY DEF AgentRecv, AgentDrop, AgentAdmit, AgentCopy, AgentCount, readers, vars
<1>3. ASSUME NEW i \in Slots PROVE InSlot(q, i)' = InSlot(q, i)
  <2>1. CASE UNCHANGED <<cnt, store>>
    BY <1>1, <1>2, <2>1, SlotKept
  <2>2. CASE AgentCount
    <3>1. cnt' = [cnt EXCEPT ![router][t_index] = cnt[router][t_index] + 1] /\ store' = store
      BY <2>2 DEF AgentCount
    <3>2. cnt'[q][i] = cnt[q][i]
      BY <1>1, <2>2, <3>1 DEF RingFacts
    <3> QED  BY <1>1, <1>2, <3>1, <3>2, SlotKept
  <2>3. CASE AgentCopy
    <3>1. /\ store' = [store EXCEPT ![router][t_index][cnt[router][t_index]] = pkt]
          /\ cnt' = cnt /\ apc = "copy"
      BY <2>3 DEF AgentCopy
    <3>2. CASE q # router \/ i # t_index
      <4>1. store'[q][i] = store[q][i]
        BY <1>1, <3>1, <3>2 DEF RingFacts
      <4>2. CASE rpc[q] \in {"route", "release"} /\ i = lastIdx[q]
        BY <1>2, <3>1, <4>1, <4>2 DEF InSlot
      <4>3. CASE ~ (rpc[q] \in {"route", "release"} /\ i = lastIdx[q])
        <5>1. InSlot(q, i) = [k \in 1 .. cnt[q][i] |-> store[q][i][k - 1]]
          BY <4>3 DEF InSlot
        <5>2. InSlot(q, i)' = [k \in 1 .. cnt[q][i] |-> store'[q][i][k - 1]]
          BY <1>2, <3>1, <4>3 DEF InSlot
        <5> QED  BY <4>1, <5>1, <5>2
      <4> QED  BY <4>2, <4>3
    <3>3. CASE q = router /\ i = t_index
      <4>1. ~ (rpc[q] \in {"route", "release"} /\ i = lastIdx[q])
        BY <1>1, <3>1, <3>3 DEF RingFacts, SlotExclusion, AgentAtSlot, RouterAtSlot
      <4>2. PICK c \in Nat : c = cnt[q][i]
        BY <1>1 DEF RingFacts
      <4>3. c \in 0 .. (maxPktPerRouter - 1)
        BY <1>1, <3>1, <3>3, <4>2 DEF SlotState, RingFacts
      <4>4. ASSUME NEW k \in 1 .. c PROVE store'[q][i][k - 1] = store[q][i][k - 1]
        <5>1. k - 1 \in 0 .. (maxPktPerRouter - 1) /\ k - 1 # c
          <6>1. maxPktPerRouter \in Nat
            BY <1>1 DEF RingFacts
          <6> QED  BY <4>3, <6>1
        <5> QED  BY <1>1, <3>1, <3>3, <4>2, <5>1 DEF RingFacts
      <4>5. InSlot(q, i) = [k \in 1 .. c |-> store[q][i][k - 1]]
        BY <4>1, <4>2 DEF InSlot
      <4>6. InSlot(q, i)' = [k \in 1 .. c |-> store'[q][i][k - 1]]
        BY <1>2, <3>1, <4>1, <4>2 DEF InSlot
      <4> QED  BY <4>4, <4>5, <4>6
    <3> QED  BY <3>2, <3>3
  <2>4. CASE AgentRecv \/ AgentDrop \/ AgentAdmit \/ UNCHANGED vars
    <3>1. UNCHANGED <<cnt, store>>
      BY <2>4 DEF AgentRecv, AgentDrop, AgentAdmit, ring, vars
    <3> QED  BY <2>1, <3>1
  <2> QED  BY <2>2, <2>3, <2>4
<1> QED  BY <1>1, <1>2, <1>3, PendingKept

-----------------------------------------------------------------------------
\* The channel's queue, as TimeRing gives it.
Queue == [r \in Router |-> Pending(r)]

LEMMA QueueKept ==
  ASSUME \A r \in Router : Pending(r)' = Pending(r)
  PROVE  Queue' = Queue
  BY DEF Queue

LEMMA ChannelStep ==
  ASSUME FifoInv, FifoInv', [Next]_vars
  PROVE  [Channel!Next]_(Channel!vars)
<1>0. RingFacts
  BY RingFactsHold
<1>1. CASE \A r \in Router : Pending(r)' = Pending(r) /\ routed' = routed
  <2>1. Queue' = Queue /\ routed' = routed
    BY <1>0, <1>1, QueueKept DEF RingFacts
  <2> QED  BY <2>1 DEF Channel!vars, Queue
<1>2. CASE Tick
  <2>1. \A r \in Router : Pending(r)' = Pending(r)
    BY <1>2, TickKeepsPending
  <2> QED  BY <1>1, <1>2, <2>1 DEF Tick
<1>3. CASE AgentRecv \/ AgentDrop \/ AgentAdmit \/ AgentCopy \/ UNCHANGED vars
  <2>1. routed' = routed /\ ~ AgentCount
    BY <1>3 DEF AgentRecv, AgentDrop, AgentAdmit, AgentCopy, vars, AgentCount, agent
  <2>2. \A r \in Router : Pending(r)' = Pending(r)
    BY <1>3, <2>1, AgentKept
  <2> QED  BY <1>1, <2>1, <2>2
<1>4. CASE AgentCount
  <2>1. PICK r \in Router : r = router
    BY <1>0 DEF RingFacts
  <2>2. PICK i \in Slots : i = t_index
    BY <1>0 DEF RingFacts
  <2>3. Pending(r)' = Append(Pending(r), pkt)
    BY <1>4, <2>1, <2>2, CountPutsPacket
  <2>4. \A q \in Router : q # r => Pending(q)' = Pending(q)
    BY <1>4, <2>1, AgentKept
  <2>5. Queue' = [Queue EXCEPT ![r] = Append(Queue[r], pkt)]
    BY <2>3, <2>4 DEF Queue
  <2>6. routed' = routed /\ pkt \in Packet
    BY <1>4 DEF AgentCount, FifoInv, Copied, AgentAtSlot
  <2>7. Channel!Accept(r, pkt)
    BY <2>5, <2>6 DEF Channel!Accept, Queue
  <2> QED  BY <2>6, <2>7 DEF Channel!Next
<1>5. ASSUME NEW r \in Router, RouterRoute(r) PROVE Channel!Next
  <2>1. /\ Pending(r) # <<>> /\ Head(Pending(r)) = store[r][lastIdx[r]][pos[r]]
        /\ Pending(r)' = Tail(Pending(r))
    BY <1>5, RouteTakesPacket
  <2>2. \A q \in Router : q # r => Pending(q)' = Pending(q)
    BY <1>5, OtherRouterKept DEF RouterStep
  <2>3. Queue' = [Queue EXCEPT ![r] = Tail(Queue[r])]
    BY <2>1, <2>2 DEF Queue
  <2>4. routed' = [routed EXCEPT ![r] = Append(routed[r], Head(Queue[r]))] /\ Queue[r] # <<>>
    BY <1>5, <2>1 DEF RouterRoute, Queue
  <2>5. Channel!Deliver(r)
    BY <2>3, <2>4 DEF Channel!Deliver, Queue
  <2> QED  BY <2>5 DEF Channel!Next
<1>6. ASSUME NEW r \in Router, RouterStep(r), ~ RouterRoute(r)
      PROVE  [Channel!Next]_(Channel!vars)
  <2>1. Pending(r)' = Pending(r)
    BY <1>6, LookKeepsPending, NextSlotKeepsPending DEF RouterStep
  <2>2. \A q \in Router : q # r => Pending(q)' = Pending(q)
    BY <1>6, OtherRouterKept
  <2>3. routed' = routed
    BY <1>6 DEF RouterStep, RouterWake, RouterSleep, RouterSkip, RouterTake,
                RouterBusy, RouterZero, RouterRelease
  <2> QED  BY <1>1, <2>1, <2>2, <2>3
<1> QED  BY <1>2, <1>3, <1>4, <1>5, <1>6 DEF Next, Agent

(* To each router, the agent and the ring are a first-in first-out channel *)
(* that neither loses, duplicates nor reorders what the agent has          *)
(* accepted: each step of ReadTcpAgent::processPacket, of                  *)
(* Routers::readTcpPacket and of Timer::run puts a packet at the end of    *)
(* one router's queue, takes the first one out, or leaves all alone.       *)
THEOREM RingImplementsChannel == Spec => ImplementsChannel
<1>1. Init => Channel!Init
  <2> SUFFICES ASSUME Init PROVE Channel!Init
    OBVIOUS
  <2>1. FifoInv
    BY FifoInvInit
  <2>2. ASSUME NEW r \in Router PROVE Pending(r) = <<>>
    <3>1. rSec[r] = FirstSec /\ now = FirstSec /\ FirstSec \in Nat /\ HeldFine(r)
      BY <2>1, HeldIsFine, RingClockAssumption DEF Init
    <3>2. HeldSlots(r) = 2
      BY <3>1 DEF HeldSlots
    <3>3. \A i \in Slots : InSlot(r, i) = <<>>
      <4>1. \A i \in Slots : cnt[r][i] = 0
        BY DEF Init
      <4> QED  BY <2>1, <4>1, EmptySlot
    <3>4. PICK tt \in Seq(Seq(Content)) : tt = Held(r) /\ Len(tt) = 2
      BY <3>1, <3>2, Zenon DEF HeldFine
    <3>5. \A k \in 1 .. 2 : tt[k] = <<>>
      <4> SUFFICES ASSUME NEW k \in 1 .. 2 PROVE tt[k] = <<>>
        OBVIOUS
      <4>1. READ_TIME_INDEX(rSec[r] + k - 1) \in Slots
        <5>1. k \in Nat /\ k >= 1 /\ rSec[r] \in Nat
          BY <3>1
        <5> QED  BY <5>1, SlotOfSecond
      <4>2. tt[k] = InSlot(r, READ_TIME_INDEX(rSec[r] + k - 1))
        BY <3>1, <3>2, <3>4, Zenon DEF HeldFine
      <4> QED  BY <3>3, <4>1, <4>2
    <3>6. PICK one \in Seq(Seq(Content)) : Len(one) = 1 /\ Follows(one, tt, 1)
      <4>1. Len(tt) = 1 + 1
        BY <3>4
      <4> QED  BY <4>1, FrontRest
    <3>7. Len(<<>>) = 0 /\ <<>> \in Seq(Seq(Content))
      OBVIOUS
    <3>8. FlattenSeq(tt) = FlattenSeq(one)
      <4>1. Len(tt) = 1 + 1 /\ tt[1] = <<>> /\ 1 \in Nat
        BY <3>4, <3>5
      <4> QED  BY <3>6, <4>1, FlatEmptyFirst, Zenon
    <3>9. FlattenSeq(one) = FlattenSeq(<<>>)
      <4>1. Len(one) = 0 + 1 /\ one[1] = <<>> /\ 0 \in Nat
        <5>1. 1 \in 1 .. 1 /\ 1 + 1 = 2 /\ 2 \in 1 .. 2
          OBVIOUS
        <5>2. one[1] = tt[2]
          BY <3>6, <5>1 DEF Follows
        <5> QED  BY <3>5, <3>6, <5>1, <5>2
      <4>2. PICK none \in Seq(Seq(Content)) : none = <<>> /\ Len(none) = 0
        BY <3>7
      <4>3. Follows(none, one, 0)
        BY DEF Follows
      <4>4. FlattenSeq(one) = FlattenSeq(none)
        BY <4>1, <4>2, <4>3, FlatEmptyFirst, ZenonT(60)
      <4> QED  BY <4>2, <4>4, Zenon
    <3> QED  BY <3>4, <3>8, <3>9, FlatEmpty, PendingIs, Zenon
  <2> QED  BY <2>2 DEF Init, Channel!Init
<1>2. FifoInv /\ FifoInv' /\ [Next]_vars => [Channel!Next]_(Channel!vars)
  BY ChannelStep
<1> QED
  BY <1>1, <1>2, FifoInvAlways, PTL DEF Spec, ImplementsChannel, Channel!Spec

-----------------------------------------------------------------------------
(***************************************************************************)
(* SmRing: the routers and a session manager, which sleeps at the end of   *)
(* the day while the routers fill the ring lap after lap.                  *)
(***************************************************************************)

\* Whole laps do not change a remainder.
LEMMA WholeLaps ==
  ASSUME NEW N \in Nat \ {0}, NEW a \in Nat, NEW S \in Nat, S % N = 0
  PROVE  (a + S) % N = a % N
<1> DEFINE p == a \div N
           q == S \div N
           u == (a + S) \div N
           r == a % N
           s == (a + S) % N
<1>0. a + S \in Nat  OBVIOUS
<1>1. a = (N * p) + r /\ p \in Nat /\ r \in 0 .. (N - 1)  BY DivMod
<1>2. S = (N * q) + (S % N) /\ q \in Nat  BY DivMod
<1>3. a + S = (N * u) + s /\ u \in Nat /\ s \in 0 .. (N - 1)  BY <1>0, DivMod
<1> HIDE DEF p, q, u, r, s
<1>4. r - s = N * (u - p - q)  BY <1>1, <1>2, <1>3
<1>5. u - p - q = 0  BY <1>1, <1>2, <1>3, <1>4, SmallMultiple
<1>6. r = s  BY <1>4, <1>5, <1>1, <1>3
<1> QED  BY <1>6 DEF r, s

\* A number below N is its own remainder.
LEMMA SmallMod ==
  ASSUME NEW N \in Nat \ {0}, NEW a \in 0 .. (N - 1)
  PROVE  a % N = a
<1>0. a \in Nat  OBVIOUS
<1>1. a = (N * (a \div N)) + (a % N) /\ a \div N \in Nat /\ a % N \in 0 .. (N - 1)
  BY <1>0, DivMod
<1> DEFINE p == a \div N
           r == a % N
<1>2. a = (N * p) + r /\ p \in Nat /\ r \in 0 .. (N - 1)  BY <1>1
<1> HIDE DEF p, r
<1>3. a - r = N * p  BY <1>2
<1>4. p = 0  BY <1>2, <1>3, SmallMultiple
<1>5. a = r  BY <1>2, <1>3, <1>4
<1> QED  BY <1>5 DEF r

\* The manager sleeps a whole number of laps.
LEMMA SleepKeepsSlot ==
  ASSUME NEW s \in Nat
  PROVE  READ_TIME_INDEX(s + SleepSec) = READ_TIME_INDEX(s)
<1>1. (s + SleepSec) % TIME_INDEX = s % TIME_INDEX
  BY LapSize, SmRingAssumption, SleepAssumption, WholeLaps
<1> QED  BY <1>1 DEF READ_TIME_INDEX

AtRouter(p) == \E r \in SmRouter : rPkt[r] = p
Processed(p) == \E k \in DOMAIN processed : processed[k] = p
InSlotLoop == mpc \in {"slots", "packets"}

\* lastIndex stands for second mSec, curIndex for one that is not before it,
\* and later while the manager is at the slots of mSec.
ManagerSeconds ==
  /\ mSec >= 1 /\ mSec <= now
  /\ mpc # "asleep" => now - mSec <= MaxReadLag
  /\ lastIndex = READ_TIME_INDEX(mSec)
  /\ mpc = "drain" => \E c \in mSec .. now : curIndex = READ_TIME_INDEX(c)
  /\ InSlotLoop => /\ mSec < now
                   /\ \E c \in (mSec + 1) .. now : curIndex = READ_TIME_INDEX(c)

\* The manager sleeps once, and a whole number of laps.
ManagerSleeps ==
  /\ mpc \in {"poll", "drain", "asleep"} => left = 0
  /\ mpc = "eod" \/ left > 0 => now >= EodSec /\ slept = 0
  /\ slept # 0 <=> mpc = "asleep" \/ woke # 0
  /\ woke # 0 => mpc # "asleep" /\ EodSec < woke /\ woke <= now
  /\ mpc = "asleep" =>
       /\ slept = mSec
       /\ wakeAt > EodSec
       /\ wakeAt - SleepSec \in mSec .. (mSec + MaxReadLag)
       /\ now - mSec <= SleepSec + MaxReadLag

\* What a router has at hand has been stamped at most one tick ago.
InHand(r) ==
  rPkt[r] # NoTcpPacket =>
    /\ sec[rPkt[r]] >= 1 /\ sec[rPkt[r]] <= now
    /\ now <= sec[rPkt[r]] + MaxWriteDelay
    /\ rIdx[r] = PKT_WRITE_TIME_INDEX(sec[rPkt[r]])

HandSeconds == \A r \in SmRouter : InHand(r)

\* A stamped packet is in one place.
OneHand ==
  \A r, q \in SmRouter : rPkt[r] # NoTcpPacket /\ rPkt[r] = rPkt[q] => r = q
OneProcessing ==
  \A k, l \in DOMAIN processed : processed[k] = processed[l] => k = l
OnePlaceEach ==
  \A p \in TcpPacket :
    /\ AtRouter(p) => ~ Stored(p) /\ ~ Processed(p)
    /\ Stored(p) => ~ Processed(p)
    /\ sec[p] # 0 <=> AtRouter(p) \/ Stored(p) \/ Processed(p)
OneSlot ==
  \A r, q \in SmRouter : \A i, j \in Slots : \A p \in TcpPacket :
    p \in smStore[r][i] /\ p \in smStore[q][j] => r = q /\ i = j

OnePlace == OneHand /\ OneProcessing /\ OnePlaceEach /\ OneSlot

\* A slot holds packets of its own second, or seconds if the manager slept,
\* and none that it should have taken already.
SlotSecond(i, p) ==
  /\ i = PKT_WRITE_TIME_INDEX(sec[p]) /\ sec[p] <= now
  /\ \/ sec[p] + 1 >= mSec
     \/ InPause(p) /\ sec[p] + 1 + SleepSec >= mSec

SlotSeconds ==
  \A r \in SmRouter : \A i \in Slots : \A p \in TcpPacket :
    p \in smStore[r][i] => SlotSecond(i, p)

\* The slots of the routers before turn are empty, and busy is the one slot
\* that the manager is emptying.
SlotsBehind ==
  /\ mpc = "packets" => turn < SmRouterCount
  /\ InSlotLoop => \A r \in SmRouter : r < turn => smStore[r][lastIndex] = {}
  /\ \A r \in SmRouter : \A i \in Slots :
       smBusy[r][i] = TRUE => mpc = "packets" /\ r = turn /\ i = lastIndex
  /\ refused = {}

ProcessedSeconds ==
  /\ \A k \in DOMAIN processed : sec[processed[k]] + 1 <= mSec
  /\ SecondsInOrder

SmInv ==
  /\ SmTypeOK /\ ManagerSeconds /\ ManagerSleeps /\ HandSeconds /\ OnePlace
  /\ SlotSeconds /\ SlotsBehind /\ ProcessedSeconds

-----------------------------------------------------------------------------
LEMMA SmInvInit == SmRingInit => SmInv
<1> SUFFICES ASSUME SmRingInit PROVE SmInv
  OBVIOUS
<1> USE DEF SmRingInit
<1>0. /\ FirstSec \in Nat \ {0} /\ READ_TIME_INDEX(FirstSec) \in Slots
      /\ 0 \in Slots
  BY RingClockAssumption, TimeIndexAssumption, ReadIndexIsSlot DEF Slots
<1>1. SmTypeOK
  BY <1>0, SmRingAssumption DEF SmTypeOK
<1>2. ManagerSeconds
  BY <1>0, RingClockAssumption DEF ManagerSeconds, InSlotLoop
<1>3. ManagerSleeps
  BY DEF ManagerSleeps
<1>4. HandSeconds
  BY DEF HandSeconds, InHand
<1>5. OnePlace
  <2>1. DOMAIN processed = {}
    OBVIOUS
  <2>2. \A p \in TcpPacket : sec[p] = 0 /\ p # NoTcpPacket
    BY SmRingAssumption
  <2>3. \A p \in TcpPacket : ~ AtRouter(p) /\ ~ Processed(p) /\ ~ Stored(p)
    BY <2>1, <2>2 DEF AtRouter, Processed, Stored
  <2> QED  BY <2>1, <2>2, <2>3
           DEF OnePlace, OneHand, OneProcessing, OnePlaceEach, OneSlot
<1>6. SlotSeconds
  BY DEF SlotSeconds
<1>7. SlotsBehind
  BY DEF SlotsBehind, InSlotLoop
<1>8. ProcessedSeconds
  BY DEF ProcessedSeconds, SecondsInOrder
<1> QED  BY <1>1, <1>2, <1>3, <1>4, <1>5, <1>6, <1>7, <1>8 DEF SmInv

-----------------------------------------------------------------------------
\* The manager is at a second that is over, and no more than its lag away
\* from the one a router is filling: their slots differ.
LEMMA SmSlotsDiffer ==
  ASSUME SmInv, NEW r \in SmRouter, rPkt[r] # NoTcpPacket, InSlotLoop
  PROVE  rIdx[r] # lastIndex
<1> DEFINE s == sec[rPkt[r]]
           t == s + 1
<1>1. s \in Nat /\ t \in Nat /\ mSec \in Nat /\ now \in Nat
  BY DEF SmInv, SmTypeOK
<1>2. s <= now /\ now <= s + MaxWriteDelay /\ rIdx[r] = PKT_WRITE_TIME_INDEX(s)
  BY DEF SmInv, HandSeconds, InHand
<1>3. mSec < now /\ now - mSec <= MaxReadLag /\ lastIndex = READ_TIME_INDEX(mSec)
  BY DEF SmInv, ManagerSeconds, InSlotLoop
<1>4. rIdx[r] = READ_TIME_INDEX(t)
  BY <1>1, <1>2, WriteIsSucc
<1>5. mSec < t /\ t - mSec < TIME_INDEX
  BY <1>1, <1>2, <1>3, RingClockAssumption, SchedulingAssumption, TimeIndexAssumption
<1> HIDE DEF t
<1>6. READ_TIME_INDEX(mSec) # READ_TIME_INDEX(t)
  BY <1>1, <1>5, SlotsOfALapDiffer
<1> QED  BY <1>3, <1>4, <1>6

\* The busy flag never meets a router.
LEMMA NeverBusy ==
  ASSUME SmInv, NEW r \in SmRouter, rPkt[r] # NoTcpPacket
  PROVE  smBusy[r][rIdx[r]] # TRUE
<1> SUFFICES ASSUME smBusy[r][rIdx[r]] = TRUE PROVE FALSE
  OBVIOUS
<1>1. rIdx[r] \in Slots
  BY DEF SmInv, SmTypeOK
<1>2. InSlotLoop /\ rIdx[r] = lastIndex
  BY <1>1 DEF SmInv, SlotsBehind, InSlotLoop
<1> QED  BY <1>2, SmSlotsDiffer

\* When the manager wakes up, its slot is the one at which it fell asleep,
\* a whole number of laps later.
LEMMA WakeSecond ==
  ASSUME SmInv, SmWake
  PROVE  /\ mSec' = mSec + SleepSec
         /\ mSec' <= now /\ now - mSec' <= MaxReadLag
         /\ lastIndex = READ_TIME_INDEX(mSec')
         /\ slept = mSec /\ woke = 0 /\ now > EodSec
<1>1. /\ mSec \in Nat /\ now \in Nat /\ mSec <= now /\ wakeAt \in Nat
      /\ lastIndex = READ_TIME_INDEX(mSec)
  BY DEF SmInv, SmTypeOK, ManagerSeconds
<1>2. /\ wakeAt <= now /\ wakeAt > EodSec
      /\ wakeAt - SleepSec >= mSec /\ now - mSec <= SleepSec + MaxReadLag
      /\ slept = mSec /\ woke = 0
  BY <1>1, SmRingAssumption, RingClockAssumption DEF SmInv, ManagerSleeps, SmWake
<1>3. SleepSec \in Nat /\ EodSec \in Nat /\ MaxReadLag \in Nat
      /\ MaxReadLag <= TIME_INDEX - 2
  BY SmRingAssumption, RingClockAssumption, SchedulingAssumption
<1> DEFINE x == now - mSec - SleepSec
<1>4. x \in 0 .. (TIME_INDEX - 1) /\ x \in Nat /\ x <= MaxReadLag
  BY <1>1, <1>2, <1>3, TimeIndexAssumption
<1>5. now - mSec = x + SleepSec
  BY <1>1, <1>3
<1> HIDE DEF x
<1>6. (x + SleepSec) % TIME_INDEX = x
  BY <1>3, <1>4, LapSize, SleepAssumption, WholeLaps, SmallMod
<1>7. mSec' = now - x
  BY <1>5, <1>6 DEF SmWake, Behind
<1>8. mSec' = mSec + SleepSec
  BY <1>1, <1>3, <1>4, <1>5, <1>7
<1>9. lastIndex = READ_TIME_INDEX(mSec')
  BY <1>1, <1>8, SleepKeepsSlot
<1> QED  BY <1>1, <1>2, <1>3, <1>4, <1>7, <1>8, <1>9

\* Where the manager is between two seconds.
LEMMA PollIsPast ==
  ASSUME SmInv
  PROVE  READ_TIME_INDEX(now) \in Slots
BY ReadIndexIsSlot DEF SmInv, SmTypeOK

-----------------------------------------------------------------------------
LEMMA StoreStep ==
  ASSUME SmTypeOK, NEW r \in SmRouter, NEW i \in Slots, NEW X \in SUBSET TcpPacket
  PROVE  [smStore EXCEPT ![r][i] = X] \in [SmRouter -> [Slots -> SUBSET TcpPacket]]
<1>1. smStore[r] \in [Slots -> SUBSET TcpPacket]  BY DEF SmTypeOK
<1>2. [smStore[r] EXCEPT ![i] = X] \in [Slots -> SUBSET TcpPacket]  BY <1>1
<1> QED  BY <1>2 DEF SmTypeOK

LEMMA BusyStep ==
  ASSUME SmTypeOK, NEW r \in SmRouter, NEW i \in Slots, NEW b \in BOOLEAN
  PROVE  [smBusy EXCEPT ![r][i] = b] \in [SmRouter -> [Slots -> BOOLEAN]]
<1>1. smBusy[r] \in [Slots -> BOOLEAN]  BY DEF SmTypeOK
<1>2. [smBusy[r] EXCEPT ![i] = b] \in [Slots -> BOOLEAN]  BY <1>1
<1> QED  BY <1>2 DEF SmTypeOK

LEMMA SmTypeStep == SmInv /\ [SmRingNext]_smRingVars => SmTypeOK'
<1> SUFFICES ASSUME SmInv, [SmRingNext]_smRingVars PROVE SmTypeOK'
  OBVIOUS
<1>0. SmTypeOK /\ SlotsBehind
  BY DEF SmInv
<1>a. READ_TIME_INDEX(now) \in Slots
  BY PollIsPast
<1>b. SmRouterCount \in Nat /\ EodSlots \in Nat /\ SleepSec \in Nat
  BY SmRingAssumption
<1>c. turn < SmRouterCount => turn \in SmRouter /\ turn + 1 \in 0 .. SmRouterCount
  BY <1>0, <1>b DEF SmTypeOK, SmRouter
<1>1. CASE SmTick
  BY <1>0, <1>1 DEF SmTypeOK, SmTick, ringVars, routerVars, smVars
<1>2. ASSUME NEW r \in SmRouter, RouterClock(r) PROVE SmTypeOK'
  <2>1. PKT_WRITE_TIME_INDEX(now) \in Slots
    <3> DEFINE t == now + 1
    <3>1. now \in Nat /\ t \in Nat  BY <1>0 DEF SmTypeOK
    <3>2. PKT_WRITE_TIME_INDEX(now) = READ_TIME_INDEX(t)  BY <3>1, WriteIsSucc
    <3> HIDE DEF t
    <3> QED  BY <3>1, <3>2, ReadIndexIsSlot
  <2> QED  BY <1>0, <1>2, <2>1 DEF SmTypeOK, RouterClock, ringVars, smVars
<1>3. ASSUME NEW r \in SmRouter, RouterPush(r) PROVE SmTypeOK'
  <2>1. rPkt[r] \in TcpPacket /\ rIdx[r] \in Slots
    BY <1>0, <1>3 DEF SmTypeOK, RouterPush
  <2>2. smStore' = [smStore EXCEPT ![r][rIdx[r]] = smStore[r][rIdx[r]] \cup {rPkt[r]}]
        /\ refused' = refused
    BY <1>3, NeverBusy DEF RouterPush
  <2>3. smStore' \in [SmRouter -> [Slots -> SUBSET TcpPacket]]
    BY <1>0, <2>1, <2>2, StoreStep DEF SmTypeOK
  <2> QED  BY <1>0, <1>3, <2>2, <2>3 DEF SmTypeOK, RouterPush, smVars
<1>4. CASE SmPoll \/ SmDrained \/ SmEodPoll
  <2>1. lastIndex' = lastIndex /\ curIndex' \in Slots
        /\ left' \in 0 .. EodSlots /\ turn' \in 0 .. SmRouterCount
        /\ mpc' \in {"poll", "drain", "slots", "packets", "eod", "asleep"}
    BY <1>0, <1>4, <1>a, <1>b DEF SmTypeOK, SmPoll, SmDrained, SmEodPoll
  <2> QED  BY <1>0, <1>4, <2>1
           DEF SmTypeOK, SmPoll, SmDrained, SmEodPoll, ringVars, routerVars
<1>5. CASE SmSleep \/ SmEnter
  BY <1>0, <1>5, <1>b DEF SmTypeOK, SmSleep, SmEnter, ringVars, routerVars
<1>6. CASE SmWake
  <2>1. mSec' \in Nat
    BY <1>0, <1>6, <1>b, WakeSecond DEF SmTypeOK
  <2> QED  BY <1>0, <1>6, <2>1 DEF SmTypeOK, SmWake, ringVars, routerVars
<1>7. CASE SmTakeSlot
  <2>1. smBusy' \in [SmRouter -> [Slots -> BOOLEAN]]
    <3>1. turn \in SmRouter /\ lastIndex \in Slots /\ TRUE \in BOOLEAN
      BY <1>0, <1>c, <1>7 DEF SmTypeOK, SmTakeSlot
    <3>2. [smBusy EXCEPT ![turn][lastIndex] = TRUE] \in [SmRouter -> [Slots -> BOOLEAN]]
      BY <1>0, <3>1, BusyStep
    <3>3. \/ smBusy' = smBusy
          \/ smBusy' = [smBusy EXCEPT ![turn][lastIndex] = TRUE]
      BY <1>7 DEF SmTakeSlot
    <3> QED  BY <1>0, <3>2, <3>3 DEF SmTypeOK
  <2> QED  BY <1>0, <1>c, <1>7, <2>1 DEF SmTypeOK, SmTakeSlot, routerVars
<1>8. CASE SmPacket
  <2>1. turn \in SmRouter /\ lastIndex \in Slots
    BY <1>0, <1>c, <1>8 DEF SmTypeOK, SlotsBehind, SmPacket
  <2>2. PICK p \in smStore[turn][lastIndex] :
          /\ processed' = Append(processed, p)
          /\ smStore' = [smStore EXCEPT ![turn][lastIndex]
                           = smStore[turn][lastIndex] \ {p}]
    BY <1>8 DEF SmPacket
  <2>3. p \in TcpPacket
    BY <1>0, <2>1 DEF SmTypeOK
  <2>4. smStore' \in [SmRouter -> [Slots -> SUBSET TcpPacket]]
    BY <1>0, <2>1, <2>2, StoreStep DEF SmTypeOK
  <2>5. processed' \in Seq(TcpPacket)
    BY <1>0, <2>2, <2>3 DEF SmTypeOK
  <2> QED  BY <1>0, <1>8, <2>4, <2>5 DEF SmTypeOK, SmPacket, routerVars
<1>9. CASE SmLeaveSlot
  <2>1. turn \in SmRouter /\ lastIndex \in Slots /\ turn + 1 \in 0 .. SmRouterCount
    BY <1>0, <1>c, <1>9 DEF SmTypeOK, SlotsBehind, SmLeaveSlot
  <2>2. smBusy' \in [SmRouter -> [Slots -> BOOLEAN]]
    BY <1>0, <2>1, <1>9, BusyStep DEF SmLeaveSlot
  <2> QED  BY <1>0, <1>9, <2>1, <2>2 DEF SmTypeOK, SmLeaveSlot, routerVars
<1>10. CASE SmNext
  <2>1. READ_NEXT_TIME_INDEX(lastIndex) \in Slots
    BY <1>0, TimeIndexAssumption DEF SmTypeOK, READ_NEXT_TIME_INDEX, Slots
  <2>2. mSec' \in Nat /\ left' \in 0 .. EodSlots
    BY <1>0, <1>10, <1>b DEF SmTypeOK, SmNext
  <2> QED  BY <1>0, <1>10, <2>1, <2>2 DEF SmTypeOK, SmNext, ringVars, routerVars
<1>11. CASE UNCHANGED smRingVars
  BY <1>0, <1>11 DEF SmTypeOK, smRingVars, ringVars, routerVars, smVars
<1> QED  BY <1>1, <1>2, <1>3, <1>4, <1>5, <1>6, <1>7, <1>8, <1>9, <1>10, <1>11
         DEF SmRingNext, SmStep

-----------------------------------------------------------------------------
LEMMA ManagerSecondsStep ==
  SmInv /\ [SmRingNext]_smRingVars => ManagerSeconds'
<1> SUFFICES ASSUME SmInv, [SmRingNext]_smRingVars PROVE ManagerSeconds'
  OBVIOUS
<1>0. ManagerSeconds /\ mSec \in Nat /\ now \in Nat
  BY DEF SmInv, SmTypeOK
<1>1. CASE SmTick
  BY <1>0, <1>1 DEF ManagerSeconds, InSlotLoop, SmTick, smVars
<1>2. CASE UNCHANGED <<now, mpc, mSec, lastIndex, curIndex>>
  BY <1>0, <1>2 DEF ManagerSeconds, InSlotLoop
<1>3. CASE SmPoll
  BY <1>0, <1>3 DEF ManagerSeconds, InSlotLoop, SmPoll
<1>4. CASE SmDrained
  BY <1>0, <1>4 DEF ManagerSeconds, InSlotLoop, SmDrained
<1>5. CASE SmEodPoll
  <2>1. lastIndex # READ_TIME_INDEX(now) => mSec < now /\ now \in (mSec + 1) .. now
    BY <1>0 DEF ManagerSeconds
  <2> QED  BY <1>0, <1>5, <2>1 DEF ManagerSeconds, InSlotLoop, SmEodPoll
<1>6. CASE SmSleep
  BY <1>0, <1>6 DEF ManagerSeconds, InSlotLoop, SmSleep
<1>7. CASE SmWake
  <2>1. /\ mSec' = mSec + SleepSec /\ SleepSec \in Nat
        /\ mSec' <= now /\ now - mSec' <= MaxReadLag
        /\ lastIndex = READ_TIME_INDEX(mSec')
    BY <1>7, WakeSecond, SmRingAssumption
  <2>2. mpc' = "poll" /\ UNCHANGED <<now, lastIndex>>
    BY <1>7 DEF SmWake
  <2>3. mSec' >= 1
    BY <1>0, <2>1 DEF ManagerSeconds
  <2> QED  BY <2>1, <2>2, <2>3 DEF ManagerSeconds, InSlotLoop
<1>8. CASE SmEnter
  <2>1. PICK c \in mSec .. now : curIndex = READ_TIME_INDEX(c)
    BY <1>0, <1>8 DEF ManagerSeconds, SmEnter
  <2>2. mSec < now /\ c \in (mSec + 1) .. now
    BY <1>0, <1>8, <2>1 DEF ManagerSeconds, SmEnter
  <2> QED  BY <1>0, <1>8, <2>1, <2>2 DEF ManagerSeconds, InSlotLoop, SmEnter
<1>9. CASE SmTakeSlot \/ SmPacket \/ SmLeaveSlot
  <2>1. /\ mpc \in {"slots", "packets"} /\ mpc' \in {"slots", "packets"}
        /\ UNCHANGED <<now, mSec, lastIndex, curIndex>>
    BY <1>9 DEF SmTakeSlot, SmPacket, SmLeaveSlot
  <2> QED  BY <1>0, <2>1 DEF ManagerSeconds, InSlotLoop
<1>10. CASE SmNext
  <2>1. /\ mSec < now /\ mSec >= 1 /\ now - mSec <= MaxReadLag
        /\ lastIndex = READ_TIME_INDEX(mSec)
        /\ \E c \in (mSec + 1) .. now : curIndex = READ_TIME_INDEX(c)
    BY <1>0, <1>10 DEF ManagerSeconds, InSlotLoop, SmNext
  <2> DEFINE t == mSec + 1
  <2>2. /\ mSec' = t /\ lastIndex' = READ_TIME_INDEX(t)
        /\ now' = now /\ curIndex' = curIndex /\ mpc' \in {"drain", "eod"}
    BY <1>0, <2>1, <1>10, ReadNextIsSucc DEF SmNext
  <2>3. t \in Nat /\ t >= 1 /\ t <= now /\ now - t <= MaxReadLag
    BY <1>0, <2>1, RingClockAssumption
  <2>4. \E c \in t .. now : curIndex = READ_TIME_INDEX(c)
    BY <2>1
  <2> QED  BY <2>2, <2>3, <2>4 DEF ManagerSeconds, InSlotLoop
<1> QED  BY <1>1, <1>2, <1>3, <1>4, <1>5, <1>6, <1>7, <1>8, <1>9, <1>10
         DEF SmRingNext, SmStep, RouterClock, RouterPush, smVars, smRingVars

\* While it sleeps, the manager does not fall further behind than the sleep
\* and its lag: one second more, and it would be out of its lap.
LEMMA AsleepInLap ==
  ASSUME SmInv, SmTick, mpc = "asleep"
  PROVE  now + 1 - mSec <= SleepSec + MaxReadLag
<1>1. /\ now \in Nat /\ mSec \in Nat /\ mSec <= now /\ wakeAt \in Nat
      /\ wakeAt - SleepSec <= mSec + MaxReadLag
      /\ now - mSec <= SleepSec + MaxReadLag
  BY DEF SmInv, SmTypeOK, ManagerSeconds, ManagerSleeps
<1>2. /\ SleepSec \in Nat /\ MaxReadLag \in Nat /\ MaxReadLag <= TIME_INDEX - 2
  BY SmRingAssumption, RingClockAssumption, SchedulingAssumption
<1>3. CASE now + 1 <= wakeAt
  BY <1>1, <1>2, <1>3
<1>4. CASE Behind(now + 1) <= MaxReadLag
  <2> SUFFICES ASSUME now + 1 - mSec > SleepSec + MaxReadLag PROVE FALSE
    BY <1>1, <1>2
  <2> DEFINE x == MaxReadLag + 1
  <2>1. (now + 1) - mSec = x + SleepSec
    BY <1>1, <1>2
  <2>2. x \in 0 .. (TIME_INDEX - 1) /\ x \in Nat /\ ~ (x <= MaxReadLag)
    BY <1>2, TimeIndexAssumption
  <2> HIDE DEF x
  <2>3. (x + SleepSec) % TIME_INDEX = x
    BY <1>2, <2>2, LapSize, SleepAssumption, WholeLaps, SmallMod
  <2>4. Behind(now + 1) = x
    BY <2>1, <2>3 DEF Behind
  <2> QED  BY <1>4, <2>2, <2>4
<1> QED  BY <1>3, <1>4 DEF SmTick

LEMMA ManagerSleepsStep ==
  SmInv /\ [SmRingNext]_smRingVars => ManagerSleeps'
<1> SUFFICES ASSUME SmInv, [SmRingNext]_smRingVars PROVE ManagerSleeps'
  OBVIOUS
<1>0. /\ ManagerSleeps /\ ManagerSeconds
      /\ mSec \in Nat /\ now \in Nat /\ left \in Nat /\ wakeAt \in Nat
      /\ slept \in Nat /\ woke \in Nat
  BY SmRingAssumption DEF SmInv, SmTypeOK
<1>a. SleepSec \in Nat \ {0} /\ EodSec \in Nat /\ MaxReadLag \in Nat
  BY SmRingAssumption, RingClockAssumption
<1>1. CASE SmTick
  <2>1. mpc = "asleep" => now + 1 - mSec <= SleepSec + MaxReadLag
    BY <1>1, AsleepInLap
  <2>2. now' = now + 1 /\ UNCHANGED <<mpc, left, slept, woke, wakeAt, mSec>>
    BY <1>1 DEF SmTick, smVars
  <2> QED  BY <1>0, <1>a, <2>1, <2>2 DEF ManagerSleeps
<1>2. CASE UNCHANGED <<now, mpc, left, slept, woke, wakeAt, mSec>>
  BY <1>0, <1>2 DEF ManagerSleeps
<1>3. CASE SmPoll \/ SmEnter \/ SmEodPoll
  BY <1>0, <1>3 DEF ManagerSleeps, SmPoll, SmEnter, SmEodPoll
<1>4. CASE SmDrained
  <2>1. now = EodSec => slept = 0
    BY <1>0, <1>a, <1>4 DEF ManagerSleeps, SmDrained
  <2> QED  BY <1>0, <1>a, <1>4, <2>1 DEF ManagerSleeps, SmDrained
<1>5. CASE SmSleep
  <2>1. /\ now >= EodSec /\ slept = 0 /\ woke = 0 /\ mSec >= 1 /\ mSec <= now
        /\ now - mSec <= MaxReadLag
    BY <1>0, <1>5 DEF ManagerSleeps, ManagerSeconds, SmSleep
  <2>2. /\ mpc' = "asleep" /\ wakeAt' = now + SleepSec /\ slept' = mSec
        /\ left' = 0 /\ UNCHANGED <<now, mSec, woke>>
    BY <1>5 DEF SmSleep
  <2> QED  BY <1>0, <1>a, <2>1, <2>2 DEF ManagerSleeps
<1>6. CASE SmWake
  <2>1. slept = mSec /\ mSec >= 1 /\ now > EodSec /\ left = 0
    BY <1>0, <1>6, WakeSecond DEF ManagerSeconds, ManagerSleeps, SmWake
  <2>2. mpc' = "poll" /\ woke' = now /\ UNCHANGED <<now, left, slept>>
    BY <1>6 DEF SmWake
  <2> QED  BY <1>0, <1>a, <2>1, <2>2 DEF ManagerSleeps
<1>7. CASE SmTakeSlot \/ SmPacket \/ SmLeaveSlot
  <2>1. /\ mpc \in {"slots", "packets"} /\ mpc' \in {"slots", "packets"}
        /\ UNCHANGED <<now, left, slept, woke, wakeAt, mSec>>
    BY <1>7 DEF SmTakeSlot, SmPacket, SmLeaveSlot
  <2> QED  BY <1>0, <2>1 DEF ManagerSleeps
<1>8. CASE SmNext
  <2>1. /\ mpc = "slots" /\ UNCHANGED <<now, slept, woke>>
        /\ \/ left > 0 /\ left' = left - 1 /\ mpc' = "eod"
           \/ left = 0 /\ left' = 0 /\ mpc' = "drain"
    BY <1>0, <1>8 DEF SmNext
  <2> QED  BY <1>0, <2>1 DEF ManagerSleeps
<1> QED  BY <1>1, <1>2, <1>3, <1>4, <1>5, <1>6, <1>7, <1>8
         DEF SmRingNext, SmStep, RouterClock, RouterPush, smVars, smRingVars

LEMMA HandSecondsStep ==
  SmInv /\ [SmRingNext]_smRingVars => HandSeconds'
<1> SUFFICES ASSUME SmInv, [SmRingNext]_smRingVars, NEW q \in SmRouter
             PROVE  InHand(q)'
  BY DEF HandSeconds
<1>0. /\ InHand(q) /\ now \in Nat /\ sec \in [TcpPacket -> Nat]
      /\ rPkt \in [SmRouter -> TcpPacket \cup {NoTcpPacket}]
      /\ rIdx \in [SmRouter -> Slots] /\ NoTcpPacket \notin TcpPacket
  BY SmRingAssumption DEF SmInv, SmTypeOK, HandSeconds
<1>a. MaxWriteDelay \in Nat
  BY RingClockAssumption
<1>1. CASE SmTick
  <2>1. UNCHANGED <<rPkt, rIdx, sec>> /\ now' = now + 1
    BY <1>1 DEF SmTick, routerVars
  <2>2. rPkt[q] # NoTcpPacket => now + 1 <= sec[rPkt[q]] + MaxWriteDelay
    BY <1>1 DEF SmTick
  <2> QED  BY <1>0, <2>1, <2>2 DEF InHand
<1>2. ASSUME NEW r \in SmRouter, RouterClock(r) PROVE InHand(q)'
  <2>1. PICK p \in TcpPacket :
          /\ sec[p] = 0
          /\ rPkt' = [rPkt EXCEPT ![r] = p]
          /\ sec' = [sec EXCEPT ![p] = now]
    BY <1>2 DEF RouterClock
  <2>2. now' = now /\ rIdx' = [rIdx EXCEPT ![r] = PKT_WRITE_TIME_INDEX(now)]
    BY <1>2 DEF RouterClock
  <2>3. CASE q = r
    <3>1. now >= 1
      BY <1>0 DEF SmInv, ManagerSeconds, SmTypeOK
    <3> QED  BY <1>0, <1>a, <2>1, <2>2, <2>3, <3>1 DEF InHand
  <2>4. CASE q # r
    <3>1. rPkt'[q] = rPkt[q] /\ rIdx'[q] = rIdx[q]
      BY <1>0, <2>1, <2>2, <2>4
    <3>2. rPkt[q] # NoTcpPacket => rPkt[q] # p /\ sec'[rPkt[q]] = sec[rPkt[q]]
      BY <1>0, <2>1 DEF InHand
    <3> QED  BY <1>0, <2>2, <3>1, <3>2 DEF InHand
  <2> QED  BY <2>3, <2>4
<1>3. ASSUME NEW r \in SmRouter, RouterPush(r) PROVE InHand(q)'
  <2>1. /\ UNCHANGED <<now, rIdx, sec>>
        /\ rPkt' = [rPkt EXCEPT ![r] = NoTcpPacket]
    BY <1>3 DEF RouterPush
  <2> QED  BY <1>0, <2>1 DEF InHand
<1>4. CASE UNCHANGED <<now, rPkt, rIdx, sec>>
  BY <1>0, <1>4 DEF InHand
<1> QED
  BY <1>1, <1>2, <1>3, <1>4
  DEF SmRingNext, SmStep, routerVars, smRingVars, SmPoll, SmDrained, SmEodPoll,
      SmSleep, SmWake, SmEnter, SmTakeSlot, SmPacket, SmLeaveSlot, SmNext

-----------------------------------------------------------------------------
\* What a push does to the slots: the packet leaves the router's hand.
LEMMA PushMoves ==
  ASSUME SmInv, NEW r \in SmRouter, RouterPush(r)
  PROVE  /\ rPkt[r] \in TcpPacket /\ rIdx[r] \in Slots
         /\ rPkt' = [rPkt EXCEPT ![r] = NoTcpPacket]
         /\ \A q \in SmRouter : \A i \in Slots : \A x \in TcpPacket :
              x \in smStore'[q][i] <=>
                x \in smStore[q][i] \/ (q = r /\ i = rIdx[r] /\ x = rPkt[r])
         /\ UNCHANGED <<now, smBusy, rIdx, sec, refused, smVars>>
<1>1. /\ rPkt[r] # NoTcpPacket /\ rPkt' = [rPkt EXCEPT ![r] = NoTcpPacket]
      /\ UNCHANGED <<now, smBusy, rIdx, sec, smVars>>
  BY DEF RouterPush
<1>2. smBusy[r][rIdx[r]] = FALSE
  BY <1>1, NeverBusy DEF SmInv, SmTypeOK
<1>3. /\ refused' = refused
      /\ smStore' = [smStore EXCEPT ![r][rIdx[r]] = smStore[r][rIdx[r]] \cup {rPkt[r]}]
  BY <1>2 DEF RouterPush
<1>4. /\ smStore \in [SmRouter -> [Slots -> SUBSET TcpPacket]]
      /\ rPkt[r] \in TcpPacket /\ rIdx[r] \in Slots
  BY <1>1 DEF SmInv, SmTypeOK
<1>5. ASSUME NEW q \in SmRouter, NEW i \in Slots, NEW x \in TcpPacket
      PROVE  x \in smStore'[q][i] <=>
               x \in smStore[q][i] \/ (q = r /\ i = rIdx[r] /\ x = rPkt[r])
  <2>1. smStore'[q][i] = IF q = r /\ i = rIdx[r]
                         THEN smStore[r][rIdx[r]] \cup {rPkt[r]}
                         ELSE smStore[q][i]
    BY <1>3, <1>4
  <2> QED  BY <2>1
<1> QED  BY <1>1, <1>3, <1>4, <1>5

\* What taking a packet does: it leaves the slot and joins the processed.
LEMMA PacketMoves ==
  ASSUME SmInv, SmPacket
  PROVE  \E p \in smStore[turn][lastIndex] :
           /\ p \in TcpPacket /\ turn \in SmRouter /\ lastIndex \in Slots
           /\ \A q \in SmRouter : \A i \in Slots : \A x \in TcpPacket :
                x \in smStore'[q][i] <=>
                  x \in smStore[q][i] /\ ~ (q = turn /\ i = lastIndex /\ x = p)
           /\ DOMAIN processed' = 1 .. (Len(processed) + 1)
           /\ DOMAIN processed = 1 .. Len(processed) /\ Len(processed) \in Nat
           /\ \A k \in DOMAIN processed : processed'[k] = processed[k]
           /\ processed'[Len(processed) + 1] = p
<1>1. PICK p \in smStore[turn][lastIndex] :
        /\ processed' = Append(processed, p)
        /\ smStore' = [smStore EXCEPT ![turn][lastIndex]
                         = smStore[turn][lastIndex] \ {p}]
  BY DEF SmPacket
<1>2. turn \in SmRouter /\ lastIndex \in Slots
  BY SmRingAssumption DEF SmInv, SmTypeOK, SlotsBehind, SmPacket, SmRouter
<1>3. /\ smStore \in [SmRouter -> [Slots -> SUBSET TcpPacket]]
      /\ processed \in Seq(TcpPacket)
  BY DEF SmInv, SmTypeOK
<1>4. p \in TcpPacket
  BY <1>2, <1>3
<1>5. ASSUME NEW q \in SmRouter, NEW i \in Slots, NEW x \in TcpPacket
      PROVE  x \in smStore'[q][i] <=>
               x \in smStore[q][i] /\ ~ (q = turn /\ i = lastIndex /\ x = p)
  BY <1>1, <1>2, <1>3
<1>6. /\ DOMAIN processed' = 1 .. (Len(processed) + 1)
      /\ DOMAIN processed = 1 .. Len(processed) /\ Len(processed) \in Nat
      /\ \A k \in DOMAIN processed : processed'[k] = processed[k]
      /\ processed'[Len(processed) + 1] = p
  BY <1>1, <1>3, <1>4
<1> QED  BY <1>2, <1>4, <1>5, <1>6

\* A packet that is stamped is new.
LEMMA ClockStampsNew ==
  ASSUME SmInv, NEW r \in SmRouter, RouterClock(r)
  PROVE  \E p \in TcpPacket :
           /\ ~ AtRouter(p) /\ ~ Stored(p) /\ ~ Processed(p)
           /\ rPkt[r] = NoTcpPacket /\ rPkt' = [rPkt EXCEPT ![r] = p]
           /\ sec[p] = 0 /\ sec' = [sec EXCEPT ![p] = now]
           /\ UNCHANGED <<now, ringVars, smVars>>
BY DEF SmInv, OnePlace, OnePlaceEach, RouterClock

LEMMA OnePlaceStep == SmInv /\ [SmRingNext]_smRingVars => OnePlace'
<1> SUFFICES ASSUME SmInv, [SmRingNext]_smRingVars PROVE OnePlace'
  OBVIOUS
<1>0. /\ OneHand /\ OneProcessing /\ OnePlaceEach /\ OneSlot
      /\ now >= 1 /\ now \in Nat
      /\ rPkt \in [SmRouter -> TcpPacket \cup {NoTcpPacket}]
      /\ sec \in [TcpPacket -> Nat] /\ NoTcpPacket \notin TcpPacket
  BY SmRingAssumption DEF SmInv, OnePlace, SmTypeOK, ManagerSeconds
<1>1. ASSUME NEW r \in SmRouter, RouterClock(r) PROVE OnePlace'
  <2>1. PICK p \in TcpPacket :
          /\ ~ AtRouter(p) /\ ~ Stored(p) /\ ~ Processed(p)
          /\ rPkt[r] = NoTcpPacket /\ rPkt' = [rPkt EXCEPT ![r] = p]
          /\ sec[p] = 0 /\ sec' = [sec EXCEPT ![p] = now]
          /\ UNCHANGED <<now, ringVars, smVars>>
    BY <1>1, ClockStampsNew
  <2>2. UNCHANGED <<smStore, processed>>
    BY <2>1 DEF ringVars, smVars
  <2>3. ASSUME NEW x \in TcpPacket
        PROVE  /\ AtRouter(x)' <=> AtRouter(x) \/ x = p
               /\ Stored(x)' <=> Stored(x)
               /\ Processed(x)' <=> Processed(x)
               /\ sec'[x] # 0 <=> sec[x] # 0 \/ x = p
    <3>1. AtRouter(x)' <=> AtRouter(x) \/ x = p
      BY <1>0, <2>1 DEF AtRouter
    <3>2. (Stored(x)' <=> Stored(x)) /\ (Processed(x)' <=> Processed(x))
      BY <2>2 DEF Stored, Processed
    <3>3. sec'[x] # 0 <=> sec[x] # 0 \/ x = p
      BY <1>0, <2>1
    <3> QED  BY <3>1, <3>2, <3>3
  <2>4. OneHand'
    BY <1>0, <2>1 DEF OneHand, AtRouter
  <2>5. OneProcessing' /\ OneSlot'
    BY <1>0, <2>2 DEF OneProcessing, OneSlot
  <2>6. OnePlaceEach'
    BY <1>0, <2>1, <2>3 DEF OnePlaceEach
  <2> QED  BY <2>4, <2>5, <2>6 DEF OnePlace
<1>2. ASSUME NEW r \in SmRouter, RouterPush(r) PROVE OnePlace'
  <2> DEFINE p == rPkt[r]
             j == rIdx[r]
  <2>1. /\ p \in TcpPacket /\ j \in Slots
        /\ rPkt' = [rPkt EXCEPT ![r] = NoTcpPacket]
        /\ \A q \in SmRouter : \A i \in Slots : \A x \in TcpPacket :
             x \in smStore'[q][i] <=>
               x \in smStore[q][i] \/ (q = r /\ i = j /\ x = p)
    BY <1>2, PushMoves
  <2>2. UNCHANGED <<sec, processed>>
    BY <1>2, PushMoves DEF smVars
  <2>3. AtRouter(p) /\ ~ Stored(p) /\ ~ Processed(p)
    BY <1>0, <2>1 DEF AtRouter, OnePlaceEach
  <2>b. rPkt[r] = p
    OBVIOUS
  <2> HIDE DEF p, j
  <2>4. ASSUME NEW x \in TcpPacket
        PROVE  /\ AtRouter(x)' <=> AtRouter(x) /\ x # p
               /\ Stored(x)' <=> Stored(x) \/ x = p
               /\ Processed(x)' <=> Processed(x)
    <3>1. AtRouter(x)' <=> AtRouter(x) /\ x # p
      BY <1>0, <2>1, <2>b DEF AtRouter, OneHand
    <3>a. p \in smStore'[r][j]
      BY <2>1
    <3>b. Stored(x)' => Stored(x) \/ x = p
      BY <2>1 DEF Stored
    <3>c. Stored(x) => Stored(x)'
      BY <2>1 DEF Stored
    <3>2. Stored(x)' <=> Stored(x) \/ x = p
      BY <2>1, <3>a, <3>b, <3>c DEF Stored
    <3>3. Processed(x)' <=> Processed(x)
      BY <2>2 DEF Processed
    <3> QED  BY <3>1, <3>2, <3>3
  <2>5. OneHand'
    BY <1>0, <2>1 DEF OneHand
  <2>6. OneProcessing'
    BY <1>0, <2>2 DEF OneProcessing
  <2>7. OneSlot'
    BY <1>0, <2>1, <2>3 DEF OneSlot, Stored
  <2>8. OnePlaceEach'
    BY <1>0, <2>2, <2>3, <2>4 DEF OnePlaceEach
  <2> QED  BY <2>5, <2>6, <2>7, <2>8 DEF OnePlace
<1>3. CASE SmPacket
  <2> DEFINE L == Len(processed) + 1
  <2>1. PICK p \in smStore[turn][lastIndex] :
          /\ p \in TcpPacket /\ turn \in SmRouter /\ lastIndex \in Slots
          /\ \A q \in SmRouter : \A i \in Slots : \A x \in TcpPacket :
               x \in smStore'[q][i] <=>
                 x \in smStore[q][i] /\ ~ (q = turn /\ i = lastIndex /\ x = p)
          /\ DOMAIN processed' = 1 .. (Len(processed) + 1)
          /\ DOMAIN processed = 1 .. Len(processed) /\ Len(processed) \in Nat
          /\ \A k \in DOMAIN processed : processed'[k] = processed[k]
          /\ processed'[Len(processed) + 1] = p
    BY <1>3, PacketMoves
  <2>2. UNCHANGED <<rPkt, sec>>
    BY <1>3 DEF SmPacket, routerVars
  <2>3. Stored(p) /\ ~ AtRouter(p) /\ ~ Processed(p)
    BY <1>0, <2>1 DEF Stored, OnePlaceEach
  <2>a. DOMAIN processed' = DOMAIN processed \cup {L} /\ processed'[L] = p
    BY <2>1
  <2> HIDE DEF L
  <2>4. ASSUME NEW x \in TcpPacket
        PROVE  /\ AtRouter(x)' <=> AtRouter(x)
               /\ Stored(x)' <=> Stored(x) /\ x # p
               /\ Processed(x)' <=> Processed(x) \/ x = p
    <3>1. AtRouter(x)' <=> AtRouter(x)
      BY <2>2 DEF AtRouter
    <3>2. Stored(x)' <=> Stored(x) /\ x # p
      BY <1>0, <2>1 DEF Stored, OneSlot
    <3>3. Processed(x)' <=> Processed(x) \/ x = p
      BY <2>1, <2>a DEF Processed
    <3> QED  BY <3>1, <3>2, <3>3
  <2>5. OneHand'
    BY <1>0, <2>2 DEF OneHand
  <2>6. OneProcessing'
    BY <1>0, <2>1, <2>a, <2>3 DEF OneProcessing, Processed
  <2>7. OneSlot'
    BY <1>0, <2>1 DEF OneSlot
  <2>8. OnePlaceEach'
    BY <1>0, <2>2, <2>3, <2>4 DEF OnePlaceEach
  <2> QED  BY <2>5, <2>6, <2>7, <2>8 DEF OnePlace
<1>4. CASE UNCHANGED <<smStore, rPkt, processed, sec>>
  BY <1>0, <1>4
  DEF OnePlace, OneHand, OneProcessing, OnePlaceEach, OneSlot, AtRouter, Stored, Processed
<1> QED
  BY <1>1, <1>2, <1>3, <1>4
  DEF SmRingNext, SmStep, ringVars, routerVars, smVars, smRingVars, SmTick, SmPoll,
      SmDrained, SmEodPoll, SmSleep, SmWake, SmEnter, SmTakeSlot, SmLeaveSlot, SmNext

-----------------------------------------------------------------------------
\* A packet in the slot that the manager has come to is of a second it has
\* not worked off yet, and of no later one.
LEMMA AtLastIndex ==
  ASSUME SmInv, mpc # "asleep", NEW r \in SmRouter, NEW p \in TcpPacket,
         p \in smStore[r][lastIndex]
  PROVE  sec[p] + 1 <= mSec
<1> DEFINE t == sec[p] + 1
<1>1. /\ sec[p] \in Nat /\ t \in Nat /\ mSec \in Nat /\ now \in Nat
      /\ lastIndex \in Slots
  BY DEF SmInv, SmTypeOK
<1>2. lastIndex = PKT_WRITE_TIME_INDEX(sec[p]) /\ sec[p] <= now
  BY <1>1 DEF SmInv, SlotSeconds, SlotSecond
<1>3. now - mSec <= MaxReadLag /\ lastIndex = READ_TIME_INDEX(mSec)
  BY DEF SmInv, ManagerSeconds
<1>4. READ_TIME_INDEX(t) = READ_TIME_INDEX(mSec)
  BY <1>1, <1>2, <1>3, WriteIsSucc
<1> SUFFICES ASSUME mSec < t PROVE FALSE
  BY <1>1
<1>5. t - mSec < TIME_INDEX
  BY <1>1, <1>2, <1>3, RingClockAssumption, SchedulingAssumption, TimeIndexAssumption
<1> HIDE DEF t
<1> QED  BY <1>1, <1>4, <1>5, SlotsOfALapDiffer

\* What the manager would pass by if it went on is in the slot at hand.
LEMMA DueIsAtLastIndex ==
  ASSUME SmInv, NEW r \in SmRouter, NEW i \in Slots, NEW p \in TcpPacket,
         p \in smStore[r][i],
         \/ sec[p] + 1 = mSec
         \/ sec[p] + 1 + SleepSec = mSec
  PROVE  i = lastIndex
<1> DEFINE t == sec[p] + 1
<1>1. sec[p] \in Nat /\ t \in Nat /\ mSec \in Nat
  BY DEF SmInv, SmTypeOK
<1>2. i = PKT_WRITE_TIME_INDEX(sec[p]) /\ lastIndex = READ_TIME_INDEX(mSec)
  BY DEF SmInv, SlotSeconds, SlotSecond, ManagerSeconds
<1>3. i = READ_TIME_INDEX(t)
  BY <1>1, <1>2, WriteIsSucc
<1>4. READ_TIME_INDEX(t + SleepSec) = READ_TIME_INDEX(t)
  BY <1>1, SleepKeepsSlot
<1>5. mSec = t \/ mSec = t + SleepSec
  BY <1>1, SmRingAssumption
<1> QED  BY <1>2, <1>3, <1>4, <1>5

\* Whoever sleeps has everything still to come that is in the slots.
LEMMA AsleepAhead ==
  ASSUME SmInv, mpc = "asleep", NEW r \in SmRouter, NEW i \in Slots,
         NEW p \in TcpPacket, p \in smStore[r][i]
  PROVE  sec[p] + 1 >= mSec /\ InPause(p)
<1>1. slept = mSec /\ slept # 0 /\ woke = 0 /\ mSec \in Nat /\ sec[p] \in Nat
  BY DEF SmInv, ManagerSleeps, SmTypeOK
<1>2. SlotSecond(i, p)
  BY DEF SmInv, SlotSeconds
<1> QED  BY <1>1, <1>2 DEF SlotSecond, InPause

LEMMA SlotSecondsStep == SmInv /\ [SmRingNext]_smRingVars => SlotSeconds'
<1> SUFFICES ASSUME SmInv, [SmRingNext]_smRingVars, NEW r \in SmRouter,
                    NEW i \in Slots, NEW p \in TcpPacket, p \in smStore'[r][i]
             PROVE  SlotSecond(i, p)'
  BY DEF SlotSeconds
<1>0. /\ sec \in [TcpPacket -> Nat] /\ sec[p] \in Nat /\ mSec \in Nat
      /\ now \in Nat /\ slept \in Nat /\ woke \in Nat
      /\ p \in smStore[r][i] => SlotSecond(i, p)
      /\ mSec >= 1 /\ mSec <= now
  BY DEF SmInv, SmTypeOK, SlotSeconds, ManagerSeconds
<1>a. SleepSec \in Nat \ {0} /\ MaxWriteDelay \in Nat /\ MaxWriteDelay <= 1
  BY SmRingAssumption, RingClockAssumption, SchedulingAssumption
<1>1. CASE SmTick
  <2>1. now' = now + 1 /\ UNCHANGED <<smStore, sec, mSec, slept, woke>>
    BY <1>1 DEF SmTick, ringVars, routerVars, smVars
  <2> QED  BY <1>0, <2>1 DEF SlotSecond, InPause
<1>2. ASSUME NEW q \in SmRouter, RouterClock(q) PROVE SlotSecond(i, p)'
  <2>1. PICK x \in TcpPacket :
          /\ ~ Stored(x) /\ sec' = [sec EXCEPT ![x] = now]
          /\ UNCHANGED <<now, ringVars, smVars>>
    BY <1>2, ClockStampsNew
  <2>2. UNCHANGED <<now, smStore, mSec, slept, woke>>
    BY <2>1 DEF ringVars, smVars
  <2>3. p # x
    BY <2>1, <2>2 DEF Stored
  <2>4. sec'[p] = sec[p]
    BY <1>0, <2>1, <2>3
  <2> QED  BY <1>0, <2>2, <2>4 DEF SlotSecond, InPause
<1>3. ASSUME NEW q \in SmRouter, RouterPush(q) PROVE SlotSecond(i, p)'
  <2>1. UNCHANGED <<now, sec, mSec, slept, woke>>
    BY <1>3, PushMoves DEF smVars
  <2>2. CASE p \in smStore[r][i]
    BY <1>0, <2>1, <2>2 DEF SlotSecond, InPause
  <2>3. CASE p \notin smStore[r][i]
    <3>1. r = q /\ i = rIdx[q] /\ p = rPkt[q] /\ rPkt[q] # NoTcpPacket
      <4>1. \A y \in SmRouter : \A j \in Slots : \A x \in TcpPacket :
              x \in smStore'[y][j] <=>
                x \in smStore[y][j] \/ (y = q /\ j = rIdx[q] /\ x = rPkt[q])
        BY <1>3, PushMoves
      <4>2. rPkt[q] # NoTcpPacket
        BY <1>3 DEF RouterPush
      <4> QED  BY <2>3, <4>1, <4>2
    <3>2. sec[p] <= now /\ now <= sec[p] + MaxWriteDelay /\ i = PKT_WRITE_TIME_INDEX(sec[p])
      BY <3>1 DEF SmInv, HandSeconds, InHand
    <3>3. sec[p] + 1 >= mSec
      BY <1>0, <1>a, <3>2
    <3> QED  BY <2>1, <3>2, <3>3 DEF SlotSecond
  <2> QED  BY <2>2, <2>3
<1>4. CASE SmPacket
  <2>1. p \in smStore[r][i]
    BY <1>4, PacketMoves
  <2>2. UNCHANGED <<now, sec, mSec, slept, woke>>
    BY <1>4 DEF SmPacket, routerVars
  <2> QED  BY <1>0, <2>1, <2>2 DEF SlotSecond, InPause
<1>5. CASE SmSleep
  <2>1. /\ slept' = mSec /\ UNCHANGED <<now, smStore, sec, mSec, woke>>
        /\ mpc = "eod"
    BY <1>5 DEF SmSleep, ringVars, routerVars
  <2>2. slept = 0
    BY <2>1 DEF SmInv, ManagerSleeps
  <2> QED  BY <1>0, <2>1, <2>2 DEF SlotSecond, InPause
<1>6. CASE SmWake
  <2>1. mSec' = mSec + SleepSec /\ mSec' <= now /\ slept = mSec /\ woke = 0
    BY <1>6, WakeSecond
  <2>2. woke' = now /\ UNCHANGED <<now, smStore, sec, slept>> /\ mpc = "asleep"
    BY <1>6 DEF SmWake, ringVars, routerVars
  <2>3. sec[p] + 1 >= mSec
    BY <2>2, AsleepAhead
  <2>4. i = PKT_WRITE_TIME_INDEX(sec[p]) /\ sec[p] <= now
    BY <1>0, <2>2 DEF SlotSecond
  <2>5. CASE sec[p] = now
    BY <1>0, <1>a, <2>1, <2>2, <2>4, <2>5 DEF SlotSecond
  <2>6. CASE sec[p] < now
    BY <1>0, <1>a, <2>1, <2>2, <2>3, <2>4, <2>6 DEF SlotSecond, InPause
  <2> QED  BY <1>0, <2>4, <2>5, <2>6
<1>7. CASE SmNext
  <2>1. /\ mSec' = mSec + 1 /\ UNCHANGED <<now, smStore, sec, slept, woke>>
        /\ mpc = "slots" /\ turn = SmRouterCount
    BY <1>7 DEF SmNext, ringVars, routerVars
  <2>2. smStore[r][lastIndex] = {}
    BY <2>1, SmRingAssumption DEF SmInv, SlotsBehind, InSlotLoop, SmRouter
  <2>3. i # lastIndex
    BY <2>1, <2>2
  <2>4. sec[p] + 1 # mSec /\ sec[p] + 1 + SleepSec # mSec
    BY <2>1, <2>3, DueIsAtLastIndex
  <2> QED  BY <1>0, <1>a, <2>1, <2>4 DEF SlotSecond, InPause
<1>8. CASE UNCHANGED <<now, smStore, sec, mSec, slept, woke>>
  BY <1>0, <1>8 DEF SlotSecond, InPause
<1> QED
  BY <1>1, <1>2, <1>3, <1>4, <1>5, <1>6, <1>7, <1>8
  DEF SmRingNext, SmStep, ringVars, routerVars, smVars, smRingVars, SmPoll,
      SmDrained, SmEodPoll, SmEnter, SmTakeSlot, SmLeaveSlot

LEMMA SlotsBehindStep == SmInv /\ [SmRingNext]_smRingVars => SlotsBehind'
<1> SUFFICES ASSUME SmInv, [SmRingNext]_smRingVars PROVE SlotsBehind'
  OBVIOUS
<1>0. /\ SlotsBehind /\ turn \in 0 .. SmRouterCount /\ SmRouterCount \in Nat
      /\ lastIndex \in Slots
      /\ smBusy \in [SmRouter -> [Slots -> BOOLEAN]]
      /\ smStore \in [SmRouter -> [Slots -> SUBSET TcpPacket]]
  BY SmRingAssumption DEF SmInv, SmTypeOK
<1>1. CASE UNCHANGED <<ringVars, refused, mpc, lastIndex, turn>>
  BY <1>0, <1>1 DEF SlotsBehind, InSlotLoop, ringVars
<1>2. ASSUME NEW r \in SmRouter, RouterPush(r) PROVE SlotsBehind'
  <2>1. UNCHANGED <<smBusy, refused, mpc, lastIndex, turn>>
    BY <1>2, PushMoves DEF smVars
  <2>2. rPkt[r] # NoTcpPacket /\ rIdx[r] \in Slots
        /\ smStore' = [smStore EXCEPT ![r][rIdx[r]] = smStore[r][rIdx[r]] \cup {rPkt[r]}]
    BY <1>2, NeverBusy DEF RouterPush, SmInv, SmTypeOK
  <2>3. InSlotLoop => rIdx[r] # lastIndex
    BY <2>2, SmSlotsDiffer
  <2>4. InSlotLoop => \A q \in SmRouter : smStore'[q][lastIndex] = smStore[q][lastIndex]
    BY <1>0, <2>2, <2>3
  <2> QED  BY <1>0, <2>1, <2>4 DEF SlotsBehind, InSlotLoop
<1>3. CASE SmPoll \/ SmDrained \/ SmSleep \/ SmWake \/ SmNext
  <2>1. /\ mpc # "packets" /\ mpc' \notin {"slots", "packets"}
        /\ UNCHANGED <<smBusy, refused>>
    BY <1>3 DEF SmPoll, SmDrained, SmSleep, SmWake, SmNext, ringVars, routerVars
  <2> QED  BY <1>0, <2>1 DEF SlotsBehind, InSlotLoop
<1>4. CASE SmEodPoll \/ SmEnter
  <2>1. /\ mpc # "packets" /\ mpc' # "packets" /\ turn' = 0
        /\ UNCHANGED <<smBusy, refused>>
    BY <1>4 DEF SmEodPoll, SmEnter, ringVars, routerVars
  <2>2. \A r \in SmRouter : ~ (r < 0)
    BY <1>0 DEF SmRouter
  <2> QED  BY <1>0, <2>1, <2>2 DEF SlotsBehind, InSlotLoop
<1>5. CASE SmTakeSlot
  <2>1. /\ mpc = "slots" /\ turn < SmRouterCount /\ turn \in SmRouter
        /\ UNCHANGED <<smStore, refused, lastIndex>>
    BY <1>0, <1>5 DEF SmTakeSlot, routerVars, SmRouter
  <2>2. CASE smStore[turn][lastIndex] = {}
    <3>1. turn' = turn + 1 /\ UNCHANGED <<mpc, smBusy>>
      BY <1>5, <2>2 DEF SmTakeSlot
    <3>2. \A r \in SmRouter : r < turn + 1 => r < turn \/ r = turn
      BY <1>0 DEF SmRouter
    <3> QED  BY <1>0, <2>1, <2>2, <3>1, <3>2 DEF SlotsBehind, InSlotLoop
  <2>3. CASE smStore[turn][lastIndex] # {}
    <3>1. /\ mpc' = "packets" /\ turn' = turn
          /\ smBusy' = [smBusy EXCEPT ![turn][lastIndex] = TRUE]
      BY <1>5, <2>3 DEF SmTakeSlot
    <3>2. \A r \in SmRouter : \A i \in Slots :
            smBusy'[r][i] = TRUE => r = turn /\ i = lastIndex
      BY <1>0, <2>1, <3>1 DEF SlotsBehind
    <3> QED  BY <1>0, <2>1, <3>1, <3>2 DEF SlotsBehind, InSlotLoop
  <2> QED  BY <2>2, <2>3
<1>6. CASE SmPacket
  <2>1. UNCHANGED <<smBusy, refused, mpc, lastIndex, turn>> /\ mpc = "packets"
    BY <1>6 DEF SmPacket, routerVars
  <2>2. PICK p \in TcpPacket :
          \A q \in SmRouter : \A i \in Slots : \A x \in TcpPacket :
            x \in smStore'[q][i] =>  x \in smStore[q][i]
    BY <1>6, PacketMoves
  <2>3. smStore' \in [SmRouter -> [Slots -> SUBSET TcpPacket]]
    BY SmTypeStep DEF SmTypeOK
  <2>4. ASSUME NEW q \in SmRouter, q < turn PROVE smStore'[q][lastIndex] = {}
    <3>1. smStore[q][lastIndex] = {}
      BY <1>0, <2>1, <2>4 DEF SlotsBehind, InSlotLoop
    <3>2. smStore'[q][lastIndex] \subseteq TcpPacket
      BY <1>0, <2>3
    <3> QED  BY <1>0, <2>2, <3>1, <3>2
  <2> QED  BY <1>0, <2>1, <2>4 DEF SlotsBehind, InSlotLoop
<1>7. CASE SmLeaveSlot
  <2>1. /\ mpc = "packets" /\ turn \in SmRouter /\ turn < SmRouterCount
        /\ smStore[turn][lastIndex] = {}
        /\ smBusy' = [smBusy EXCEPT ![turn][lastIndex] = FALSE]
        /\ turn' = turn + 1 /\ mpc' = "slots"
        /\ UNCHANGED <<smStore, refused, lastIndex>>
    BY <1>0, <1>7 DEF SmLeaveSlot, routerVars, SmRouter, SlotsBehind
  <2>2. \A r \in SmRouter : r < turn + 1 => r < turn \/ r = turn
    BY <1>0 DEF SmRouter
  <2>3. \A r \in SmRouter : \A i \in Slots : smBusy'[r][i] # TRUE
    BY <1>0, <2>1 DEF SlotsBehind
  <2> QED  BY <1>0, <2>1, <2>2, <2>3 DEF SlotsBehind, InSlotLoop
<1> QED
  BY <1>1, <1>2, <1>3, <1>4, <1>5, <1>6, <1>7
  DEF SmRingNext, SmStep, SmTick, RouterClock, routerVars, smVars, smRingVars

LEMMA ProcessedSecondsStep ==
  SmInv /\ [SmRingNext]_smRingVars => ProcessedSeconds'
<1> SUFFICES ASSUME SmInv, [SmRingNext]_smRingVars PROVE ProcessedSeconds'
  OBVIOUS
<1>0. /\ ProcessedSeconds /\ sec \in [TcpPacket -> Nat] /\ mSec \in Nat
      /\ now \in Nat /\ slept \in Nat /\ woke \in Nat /\ mSec <= now
      /\ processed \in Seq(TcpPacket)
      /\ \A k \in DOMAIN processed : processed[k] \in TcpPacket
  BY DEF SmInv, SmTypeOK, ManagerSeconds
<1>1. CASE UNCHANGED <<sec, processed, mSec, slept, woke>>
  BY <1>0, <1>1 DEF ProcessedSeconds, SecondsInOrder, InPause
<1>2. ASSUME NEW q \in SmRouter, RouterClock(q) PROVE ProcessedSeconds'
  <2>1. PICK x \in TcpPacket :
          /\ ~ Processed(x) /\ sec' = [sec EXCEPT ![x] = now]
          /\ UNCHANGED <<now, ringVars, smVars>>
    BY <1>2, ClockStampsNew
  <2>2. UNCHANGED <<processed, mSec, slept, woke>>
    BY <2>1 DEF smVars
  <2>3. \A k \in DOMAIN processed : sec'[processed[k]] = sec[processed[k]]
    BY <1>0, <2>1 DEF Processed
  <2> QED  BY <1>0, <2>2, <2>3 DEF ProcessedSeconds, SecondsInOrder, InPause
<1>3. CASE SmPacket
  <2> DEFINE L == Len(processed) + 1
  <2>1. PICK p \in smStore[turn][lastIndex] :
          /\ p \in TcpPacket /\ turn \in SmRouter /\ lastIndex \in Slots
          /\ DOMAIN processed' = 1 .. (Len(processed) + 1)
          /\ DOMAIN processed = 1 .. Len(processed) /\ Len(processed) \in Nat
          /\ \A k \in DOMAIN processed : processed'[k] = processed[k]
          /\ processed'[Len(processed) + 1] = p
    BY <1>3, PacketMoves
  <2>2. mpc = "packets" /\ UNCHANGED <<sec, mSec, slept, woke>>
    BY <1>3 DEF SmPacket, routerVars
  <2>3. sec[p] + 1 <= mSec
    BY <2>1, <2>2, AtLastIndex
  <2>4. ~ InPause(p) => sec[p] + 1 >= mSec
    BY <2>1 DEF SmInv, SlotSeconds, SlotSecond
  <2>5. /\ DOMAIN processed' = DOMAIN processed \cup {L} /\ processed'[L] = p
        /\ \A k \in DOMAIN processed : k \in Nat /\ k < L
        /\ L \in Nat
    BY <2>1
  <2> HIDE DEF L
  <2>6. \A k \in DOMAIN processed' : sec[processed'[k]] + 1 <= mSec
    BY <1>0, <2>1, <2>3, <2>5 DEF ProcessedSeconds
  <2>7. ASSUME NEW i \in DOMAIN processed', NEW j \in DOMAIN processed',
               i < j, ~ InPause(processed'[j])
        PROVE  sec[processed'[i]] <= sec[processed'[j]]
    <3>1. i \in DOMAIN processed
      BY <2>5, <2>7
    <3>2. CASE j = L
      BY <1>0, <2>1, <2>3, <2>4, <2>5, <2>7, <3>1, <3>2 DEF ProcessedSeconds
    <3>3. CASE j \in DOMAIN processed
      BY <1>0, <2>1, <2>7, <3>1, <3>3 DEF ProcessedSeconds, SecondsInOrder
    <3> QED  BY <2>5, <3>2, <3>3
  <2>8. \A x : InPause(x)' <=> InPause(x)
    BY <2>2 DEF InPause
  <2> QED  BY <2>2, <2>6, <2>7, <2>8 DEF ProcessedSeconds, SecondsInOrder
<1>4. CASE SmSleep
  <2>1. UNCHANGED <<sec, processed, mSec, woke>> /\ mpc = "eod"
    BY <1>4 DEF SmSleep, routerVars
  <2>2. slept = 0
    BY <2>1 DEF SmInv, ManagerSleeps
  <2> QED  BY <1>0, <2>1, <2>2 DEF ProcessedSeconds, SecondsInOrder, InPause
<1>5. CASE SmWake
  <2>1. mSec' = mSec + SleepSec /\ woke = 0 /\ SleepSec \in Nat
    BY <1>5, WakeSecond, SmRingAssumption
  <2>2. woke' = now /\ UNCHANGED <<sec, processed, slept>>
    BY <1>5 DEF SmWake, routerVars
  <2>3. \A k \in DOMAIN processed :
          /\ sec[processed[k]] \in Nat /\ sec[processed[k]] < now
          /\ sec[processed[k]] + 1 <= mSec'
    BY <1>0, <2>1 DEF ProcessedSeconds
  <2>4. \A k \in DOMAIN processed : InPause(processed[k])' <=> InPause(processed[k])
    BY <1>0, <2>1, <2>2, <2>3 DEF InPause
  <2> QED  BY <1>0, <2>2, <2>3, <2>4 DEF ProcessedSeconds, SecondsInOrder
<1>6. CASE SmNext
  <2>1. mSec' = mSec + 1 /\ UNCHANGED <<sec, processed, slept, woke>>
    BY <1>6 DEF SmNext, routerVars
  <2>2. \A k \in DOMAIN processed : sec[processed[k]] + 1 <= mSec + 1
    BY <1>0 DEF ProcessedSeconds
  <2> QED  BY <1>0, <2>1, <2>2 DEF ProcessedSeconds, SecondsInOrder, InPause
<1> QED
  BY <1>1, <1>2, <1>3, <1>4, <1>5, <1>6
  DEF SmRingNext, SmStep, SmTick, RouterPush, routerVars, smVars, smRingVars, SmPoll,
      SmDrained, SmEodPoll, SmEnter, SmTakeSlot, SmLeaveSlot

LEMMA SmInvAlways == SmRingSpec => []SmInv
<1>1. SmInv /\ [SmRingNext]_smRingVars => SmInv'
  BY SmTypeStep, ManagerSecondsStep, ManagerSleepsStep, HandSecondsStep,
     OnePlaceStep, SlotSecondsStep, SlotsBehindStep, ProcessedSecondsStep
  DEF SmInv
<1> QED  BY <1>1, SmInvInit, PTL DEF SmRingSpec

(* Types, and no router is ever at the slot the manager is taking packets  *)
(* from, neither on an ordinary day nor when the manager has slept for     *)
(* several laps of the ring (TcpSM::run, Routers::pushTcpPacketToSm).      *)
THEOREM SmSlotsAreExclusive == SmRingSpec => []SmRingInv
<1>1. SmInv => SmRingInv
  <2> SUFFICES ASSUME SmInv PROVE SmRingInv
    OBVIOUS
  <2>1. SlotsApart
    BY SmSlotsDiffer DEF SlotsApart, InSlotLoop
  <2> QED  BY <2>1 DEF SmRingInv, SmInv
<1> QED  BY <1>1, SmInvAlways, PTL

(* A routed packet is processed once or waits in its slot, and no longer   *)
(* than the manager's lag and its sleep (TcpSM::run, processQueue_sm).     *)
THEOREM RoutedIsProcessedOnce == SmRingSpec => []NothingLost
<1>1. SmInv => NothingLost
  <2> SUFFICES ASSUME SmInv, NEW p \in TcpPacket, sec[p] # 0
               PROVE  LET times == Cardinality({k \in DOMAIN processed : processed[k] = p})
                      IN  \/ times = 1 /\ ~ Stored(p)
                          \/ times = 0 /\ Stored(p) /\ now - sec[p] <= Patience(p)
                          \/ times = 0 /\ \E r \in SmRouter : rPkt[r] = p
    BY DEF NothingLost
  <2> DEFINE K == {k \in DOMAIN processed : processed[k] = p}
  <2>0. OnePlaceEach /\ OneProcessing
    BY DEF SmInv, OnePlace
  <2>1. CASE Processed(p)
    <3>1. PICK k \in DOMAIN processed : processed[k] = p
      BY <2>1 DEF Processed
    <3>2. K = {k}
      BY <2>0, <3>1 DEF OneProcessing
    <3>3. Cardinality(K) = 1
      BY <3>2, FS_Singleton
    <3>4. ~ Stored(p)
      BY <2>0, <2>1 DEF OnePlaceEach
    <3> QED  BY <3>3, <3>4
  <2>2. CASE ~ Processed(p)
    <3>1. K = {}
      BY <2>2 DEF Processed
    <3>2. Cardinality(K) = 0
      BY <3>1, FS_EmptySet
    <3>3. CASE AtRouter(p)
      BY <3>2, <3>3 DEF AtRouter
    <3>4. CASE Stored(p)
      <4>1. PICK r \in SmRouter, i \in Slots : p \in smStore[r][i]
        BY <3>4 DEF Stored
      <4>2. SlotSecond(i, p)
        BY <4>1 DEF SmInv, SlotSeconds
      <4>3. /\ sec[p] \in Nat /\ mSec \in Nat /\ now \in Nat /\ MaxReadLag \in Nat
            /\ SleepSec \in Nat
        BY SmRingAssumption, RingClockAssumption DEF SmInv, SmTypeOK
      <4>4. CASE mpc = "asleep"
        <5>1. sec[p] + 1 >= mSec /\ InPause(p)
          BY <4>1, <4>4, AsleepAhead
        <5>2. now - mSec <= SleepSec + MaxReadLag
          BY <4>4 DEF SmInv, ManagerSleeps
        <5>3. now - sec[p] <= Patience(p)
          BY <4>3, <5>1, <5>2 DEF Patience
        <5> QED  BY <3>2, <3>4, <5>3
      <4>5. CASE mpc # "asleep"
        <5>1. now - mSec <= MaxReadLag
          BY <4>5 DEF SmInv, ManagerSeconds
        <5>2. now - sec[p] <= Patience(p)
          BY <4>2, <4>3, <5>1 DEF SlotSecond, Patience
        <5> QED  BY <3>2, <3>4, <5>2
      <4> QED  BY <4>4, <4>5
    <3> QED  BY <2>0, <2>2, <3>3, <3>4 DEF OnePlaceEach
  <2> QED  BY <2>1, <2>2
<1> QED  BY <1>1, SmInvAlways, PTL

(* Packets are processed in the order of their seconds, but for those that *)
(* came while the manager slept (TcpSM::run).                              *)
THEOREM ProcessedInOrder == SmRingSpec => []SecondsInOrder
<1>1. SmInv => SecondsInOrder
  BY DEF SmInv, ProcessedSeconds
<1> QED  BY <1>1, SmInvAlways, PTL

-----------------------------------------------------------------------------
(***************************************************************************)
(* FlushRing: the session managers and a flusher that have neither lock    *)
(* nor flag, and the clock whose fields name the files.                    *)
(***************************************************************************)

\* The minute whose number clock.min shows: the one of now or, when Timer has
\* begun to store the next second, the one of now + 1.
ShownMinute ==
  IF clock.min = FieldsOf(MinuteNo(now)).min THEN MinuteNo(now) ELSE MinuteNo(now) + 1

\* The minute prevMin stands for: the flusher never misses a whole one.
FileMinute ==
  IF prevMin = clock.min THEN ShownMinute ELSE ShownMinute - 1

MinuteStart(n) == n * SecPerMin

FlushShapes ==
  /\ FlushTypeOK
  /\ \A m \in Row : DOMAIN flStore[m] = Slots
  /\ file = [f \in DOMAIN file |-> file[f]]
  /\ \A f \in DOMAIN file : file[f] \in Nat
  /\ fpc \notin {"first", "open"} => DOMAIN file = Field
  /\ fpc = "reports" => flTurn < SM_INSTANCES
  /\ now >= 1 /\ now >= FirstSec /\ (now = FirstSec \/ now <= MaxSec)

InFlushLoop == fpc \in {"slots", "reports"}

\* What an open file is named after, as far as its name is known: the minute
\* of prevMin, with the hour and the day of that one or of the one before.
NamedAfter(name, k) ==
  /\ "min" \in DOMAIN name => name["min"] = FieldsOf(k).min
  /\ \A f \in DOMAIN name : name[f] \in {FieldsOf(k)[f], FieldsOf(k - 1)[f]}

\* The fields are those of one minute, or those of the next are being stored,
\* the minute first.
ClockFields ==
  /\ clock["min"] = FieldsOf(ShownMinute).min
  /\ \A f \in Field : clock[f] \in {FieldsOf(ShownMinute)[f], FieldsOf(ShownMinute - 1)[f]}
  /\ ShownMinute = MinuteNo(now) => \A f \in Field : clock[f] = FieldsOf(ShownMinute)[f]
  /\ ShownMinute # MinuteNo(now) =>
       /\ ShownMinute = MinuteNo(now + 1)
       /\ now + 1 - fSec <= MaxReadLag

\* The flusher's minute: it begins when the flusher is at most its lag behind,
\* and the flusher gives it up at the latest a pass after its end.
FileTimes ==
  /\ FileMinute \in Nat
  /\ prevMin = FieldsOf(FileMinute).min
  /\ MinuteStart(FileMinute) <= fSec + MaxReadLag
  /\ fpc \in {"first", "open", "index"} => fSec < MinuteStart(FileMinute + 1)
  /\ fpc = "open" =>
       fSec < MinuteStart(FileMinute) + MaxReadLag /\ FileMinute = ShownMinute
  /\ fpc = "poll" => fSec < MinuteStart(FileMinute + 1) + MaxReadLag
  /\ fpc \notin {"first", "poll"} \/ FileMinute = ShownMinute
       => NamedAfter(file, FileMinute)

\* lastIndex stands for second fSec, curIndex for one that is not before it.
FlusherSeconds ==
  /\ fSec >= FirstSec /\ fSec <= now /\ now - fSec <= MaxReadLag
  /\ flLastIndex = READ_TIME_INDEX(fSec)
  /\ fpc = "drain" \/ InFlushLoop =>
       \E c \in fSec .. now :
         /\ flCurIndex = READ_TIME_INDEX(c)
         /\ c < MinuteStart(FileMinute + 1) + MaxReadLag
         /\ InFlushLoop => fSec < c

\* What a manager has at hand has been stamped at most one tick ago.
ManagerHand(m) ==
  IF mgrPc[m] = "idle"
  THEN mReport[m] = NoReport
  ELSE /\ mReport[m] \in Report
       /\ flushedAt[mReport[m]] >= 1 /\ flushedAt[mReport[m]] <= now
       /\ now <= flushedAt[mReport[m]] + MaxWriteDelay
       /\ mIdx[m] = PKT_WRITE_TIME_INDEX(flushedAt[mReport[m]])

ManagerHands == \A m \in Manager : ManagerHand(m)

Counting(m, i) == m \in Manager /\ mgrPc[m] = "count" /\ mIdx[m] = i

Emptying(m, i) == fpc = "reports" /\ flTurn = m /\ flLastIndex = i

\* The numbers of a slot's reports: those below its count, and the count
\* itself if its report is stored and not counted yet.  They have gaps while
\* the flusher empties the slot.
SlotNumbers(m, i) ==
  LET D == DOMAIN flStore[m][i]
      n == flCnt[m][i]
  IN  /\ Counting(m, i) => D = 0 .. n /\ flStore[m][i][n] = mReport[m]
      /\ Emptying(m, i) => IsFiniteSet(D) /\ Cardinality(D) = n
      /\ ~ Counting(m, i) /\ ~ Emptying(m, i) => D = 0 .. (n - 1)

SlotsNumbered == \A m \in Row : \A i \in Slots : SlotNumbers(m, i)

\* The slots of the managers before flTurn are empty.
SlotsEmptied ==
  InFlushLoop =>
    \A m \in Row : m < flTurn => DOMAIN flStore[m][flLastIndex] = {}

\* A flushed report is in one place.
OneManager ==
  \A m, q \in Manager : mReport[m] # NoReport /\ mReport[m] = mReport[q] => m = q
OneNumber ==
  \A m, q \in Row : \A i, j \in Slots :
    \A n \in DOMAIN flStore[m][i] : \A k \in DOMAIN flStore[q][j] :
      flStore[m][i][n] = flStore[q][j][k] => m = q /\ i = j /\ n = k
OneReportPlace ==
  \A x \in Report :
    /\ AtHand(x) => ~ InRepo(x) /\ ~ IsWritten(x)
    /\ InRepo(x) => ~ IsWritten(x)
    /\ flushedAt[x] # 0 <=> AtHand(x) \/ InRepo(x) \/ IsWritten(x)

\* A slot holds reports of its own second, none that should have been written.
ReportSecond(i, x) ==
  /\ flushedAt[x] <= now
  /\ i = PKT_WRITE_TIME_INDEX(flushedAt[x])
  /\ flushedAt[x] + 1 >= fSec

ReportSeconds ==
  \A m \in Row : \A i \in Slots : \A n \in DOMAIN flStore[m][i] :
    ReportSecond(i, flStore[m][i][n])

FlushInv ==
  /\ FlushShapes /\ FlusherSeconds /\ ManagerHands /\ ClockFields /\ FileTimes
  /\ SlotsNumbered /\ SlotsEmptied
  /\ OneManager /\ OneNumber /\ OneReportPlace /\ ReportSeconds /\ InItsFile

-----------------------------------------------------------------------------
\* A minute has SecPerMin seconds.
LEMMA StartNext ==
  ASSUME NEW n \in Int
  PROVE  /\ MinuteStart(n) \in Int
         /\ MinuteStart(n + 1) = MinuteStart(n) + SecPerMin
BY FlushRingAssumption DEF MinuteStart

LEMMA StartMonotone ==
  ASSUME NEW n \in Int, NEW k \in Int, n <= k
  PROVE  MinuteStart(n) <= MinuteStart(k)
<1>1. SecPerMin \in Nat  BY FlushRingAssumption
<1>2. PICK d \in Nat : k = n + d
  <2>1. k - n \in Nat /\ k = n + (k - n)  OBVIOUS
  <2> QED  BY <2>1
<1>3. d * SecPerMin >= 0  BY <1>1
<1>4. k * SecPerMin = n * SecPerMin + d * SecPerMin  BY <1>1, <1>2
<1>5. n * SecPerMin \in Int /\ d * SecPerMin \in Int  BY <1>1
<1> QED  BY <1>3, <1>4, <1>5 DEF MinuteStart

LEMMA MinuteOf ==
  ASSUME NEW t \in Nat
  PROVE  /\ MinuteNo(t) \in Nat
         /\ MinuteStart(MinuteNo(t)) <= t
         /\ t < MinuteStart(MinuteNo(t)) + SecPerMin
<1>1. SecPerMin \in Nat \ {0}  BY FlushRingAssumption
<1> DEFINE n == t \div SecPerMin
<1>2. t = (SecPerMin * n) + (t % SecPerMin) /\ n \in Nat /\ t % SecPerMin \in 0 .. (SecPerMin - 1)
  BY <1>1, DivMod
<1> HIDE DEF n
<1>3. SecPerMin * n = n * SecPerMin /\ n * SecPerMin \in Nat
  BY <1>1, <1>2
<1>4. MinuteNo(t) = n
  BY DEF MinuteNo, n
<1> QED  BY <1>1, <1>2, <1>3, <1>4 DEF MinuteStart

\* A minute is known by any of its seconds.
LEMMA MinuteIs ==
  ASSUME NEW t \in Nat, NEW n \in Int,
         MinuteStart(n) <= t, t < MinuteStart(n + 1)
  PROVE  MinuteNo(t) = n
<1> DEFINE k == MinuteNo(t)
<1>1. k \in Nat /\ MinuteStart(k) <= t /\ t < MinuteStart(k + 1)
  BY MinuteOf, StartNext
<1> HIDE DEF k
<1>2. /\ MinuteStart(n) \in Int /\ MinuteStart(k) \in Int
      /\ MinuteStart(n + 1) \in Int /\ MinuteStart(k + 1) \in Int
  BY <1>1, StartNext
<1>3. ~ (n < k)
  <2> SUFFICES ASSUME n + 1 <= k PROVE FALSE
    BY <1>1
  <2>1. MinuteStart(n + 1) <= MinuteStart(k)  BY <1>1, StartMonotone
  <2> QED  BY <1>1, <1>2, <2>1
<1>4. ~ (k < n)
  <2> SUFFICES ASSUME k + 1 <= n PROVE FALSE
    BY <1>1
  <2>1. MinuteStart(k + 1) <= MinuteStart(n)  BY <1>1, StartMonotone
  <2> QED  BY <1>1, <1>2, <2>1
<1> QED  BY <1>1, <1>3, <1>4 DEF k

\* One second later it is the same minute, or the next one begins.
LEMMA MinuteNext ==
  ASSUME NEW t \in Nat
  PROVE  \/ MinuteNo(t + 1) = MinuteNo(t)
         \/ MinuteNo(t + 1) = MinuteNo(t) + 1 /\ t + 1 = MinuteStart(MinuteNo(t) + 1)
<1> DEFINE n == MinuteNo(t)
           u == t + 1
<1>1. /\ n \in Nat /\ MinuteStart(n) <= t /\ t < MinuteStart(n) + SecPerMin
      /\ u \in Nat
  BY MinuteOf
<1>2. SecPerMin \in Nat \ {0}  BY FlushRingAssumption
<1>3. u = t + 1
  OBVIOUS
<1> HIDE DEF n, u
<1>4. /\ MinuteStart(n) \in Int /\ MinuteStart(n + 1) = MinuteStart(n) + SecPerMin
      /\ MinuteStart((n + 1) + 1) = MinuteStart(n + 1) + SecPerMin
  BY <1>1, StartNext
<1>5. CASE u < MinuteStart(n + 1)
  <2>1. MinuteNo(u) = n  BY <1>1, <1>3, <1>4, <1>5, MinuteIs
  <2> QED  BY <2>1 DEF n, u
<1>6. CASE u = MinuteStart(n + 1)
  <2>1. MinuteNo(u) = n + 1  BY <1>1, <1>2, <1>3, <1>4, <1>6, MinuteIs
  <2> QED  BY <2>1, <1>6 DEF n, u
<1> QED  BY <1>1, <1>2, <1>3, <1>4, <1>5, <1>6

LEMMA MinuteMonotone ==
  ASSUME NEW t \in Nat, NEW u \in Nat, t <= u
  PROVE  MinuteNo(t) <= MinuteNo(u)
<1> DEFINE n == MinuteNo(t)
           k == MinuteNo(u)
<1>1. /\ n \in Nat /\ MinuteStart(n) <= t
      /\ k \in Nat /\ u < MinuteStart(k + 1)
  BY MinuteOf, StartNext
<1> HIDE DEF n, k
<1>2. MinuteStart(n) \in Int /\ MinuteStart(k + 1) \in Int
  BY <1>1, StartNext
<1>3. ~ (k < n)
  <2> SUFFICES ASSUME k + 1 <= n PROVE FALSE
    BY <1>1
  <2>1. MinuteStart(k + 1) <= MinuteStart(n)  BY <1>1, StartMonotone
  <2> QED  BY <1>1, <1>2, <2>1
<1> QED  BY <1>1, <1>3 DEF n, k

\* The fields of a minute are numbers, and the first of them tells it from
\* its neighbours.
LEMMA FieldsTyped ==
  ASSUME NEW n \in Nat
  PROVE  FieldsOf(n) \in [Field -> Nat]
<1>1. n % MinPerHour \in Nat
  BY FlushRingAssumption, DivMod
<1> DEFINE h == n \div MinPerHour
<1>2. h \in Nat
  BY FlushRingAssumption, DivMod
<1> HIDE DEF h
<1>3. h % HourPerDay \in Nat
  BY <1>2, FlushRingAssumption, DivMod
<1> DEFINE d == MinPerHour * HourPerDay
<1>4. d \in Nat \ {0}
  BY FlushRingAssumption
<1> HIDE DEF d
<1>5. n \div d \in Nat
  BY <1>4, DivMod
<1> QED  BY <1>1, <1>3, <1>5 DEF FieldsOf, Field, h, d

LEMMA MinutesDiffer ==
  ASSUME NEW n \in Nat
  PROVE  FieldsOf(n).min # FieldsOf(n + 1).min
<1> DEFINE k == n + 1
<1>a. /\ MinPerHour \in Nat \ {0} /\ MinPerHour >= 2
      /\ k \in Nat /\ n < k /\ k - n < MinPerHour
  BY FlushRingAssumption
<1>b. n % MinPerHour # k % MinPerHour
  <2> HIDE DEF k
  <2> QED  BY <1>a, ModDistinct
<1>1. n % MinPerHour # (n + 1) % MinPerHour
  BY <1>b
<1> QED  BY <1>1 DEF FieldsOf

-----------------------------------------------------------------------------
LEMMA FlushInvInit == FlushInit => FlushInv
<1> SUFFICES ASSUME FlushInit PROVE FlushInv
  OBVIOUS
<1> USE DEF FlushInit
<1> DEFINE n == MinuteNo(FirstSec)
<1>0. /\ FirstSec \in Nat \ {0} /\ MaxReadLag \in Nat /\ MaxWriteDelay \in Nat
      /\ READ_TIME_INDEX(FirstSec) \in Slots /\ 0 \in Slots
      /\ NoReport \notin Report /\ SM_INSTANCES \in Nat
      /\ Manager \subseteq Row
  BY RingClockAssumption, FlushRingAssumption, TimeIndexAssumption, ReadIndexIsSlot
  DEF Slots, Row
<1>a. /\ n \in Nat /\ MinuteStart(n) <= FirstSec
      /\ FirstSec < MinuteStart(n) + SecPerMin
  BY <1>0, MinuteOf
<1>1. /\ n \in Nat /\ MinuteStart(n) <= FirstSec
      /\ FirstSec < MinuteStart(n + 1)
      /\ MinuteStart(n) \in Int /\ MinuteStart(n + 1) \in Int
  <2> HIDE DEF n
  <2> QED  BY <1>a, StartNext
<1>2. FieldsOf(n) \in [Field -> Nat]
  BY <1>1, FieldsTyped
<1>3. clock = FieldsOf(n) /\ now = FirstSec /\ prevMin = clock.min
  OBVIOUS
<1> HIDE DEF n
<1>4. ShownMinute = n /\ FileMinute = n /\ MinuteNo(now) = n
  BY <1>3 DEF ShownMinute, FileMinute, n
<1>5. FlushShapes
  <2>1. prevMin \in Nat
    BY <1>2, <1>3 DEF Field
  <2>2. FlushTypeOK
    BY <1>0, <1>2, <1>3, <2>1 DEF FlushTypeOK, Field
  <2> QED  BY <1>0, <1>3, <2>2 DEF FlushShapes
<1>6. FlusherSeconds
  BY <1>0 DEF FlusherSeconds, InFlushLoop
<1>7. ManagerHands
  BY DEF ManagerHands, ManagerHand
<1>8. ClockFields
  BY <1>3, <1>4 DEF ClockFields
<1>9. FileTimes
  <2>1. NamedAfter(file, n)
    BY DEF NamedAfter
  <2> QED  BY <1>0, <1>1, <1>3, <1>4, <2>1 DEF FileTimes
<1>10. SlotsNumbered
  <2> SUFFICES ASSUME NEW m \in Row, NEW i \in Slots PROVE SlotNumbers(m, i)
    BY DEF SlotsNumbered
  <2>1. DOMAIN flStore[m][i] = {} /\ flCnt[m][i] = 0
    OBVIOUS
  <2>2. ~ Counting(m, i) /\ ~ Emptying(m, i)
    BY DEF Counting, Emptying
  <2>3. 0 .. (0 - 1) = {}
    OBVIOUS
  <2> QED  BY <2>1, <2>2, <2>3 DEF SlotNumbers
<1>11. SlotsEmptied
  BY DEF SlotsEmptied, InFlushLoop
<1>12. OneManager /\ OneNumber /\ ReportSeconds /\ InItsFile
  BY DEF OneManager, OneNumber, ReportSeconds, InItsFile
<1>13. OneReportPlace
  BY <1>0 DEF OneReportPlace, AtHand, InRepo, IsWritten
<1> QED
  BY <1>5, <1>6, <1>7, <1>8, <1>9, <1>10, <1>11, <1>12, <1>13 DEF FlushInv

-----------------------------------------------------------------------------
(* The clock and the file's minute.                                        *)

\* Whoever leaves clock, now and prevMin alone leaves the minutes alone.
LEMMA SameMinutes ==
  ASSUME UNCHANGED <<clock, now>>
  PROVE  /\ ShownMinute' = ShownMinute
         /\ prevMin' = prevMin => FileMinute' = FileMinute
BY DEF ShownMinute, FileMinute

LEMMA MinuteTypes ==
  ASSUME FlushInv
  PROVE  /\ now \in Nat /\ fSec \in Nat /\ fSec <= now /\ now - fSec <= MaxReadLag
         /\ MinuteNo(now) \in Nat
         /\ ShownMinute \in {MinuteNo(now), MinuteNo(now) + 1}
         /\ FileMinute \in Nat /\ FileMinute \in {ShownMinute, ShownMinute - 1}
         /\ clock \in [Field -> Nat]
         /\ MinuteStart(FileMinute) \in Int
         /\ MinuteStart(FileMinute + 1) = MinuteStart(FileMinute) + SecPerMin
<1>1. /\ now \in Nat /\ fSec \in Nat /\ fSec <= now /\ now - fSec <= MaxReadLag
      /\ clock \in [Field -> Nat] /\ FileMinute \in Nat
  BY DEF FlushInv, FlushShapes, FlushTypeOK, FlusherSeconds, FileTimes
<1>2. MinuteNo(now) \in Nat
  BY <1>1, MinuteOf
<1>3. /\ ShownMinute \in {MinuteNo(now), MinuteNo(now) + 1}
      /\ FileMinute \in {ShownMinute, ShownMinute - 1}
  BY DEF ShownMinute, FileMinute
<1> QED  BY <1>1, <1>2, <1>3, StartNext

\* What Timer does when it stores a second or a field of it: the minute shown
\* stays, or the next one begins and the flusher has noticed the last.
LEMMA TimerMinutes ==
  ASSUME FlushInv, Timer
  PROVE  /\ ClockFields' /\ FileMinute' = FileMinute
         /\ \/ ShownMinute' = ShownMinute
            \/ /\ ShownMinute' = ShownMinute + 1 /\ FileMinute = ShownMinute
               /\ now + 1 = MinuteStart(FileMinute + 1)
<1> DEFINE n == MinuteNo(now)
           u == now + 1
           k == MinuteNo(u)
           s == ShownMinute
           K == FileMinute
<1>1. /\ now \in Nat /\ fSec \in Nat /\ fSec <= now /\ now - fSec <= MaxReadLag
      /\ n \in Nat /\ s \in {n, n + 1} /\ K \in Nat /\ K \in {s, s - 1}
      /\ clock \in [Field -> Nat]
      /\ MinuteStart(K) \in Int /\ MinuteStart(K + 1) = MinuteStart(K) + SecPerMin
  BY MinuteTypes
<1>2. /\ k = n \/ (k = n + 1 /\ now + 1 = MinuteStart(n + 1))
      /\ u \in Nat /\ u = now + 1
  BY <1>1, MinuteNext
<1>3. /\ clock["min"] = FieldsOf(s).min
      /\ \A f \in Field : clock[f] \in {FieldsOf(s)[f], FieldsOf(s - 1)[f]}
      /\ s = n => \A f \in Field : clock[f] = FieldsOf(n)[f]
      /\ s # n => s = k /\ now + 1 - fSec <= MaxReadLag
      /\ clock.min = clock["min"]
  BY DEF FlushInv, ClockFields
<1>4. /\ MaxReadLag \in Nat /\ SecPerMin \in Nat /\ 2 * MaxReadLag <= SecPerMin
      /\ fSec \in Nat
  BY <1>1, RingClockAssumption, FlushRingAssumption, MinuteAssumption
<1>5. /\ prevMin = FieldsOf(K).min
      /\ fSec < MinuteStart(K + 1) + MaxReadLag
  <2>1. prevMin = FieldsOf(K).min
    BY DEF FlushInv, FileTimes
  <2>2. CASE fpc \in {"first", "open", "index", "poll"}
    BY <1>1, <1>4, <2>1, <2>2 DEF FlushInv, FileTimes
  <2>3. CASE fpc \in {"drain", "slots", "reports"}
    <3>1. PICK c \in fSec .. now : c < MinuteStart(K + 1) + MaxReadLag
      BY <2>3 DEF FlushInv, FlusherSeconds, InFlushLoop
    <3> HIDE DEF K
    <3>2. MinuteStart(K + 1) \in Int /\ c \in Int /\ fSec <= c
      BY <1>1, <1>4, <3>1
    <3> QED  BY <1>4, <2>1, <3>1, <3>2
  <2>4. fpc \in {"first", "poll", "open", "index", "drain", "slots", "reports"}
    BY DEF FlushInv, FlushShapes, FlushTypeOK
  <2> QED  BY <2>1, <2>2, <2>3, <2>4
<1>6. FieldsOf(n).min # FieldsOf(n + 1).min
  BY <1>1, MinutesDiffer
<1>7. /\ s = (IF clock.min = FieldsOf(n).min THEN n ELSE n + 1)
      /\ K = (IF prevMin = clock.min THEN s ELSE s - 1)
  BY DEF ShownMinute, FileMinute
<1> HIDE DEF n, k, s, K, u
\* The minute that begins: the flusher cannot be two minutes behind.
<1>8. ASSUME now' = now, clock' = [clock EXCEPT !["min"] = FieldsOf(k)["min"]],
             clock["min"] # FieldsOf(k)["min"], now + 1 - fSec <= MaxReadLag,
             UNCHANGED <<prevMin, fSec>>
      PROVE  /\ ClockFields' /\ FileMinute' = K
             /\ ShownMinute' = s + 1 /\ K = s /\ now + 1 = MinuteStart(K + 1)
  <2>1. k = n + 1 /\ s = n /\ now + 1 = MinuteStart(n + 1)
    BY <1>1, <1>2, <1>3, <1>8
  <2>2. K = s
    <3> SUFFICES ASSUME K = s - 1 PROVE FALSE
      BY <1>1
    <3>1. K + 1 = n
      BY <1>1, <2>1
    <3>2. MinuteStart(n + 1) = MinuteStart(n) + SecPerMin
      BY <1>1, StartNext
    <3>3. now + 1 = (MinuteStart(K) + SecPerMin) + SecPerMin
      BY <1>1, <2>1, <3>1, <3>2
    <3>4. now + 1 <= fSec + MaxReadLag /\ fSec < (MinuteStart(K) + SecPerMin) + MaxReadLag
      BY <1>1, <1>4, <1>5, <1>8
    <3> QED  BY <1>1, <1>4, <3>3, <3>4
  <2>3. /\ clock' \in [Field -> Nat] /\ clock'["min"] = FieldsOf(n + 1)["min"]
        /\ \A f \in Field : f # "min" => clock'[f] = clock[f]
    <3>1. n + 1 \in Nat /\ "min" \in Field
      BY <1>1 DEF Field
    <3>2. FieldsOf(n + 1)["min"] \in Nat
      BY <3>1, FieldsTyped
    <3> QED  BY <1>1, <1>8, <2>1, <3>1, <3>2
  <2>4. ShownMinute' = n + 1
    <3>1. MinuteNo(now') = n
      BY <1>8 DEF n
    <3> QED  BY <1>6, <2>3, <3>1 DEF ShownMinute
  <2>5. FileMinute' = n
    <3>1. clock'.min = FieldsOf(n + 1).min /\ prevMin' = FieldsOf(n).min
      BY <1>5, <1>8, <2>1, <2>2, <2>3
    <3> QED  BY <1>1, <1>6, <2>4, <3>1 DEF FileMinute
  <2>6. ClockFields'
    <3>1. MinuteNo(now') = n /\ MinuteNo(now' + 1) = n + 1
      BY <1>8, <2>1 DEF n, k, u
    <3>2. (n + 1) - 1 = n /\ n + 1 # n
      BY <1>1
    <3>3. \A f \in Field : clock[f] = FieldsOf(n)[f]
      BY <1>3, <2>1
    <3>4. \A f \in Field : clock'[f] \in {FieldsOf(n + 1)[f], FieldsOf((n + 1) - 1)[f]}
      BY <2>3, <3>2, <3>3
    <3> QED  BY <1>8, <2>3, <2>4, <3>1, <3>2, <3>4 DEF ClockFields
  <2> QED  BY <2>1, <2>2, <2>4, <2>5, <2>6
\* Another field of it: the minute is stored already.
<1>9. ASSUME NEW f \in Field, f # "min", now' = now,
             clock' = [clock EXCEPT ![f] = FieldsOf(k)[f]],
             clock["min"] = FieldsOf(k)["min"], clock[f] # FieldsOf(k)[f],
             UNCHANGED <<prevMin, fSec>>
      PROVE  ClockFields' /\ FileMinute' = K /\ ShownMinute' = s
  <2>1. k = n + 1 /\ s = k
    BY <1>1, <1>2, <1>3, <1>6, <1>7, <1>9
  <2>2. /\ clock'["min"] = clock["min"] /\ clock'[f] = FieldsOf(k)[f]
        /\ \A g \in Field : g # f => clock'[g] = clock[g]
    BY <1>1, <1>9 DEF Field
  <2>3. ShownMinute' = s
    <3>1. MinuteNo(now') = n
      BY <1>9 DEF n
    <3> QED  BY <1>7, <2>2, <3>1 DEF ShownMinute
  <2>4. FileMinute' = K
    BY <1>7, <1>9, <2>2, <2>3 DEF FileMinute
  <2>5. ClockFields'
    <3>1. MinuteNo(now') = n /\ MinuteNo(now' + 1) = k
      BY <1>9 DEF n, k, u
    <3>2. s # n
      BY <1>1, <2>1
    <3>3. \A g \in Field : clock'[g] \in {FieldsOf(s)[g], FieldsOf(s - 1)[g]}
      BY <1>3, <2>1, <2>2
    <3> QED  BY <1>3, <1>9, <2>2, <2>3, <3>1, <3>2, <3>3 DEF ClockFields
  <2> QED  BY <2>3, <2>4, <2>5
\* The second itself: every field is stored.
<1>10. ASSUME clock = FieldsOf(k), now' = u, clock' = clock, prevMin' = prevMin
       PROVE  ClockFields' /\ FileMinute' = K /\ ShownMinute' = s
  <2>1. s = k
    BY <1>1, <1>2, <1>3, <1>6, <1>7, <1>10
  <2>2. MinuteNo(now') = k
    BY <1>10 DEF k
  <2>3. ShownMinute' = s
    BY <1>10, <2>1, <2>2 DEF ShownMinute
  <2>4. FileMinute' = K
    BY <1>7, <1>10, <2>3 DEF FileMinute
  <2>5. ClockFields'
    BY <1>10, <2>1, <2>2, <2>3 DEF ClockFields
  <2> QED  BY <2>3, <2>4, <2>5
<1>11. CASE StoreSecond
  <2>1. clock = FieldsOf(k) /\ now' = u /\ clock' = clock /\ prevMin' = prevMin
    BY <1>11 DEF StoreSecond, fileVars, k, u
  <2> QED  BY <1>10, <2>1 DEF s, K
<1>12. ASSUME NEW f \in Field, StoreField(f)
       PROVE  /\ ClockFields' /\ FileMinute' = K
              /\ \/ ShownMinute' = s
                 \/ /\ ShownMinute' = s + 1 /\ K = s
                    /\ now + 1 = MinuteStart(K + 1)
  <2>1. /\ now' = now /\ clock' = [clock EXCEPT ![f] = FieldsOf(k)[f]]
        /\ clock[f] # FieldsOf(k)[f] /\ now + 1 - fSec <= MaxReadLag
        /\ \A g \in StoredBefore(f) : clock[g] = FieldsOf(k)[g]
        /\ UNCHANGED <<prevMin, fSec>>
    BY <1>12 DEF StoreField, TimerMay, fileVars, loopVars, k, u
  <2>2. CASE f = "min"
    BY <1>8, <2>1, <2>2
  <2>3. CASE f # "min"
    <3>1. "min" \in StoredBefore(f)
      BY <2>3 DEF Field, StoredBefore
    <3>2. clock["min"] = FieldsOf(k)["min"]
      BY <2>1, <3>1
    <3> QED  BY <1>9, <2>1, <2>3, <3>2
  <2> QED  BY <2>2, <2>3
<1> QED  BY <1>11, <1>12 DEF Timer, s, K

LEMMA ClockFieldsStep == FlushInv /\ [FlushNext]_flushVars => ClockFields'
<1> SUFFICES ASSUME FlushInv, [FlushNext]_flushVars PROVE ClockFields'
  OBVIOUS
<1>1. CASE Timer
  BY <1>1, TimerMinutes
<1>2. ASSUME UNCHANGED <<now, clock>>, fSec' \in {fSec, fSec + 1} PROVE ClockFields'
  <2>1. ShownMinute' = ShownMinute
    BY <1>2, SameMinutes
  <2>2. now \in Nat /\ fSec \in Nat /\ MaxReadLag \in Nat
    BY MinuteTypes, RingClockAssumption
  <2>3. now + 1 - fSec <= MaxReadLag => now + 1 - fSec' <= MaxReadLag
    <3>1. CASE fSec' = fSec
      BY <3>1
    <3>2. CASE fSec' = fSec + 1
      BY <2>2, <3>2
    <3> QED  BY <1>2, <3>1, <3>2
  <2>4. ClockFields
    BY DEF FlushInv
  <2> QED  BY <1>2, <2>1, <2>3, <2>4 DEF ClockFields
<1> QED
  BY <1>1, <1>2
  DEF FlushNext, flushVars, clockVars, loopVars, SmFlush, ManagerStep, SmStore,
      SmCount, Flusher, FlRotate, FlSameMinute, FlOpen, FlIndex, FlDrain,
      FlReadField, FlTakeSlot, FlReport, FlLeaveSlot, FlNext

\* Where the flusher goes through its slots, it is at a second that is over.
LEMMA InLoopBehind ==
  ASSUME FlushInv, InFlushLoop
  PROVE  /\ fSec < now
         /\ \E c \in (fSec + 1) .. now :
              /\ flCurIndex = READ_TIME_INDEX(c)
              /\ c < MinuteStart(FileMinute + 1) + MaxReadLag
<1>1. fSec \in Nat /\ now \in Nat
  BY MinuteTypes
<1>2. PICK c \in fSec .. now :
        /\ flCurIndex = READ_TIME_INDEX(c)
        /\ c < MinuteStart(FileMinute + 1) + MaxReadLag
        /\ fSec < c
  BY DEF FlushInv, FlusherSeconds
<1>3. c \in (fSec + 1) .. now /\ fSec < now
  BY <1>1, <1>2
<1> QED  BY <1>2, <1>3

\* Equal indices mean that everything up to curIndex is written.
LEMMA DrainedOrBehind ==
  ASSUME FlushInv, fpc = "drain"
  PROVE  \E c \in fSec .. now :
           /\ flCurIndex = READ_TIME_INDEX(c)
           /\ c < MinuteStart(FileMinute + 1) + MaxReadLag
           /\ flLastIndex = flCurIndex <=> fSec = c
<1>1. /\ fSec \in Nat /\ now \in Nat /\ now - fSec <= MaxReadLag
  BY MinuteTypes
<1>2. PICK c \in fSec .. now :
        /\ flCurIndex = READ_TIME_INDEX(c)
        /\ c < MinuteStart(FileMinute + 1) + MaxReadLag
  BY DEF FlushInv, FlusherSeconds
<1>3. flLastIndex = READ_TIME_INDEX(fSec)
  BY DEF FlushInv, FlusherSeconds
<1>4. fSec < c => READ_TIME_INDEX(fSec) # READ_TIME_INDEX(c)
  <2>1. c \in Nat /\ c - fSec < TIME_INDEX
    BY <1>1, <1>2, RingClockAssumption, SchedulingAssumption, TimeIndexAssumption
  <2> QED  BY <1>1, <2>1, SlotsOfALapDiffer
<1> QED  BY <1>1, <1>2, <1>3, <1>4

LEMMA FlusherSecondsStep == FlushInv /\ [FlushNext]_flushVars => FlusherSeconds'
<1> SUFFICES ASSUME FlushInv, [FlushNext]_flushVars PROVE FlusherSeconds'
  OBVIOUS
<1>0. /\ FlusherSeconds
      /\ now \in Nat /\ fSec \in Nat /\ fSec <= now /\ now - fSec <= MaxReadLag
      /\ MaxReadLag \in Nat /\ FirstSec \in Nat
      /\ MinuteStart(FileMinute + 1) \in Int
  BY MinuteTypes, RingClockAssumption, FlushRingAssumption DEF FlushInv
<1>1. CASE Timer
  <2>1. FileMinute' = FileMinute
    BY <1>1, TimerMinutes
  <2>2. now' \in {now, now + 1} /\ UNCHANGED <<fpc, loopVars>>
    BY <1>1 DEF Timer, StoreSecond, StoreField
  <2>3. now' - fSec <= MaxReadLag
    BY <1>0, <1>1 DEF Timer, StoreSecond, StoreField, TimerMay
  <2>4. fpc = "drain" \/ InFlushLoop =>
          \E c \in fSec .. now' :
            /\ flCurIndex = READ_TIME_INDEX(c)
            /\ c < MinuteStart(FileMinute + 1) + MaxReadLag
            /\ InFlushLoop => fSec < c
    <3>1. \A c \in fSec .. now : c \in fSec .. now'
      BY <1>0, <2>2
    <3> QED  BY <1>0, <3>1 DEF FlusherSeconds
  <2>5. /\ fSec' = fSec /\ flLastIndex' = flLastIndex /\ flCurIndex' = flCurIndex
        /\ fpc' = fpc /\ fSec <= now'
    BY <1>0, <2>2 DEF loopVars
  <2> QED  BY <1>0, <2>1, <2>3, <2>4, <2>5 DEF FlusherSeconds, InFlushLoop
<1>2. CASE UNCHANGED <<clockVars, fpc, prevMin, loopVars>>
  <2>1. FileMinute' = FileMinute
    BY <1>2, SameMinutes DEF clockVars
  <2> QED  BY <1>0, <1>2, <2>1 DEF FlusherSeconds, InFlushLoop, loopVars, clockVars
<1>3. CASE FlRotate \/ FlSameMinute \/ FlOpen
  BY <1>0, <1>3 DEF FlusherSeconds, InFlushLoop, loopVars, clockVars, FlRotate,
                    FlSameMinute, FlOpen
<1>4. CASE FlIndex
  <2>1. FileMinute' = FileMinute
    BY <1>4, SameMinutes DEF FlIndex, clockVars, fileVars
  <2>2. now \in fSec .. now /\ now < MinuteStart(FileMinute + 1) + MaxReadLag
    <3>1. fSec < MinuteStart(FileMinute + 1)
      BY <1>4 DEF FlIndex, FlushInv, FileTimes
    <3> QED  BY <1>0, <3>1
  <2> QED  BY <1>0, <1>4, <2>1, <2>2 DEF FlusherSeconds, InFlushLoop, FlIndex, clockVars
<1>5. CASE FlDrain
  <2>1. FileMinute' = FileMinute
    BY <1>5, SameMinutes DEF FlDrain, clockVars, fileVars
  <2>2. PICK c \in fSec .. now :
          /\ flCurIndex = READ_TIME_INDEX(c)
          /\ c < MinuteStart(FileMinute + 1) + MaxReadLag
          /\ flLastIndex = flCurIndex <=> fSec = c
    BY <1>5, DrainedOrBehind DEF FlDrain
  <2>3. flLastIndex # flCurIndex => fSec < c
    BY <1>0, <2>2
  <2> QED  BY <1>0, <1>5, <2>1, <2>2, <2>3 DEF FlusherSeconds, InFlushLoop, FlDrain, clockVars
<1>6. CASE FlTakeSlot \/ FlLeaveSlot
  <2>1. FileMinute' = FileMinute
    BY <1>6, SameMinutes DEF FlTakeSlot, FlLeaveSlot, clockVars, fileVars
  <2>2. /\ UNCHANGED <<now, fSec, flLastIndex, flCurIndex>>
        /\ fpc \in {"slots", "reports"} /\ fpc' \in {"slots", "reports"}
    BY <1>6 DEF FlTakeSlot, FlLeaveSlot, clockVars
  <2> QED  BY <1>0, <2>1, <2>2 DEF FlusherSeconds, InFlushLoop
<1>7. CASE FlNext
  <2>1. FileMinute' = FileMinute
    BY <1>7, SameMinutes DEF FlNext, clockVars, fileVars
  <2>2. PICK c \in (fSec + 1) .. now :
          /\ flCurIndex = READ_TIME_INDEX(c)
          /\ c < MinuteStart(FileMinute + 1) + MaxReadLag
    BY <1>7, InLoopBehind DEF FlNext, InFlushLoop
  <2> DEFINE t == fSec + 1
  <2>3. /\ fSec' = t /\ flLastIndex' = READ_TIME_INDEX(t)
        /\ UNCHANGED <<now, flCurIndex>> /\ fpc' = "drain"
    BY <1>0, <1>7, ReadNextIsSucc DEF FlusherSeconds, FlNext, clockVars
  <2>4. t >= FirstSec /\ t <= now /\ now - t <= MaxReadLag /\ c \in t .. now
    BY <1>0, <2>2 DEF FlusherSeconds
  <2> HIDE DEF t
  <2> QED  BY <2>1, <2>2, <2>3, <2>4 DEF FlusherSeconds, InFlushLoop
<1> QED
  BY <1>1, <1>2, <1>3, <1>4, <1>5, <1>6, <1>7
  DEF FlushNext, flushVars, clockVars, fileVars, loopVars, SmFlush, ManagerStep, SmStore,
      SmCount, Flusher, FlReadField, FlReport

LEMMA FileTimesStep == FlushInv /\ [FlushNext]_flushVars => FileTimes'
<1> SUFFICES ASSUME FlushInv, [FlushNext]_flushVars PROVE FileTimes'
  OBVIOUS
<1> DEFINE K == FileMinute
           s == ShownMinute
<1>0. /\ FileTimes /\ FlusherSeconds /\ ClockFields
      /\ now \in Nat /\ fSec \in Nat /\ fSec <= now /\ now - fSec <= MaxReadLag
      /\ MinuteNo(now) \in Nat
      /\ s \in {MinuteNo(now), MinuteNo(now) + 1}
      /\ K \in Nat /\ K \in {s, s - 1}
      /\ MinuteStart(K) \in Int /\ MinuteStart(K + 1) \in Int
      /\ MinuteStart(K + 1) = MinuteStart(K) + SecPerMin
      /\ MaxReadLag \in Nat /\ SecPerMin \in Nat /\ 2 * MaxReadLag <= SecPerMin
  BY MinuteTypes, RingClockAssumption, FlushRingAssumption, MinuteAssumption DEF FlushInv
<1>a. /\ K \in Nat /\ prevMin = FieldsOf(K).min
      /\ MinuteStart(K) <= fSec + MaxReadLag
      /\ fpc \in {"first", "open", "index"} => fSec < MinuteStart(K + 1)
      /\ fpc = "open" => fSec < MinuteStart(K) + MaxReadLag /\ K = s
      /\ fpc = "poll" => fSec < MinuteStart(K + 1) + MaxReadLag
      /\ fpc \notin {"first", "poll"} \/ K = s => NamedAfter(file, K)
  BY <1>0 DEF FileTimes
\* What FileTimes' says, with the minutes it speaks of named.
<1>b. ASSUME NEW k \in Nat, NEW t \in Nat, FileMinute' = k, ShownMinute' = t,
             prevMin' = FieldsOf(k).min, fSec' \in Nat,
             MinuteStart(k) <= fSec' + MaxReadLag,
             fpc' \in {"first", "open", "index"} => fSec' < MinuteStart(k + 1),
             fpc' = "open" => fSec' < MinuteStart(k) + MaxReadLag /\ k = t,
             fpc' = "poll" => fSec' < MinuteStart(k + 1) + MaxReadLag,
             fpc' \notin {"first", "poll"} \/ k = t => NamedAfter(file', k)
      PROVE  FileTimes'
  BY <1>b DEF FileTimes
\* A step of the flusher that leaves its minute, its name and the clock alone.
<1>c. ASSUME UNCHANGED <<now, clock, prevMin, file>>, fSec' \in Nat, fSec' >= fSec,
             fpc' \in {"first", "open", "index"} => fpc' = fpc /\ fSec' = fSec,
             fpc' = "poll" => fSec' < MinuteStart(K + 1) + MaxReadLag,
             fpc' \notin {"first", "poll"} => fpc \notin {"first", "poll"}
      PROVE  FileTimes'
  <2>1. FileMinute' = K /\ ShownMinute' = s /\ s \in Nat
    BY <1>0, <1>c, SameMinutes
  <2> HIDE DEF K, s
  <2>3. MinuteStart(K) <= fSec' + MaxReadLag
    BY <1>0, <1>a, <1>c
  <2>4. fpc' = "open" => fSec' < MinuteStart(K) + MaxReadLag /\ K = s
    BY <1>a, <1>c
  <2>5. fpc' \in {"first", "open", "index"} => fSec' < MinuteStart(K + 1)
    BY <1>a, <1>c
  <2>6. prevMin' = FieldsOf(K).min
    BY <1>a, <1>c
  <2>7. fpc' \notin {"first", "poll"} \/ K = s => NamedAfter(file, K)
    BY <1>a, <1>c
  <2> QED  BY <1>0, <1>c, <2>1, <2>3, <2>4, <2>5, <2>6, <2>7, <1>b
<1>d. now < MinuteStart(s + 1)
  <2>1. now < MinuteStart(MinuteNo(now) + 1)
    BY <1>0, MinuteOf, StartNext
  <2>2. MinuteStart(MinuteNo(now) + 1) <= MinuteStart(s + 1)
    BY <1>0, StartMonotone
  <2>3. MinuteStart(MinuteNo(now) + 1) \in Int /\ MinuteStart(s + 1) \in Int
    BY <1>0, StartNext
  <2> QED  BY <1>0, <2>1, <2>2, <2>3
<1>1. CASE Timer
  <2>1. /\ FileMinute' = K
        /\ \/ ShownMinute' = s
           \/ /\ ShownMinute' = s + 1 /\ K = s
              /\ now + 1 = MinuteStart(K + 1) /\ now + 1 - fSec <= MaxReadLag
    BY <1>1, TimerMinutes DEF Timer, StoreSecond, StoreField, TimerMay
  <2>2. UNCHANGED <<prevMin, file, fSec, fpc>>
    BY <1>1 DEF Timer, StoreSecond, StoreField, fileVars, loopVars
  <2> HIDE DEF K, s
  <2>3. s \in Nat /\ ShownMinute' \in Nat
    BY <1>0, <2>1
  <2>4. fpc = "open" => K = ShownMinute'
    <3> SUFFICES ASSUME fpc = "open", ShownMinute' # s PROVE FALSE
      BY <1>a
    <3>1. fSec < MinuteStart(K) + MaxReadLag
      BY <1>a
    <3>2. now + 1 = MinuteStart(K) + SecPerMin /\ now + 1 <= fSec + MaxReadLag
      BY <1>0, <2>1
    <3> QED  BY <1>0, <3>1, <3>2
  <2>5. K = ShownMinute' => K = s
    BY <1>0, <2>1
  <2>6. fpc \notin {"first", "poll"} \/ K = ShownMinute' => NamedAfter(file, K)
    BY <1>a, <2>5
  <2> QED  BY <1>0, <1>a, <2>1, <2>2, <2>3, <2>4, <2>6, <1>b
<1>2. ASSUME UNCHANGED <<now, clock, prevMin, file, fpc, fSec>> PROVE FileTimes'
  BY <1>0, <1>a, <1>2, <1>c
<1>3. CASE FlRotate
  <2>1. /\ clock.min # prevMin /\ prevMin' = clock.min /\ fpc = "poll"
        /\ file' = [f \in {} |-> 0] /\ fpc' = "open"
        /\ UNCHANGED <<now, clock, fSec>>
    BY <1>3 DEF FlRotate, MinuteChanged, clockVars, loopVars
  <2>2. K = s - 1
    BY <2>1 DEF FileMinute
  <2>3. ShownMinute' = s
    BY <2>1, SameMinutes
  <2>4. FileMinute' = s
    BY <2>1, <2>3 DEF FileMinute
  <2>5. prevMin' = FieldsOf(s).min
    BY <1>0, <2>1 DEF ClockFields
  <2>6. NamedAfter(file', s)
    BY <2>1 DEF NamedAfter
  <2>7. MinuteStart(s) <= fSec + MaxReadLag
    <3>1. CASE s = MinuteNo(now)
      <4>1. MinuteStart(MinuteNo(now)) <= now
        BY <1>0, MinuteOf
      <4>2. MinuteStart(s) \in Int
        BY <1>0, StartNext
      <4> QED  BY <1>0, <3>1, <4>1, <4>2
    <3>2. CASE s # MinuteNo(now)
      <4> DEFINE u == now + 1
      <4>1. s = MinuteNo(u) /\ u - fSec <= MaxReadLag
        BY <1>0, <3>2 DEF ClockFields
      <4>2. u \in Nat
        BY <1>0
      <4> HIDE DEF u
      <4>3. MinuteStart(MinuteNo(u)) <= u
        BY <4>2, MinuteOf
      <4>4. MinuteStart(s) \in Int
        BY <1>0, StartNext
      <4> QED  BY <1>0, <4>1, <4>2, <4>3, <4>4
    <3> QED  BY <3>1, <3>2
  <2>8. fSec < MinuteStart(K + 1) + MaxReadLag
    BY <1>a, <2>1
  <2> HIDE DEF K, s
  <2>9. s \in Nat /\ K + 1 = s /\ fSec < MinuteStart(s + 1)
    <3>1. MinuteStart(s + 1) \in Int
      BY <1>0, StartNext
    <3> QED  BY <1>0, <1>d, <2>2, <3>1
  <2> QED  BY <1>0, <2>1, <2>3, <2>4, <2>5, <2>6, <2>7, <2>8, <2>9, <1>b
<1>4. CASE FlSameMinute
  <2>1. /\ clock.min = prevMin /\ fpc = "poll" /\ fpc' = "index"
        /\ UNCHANGED <<now, clock, fSec, prevMin, file>>
    BY <1>4 DEF FlSameMinute, MinuteChanged, clockVars, loopVars, fileVars
  <2>2. K = s
    BY <2>1 DEF FileMinute
  <2>3. ShownMinute' = s /\ FileMinute' = s
    BY <2>1, <2>2, SameMinutes
  <2> HIDE DEF K, s
  <2>4. fSec < MinuteStart(K + 1) /\ NamedAfter(file, K)
    BY <1>0, <1>a, <1>d, <2>2
  <2> QED  BY <1>0, <1>a, <2>1, <2>2, <2>3, <2>4, <1>b
<1>5. ASSUME NEW f \in Field, FlReadField(f) PROVE FileTimes'
  <2>1. /\ UNCHANGED <<now, clock, fSec, prevMin, fpc>>
        /\ fpc \in {"first", "open"}
        /\ f \notin DOMAIN file
        /\ file' = [g \in DOMAIN file \cup {f} |-> IF g = f THEN clock[f] ELSE file[g]]
    BY <1>5 DEF FlReadField, clockVars, loopVars
  <2>2. FileMinute' = K /\ ShownMinute' = s
    BY <2>1, SameMinutes
  <2>3. fpc \notin {"first", "poll"} \/ K = s => K = s /\ NamedAfter(file, K)
    BY <1>a, <2>1
  <2>4. /\ clock["min"] = FieldsOf(s).min
        /\ clock[f] \in {FieldsOf(s)[f], FieldsOf(s - 1)[f]}
    BY <1>0 DEF ClockFields
  <2> HIDE DEF K, s
  <2>5. K = s /\ NamedAfter(file, K) => NamedAfter(file', K)
    <3> SUFFICES ASSUME K = s, NamedAfter(file, K) PROVE NamedAfter(file', K)
      OBVIOUS
    <3>1. DOMAIN file' = DOMAIN file \cup {f} /\ file'[f] = clock[f]
          /\ \A g \in DOMAIN file : file'[g] = file[g]
      BY <2>1
    <3>2. "min" \in DOMAIN file' => file'["min"] = FieldsOf(K).min
      BY <2>4, <3>1 DEF NamedAfter
    <3>3. ASSUME NEW g \in DOMAIN file'
          PROVE  file'[g] \in {FieldsOf(K)[g], FieldsOf(K - 1)[g]}
      BY <2>4, <3>1 DEF NamedAfter
    <3> QED  BY <3>2, <3>3 DEF NamedAfter
  <2>6. s \in Nat
    BY <1>0
  <2> QED  BY <1>0, <1>a, <2>1, <2>2, <2>3, <2>5, <2>6, <1>b
<1>6. CASE FlOpen
  <2>1. /\ UNCHANGED <<now, clock, fSec, prevMin, file>>
        /\ \/ fpc = "first" /\ fpc' = "poll"
           \/ fpc = "open" /\ fpc' = "index"
    BY <1>6 DEF FlOpen, clockVars, loopVars, fileVars
  <2>2. FileMinute' = K /\ ShownMinute' = s
    BY <2>1, SameMinutes
  <2> HIDE DEF K, s
  <2>3. s \in Nat /\ fSec < MinuteStart(K + 1)
    BY <1>0, <1>a, <2>1
  <2>4. fpc' = "poll" => fSec < MinuteStart(K + 1) + MaxReadLag
    BY <1>0, <2>3
  <2>5. fpc' \notin {"first", "poll"} \/ K = s => NamedAfter(file, K)
    BY <1>a, <2>1
  <2> QED  BY <1>0, <1>a, <2>1, <2>2, <2>3, <2>4, <2>5, <1>b
<1>7. CASE FlIndex \/ FlTakeSlot \/ FlReport \/ FlLeaveSlot \/ FlNext
  <2>1. /\ UNCHANGED <<now, clock, prevMin, file>> /\ fSec' \in {fSec, fSec + 1}
        /\ fpc' \in {"drain", "slots", "reports"}
        /\ fpc \notin {"first", "poll"}
    BY <1>7 DEF FlIndex, FlTakeSlot, FlReport, FlLeaveSlot, FlNext, clockVars,
                fileVars, loopVars
  <2>2. fSec' \in Nat /\ fSec' >= fSec
    BY <1>0, <2>1
  <2> QED  BY <2>1, <2>2, <1>c
<1>8. CASE FlDrain
  <2>1. /\ UNCHANGED <<now, clock, prevMin, file, fSec>> /\ fpc = "drain"
        /\ fpc' = IF flLastIndex = flCurIndex THEN "poll" ELSE "slots"
    BY <1>8 DEF FlDrain, clockVars, fileVars
  <2>2. fpc' = "poll" => fSec < MinuteStart(K + 1) + MaxReadLag
    BY <1>8, <2>1, DrainedOrBehind
  <2> QED  BY <1>0, <2>1, <2>2, <1>c
<1> QED
  BY <1>1, <1>2, <1>3, <1>4, <1>5, <1>6, <1>7, <1>8
  DEF FlushNext, flushVars, clockVars, fileVars, loopVars, SmFlush, ManagerStep,
      SmStore, SmCount, Flusher

-----------------------------------------------------------------------------
(* The slots and the reports in them.                                      *)

LEMMA FlusherTypes ==
  ASSUME FlushInv
  PROVE  /\ Manager \subseteq Row /\ SM_INSTANCES \in Nat /\ NoReport \notin Report
         /\ flLastIndex \in Slots
         /\ flTurn < SM_INSTANCES => flTurn \in Row
         /\ fpc = "reports" => flTurn \in Row
         /\ \A m \in Manager : mIdx[m] \in Slots
         /\ DOMAIN flStore = Row /\ \A m \in Row : DOMAIN flStore[m] = Slots
         /\ flCnt \in [Row -> [Slots -> Nat]]
<1>1. Manager \subseteq Row /\ SM_INSTANCES \in Nat /\ NoReport \notin Report
  BY FlushRingAssumption DEF Row
<1>2. FlushShapes
  BY DEF FlushInv
<1>3. flTurn < SM_INSTANCES => flTurn \in Row
  BY <1>1, <1>2 DEF FlushShapes, FlushTypeOK, Row
<1> QED  BY <1>1, <1>2, <1>3 DEF FlushShapes, FlushTypeOK

\* The flusher is at a second that is over, and no more than its lag away
\* from the one a manager is filling: their slots differ.
LEMMA FlSlotsDiffer ==
  ASSUME FlushInv, NEW m \in Manager, mgrPc[m] # "idle", InFlushLoop
  PROVE  mIdx[m] # flLastIndex
<1> DEFINE s == flushedAt[mReport[m]]
           t == s + 1
<1>1. ManagerHand(m)
  BY DEF FlushInv, ManagerHands
<1>2. /\ s \in Nat /\ t \in Nat /\ fSec \in Nat /\ now \in Nat
      /\ s <= now /\ now <= s + MaxWriteDelay /\ mIdx[m] = PKT_WRITE_TIME_INDEX(s)
  BY <1>1, MinuteTypes DEF ManagerHand, FlushInv, FlushShapes, FlushTypeOK
<1>3. fSec < now /\ now - fSec <= MaxReadLag /\ flLastIndex = READ_TIME_INDEX(fSec)
  BY InLoopBehind DEF FlushInv, FlusherSeconds
<1>4. mIdx[m] = READ_TIME_INDEX(t)
  BY <1>2, WriteIsSucc
<1>5. fSec < t /\ t - fSec < TIME_INDEX
  BY <1>2, <1>3, RingClockAssumption, SchedulingAssumption, TimeIndexAssumption
<1> HIDE DEF t
<1>6. READ_TIME_INDEX(fSec) # READ_TIME_INDEX(t)
  BY <1>2, <1>5, SlotsOfALapDiffer
<1> QED  BY <1>3, <1>4, <1>6

\* A slot at which neither side is has the numbers below its count.
LEMMA QuietSlot ==
  ASSUME FlushInv, NEW m \in Row, NEW i \in Slots,
         ~ Counting(m, i), ~ Emptying(m, i)
  PROVE  /\ flCnt[m][i] \in Nat
         /\ DOMAIN flStore[m][i] = 0 .. (flCnt[m][i] - 1)
BY FlusherTypes DEF FlushInv, SlotsNumbered, SlotNumbers

\* What storing a report does: it gets the next number of its slot.
LEMMA StoreMoves ==
  ASSUME FlushInv, NEW m \in Manager, SmStore(m)
  PROVE  \E i \in Slots, n \in Nat :
           /\ m \in Row /\ i = mIdx[m] /\ n = flCnt[m][i]
           /\ mReport[m] \in Report /\ mgrPc[m] = "store"
           /\ DOMAIN flStore[m][i] = 0 .. (n - 1)
           /\ DOMAIN flStore' = Row /\ \A q \in Row : DOMAIN flStore'[q] = Slots
           /\ \A q \in Row : \A j \in Slots : ~ (q = m /\ j = i) =>
                flStore'[q][j] = flStore[q][j]
           /\ DOMAIN flStore'[m][i] = DOMAIN flStore[m][i] \cup {n}
           /\ flStore'[m][i][n] = mReport[m]
           /\ \A k \in DOMAIN flStore[m][i] :
                k # n /\ flStore'[m][i][k] = flStore[m][i][k]
<1>0. PICK i \in Slots, n \in Nat : i = mIdx[m] /\ n = flCnt[m][i]
  <2>1. m \in Row /\ mIdx[m] \in Slots /\ flCnt[m][mIdx[m]] \in Nat
    BY FlusherTypes
  <2> QED  BY <2>1
<1> DEFINE old == flStore[m][i]
           new == [k \in DOMAIN old \cup {n} |-> IF k = n THEN mReport[m] ELSE old[k]]
<1>1. m \in Row /\ mgrPc[m] = "store"
  BY FlusherTypes DEF SmStore
<1>2. mReport[m] \in Report
  BY <1>1 DEF FlushInv, ManagerHands, ManagerHand
<1>3. ~ Counting(m, i)
  BY <1>1 DEF Counting
<1>4. ~ Emptying(m, i)
  BY <1>0, <1>1, FlSlotsDiffer DEF Emptying, InFlushLoop
<1>5. DOMAIN old = 0 .. (n - 1)
  BY <1>0, <1>1, <1>3, <1>4, QuietSlot
<1>6. flStore' = [flStore EXCEPT ![m][i] = new]
  BY <1>0 DEF SmStore
<1>7. DOMAIN flStore = Row /\ \A q \in Row : DOMAIN flStore[q] = Slots
  BY FlusherTypes
<1> HIDE DEF new
<1>8. /\ DOMAIN flStore' = Row /\ \A q \in Row : DOMAIN flStore'[q] = Slots
      /\ \A q \in Row : \A j \in Slots : ~ (q = m /\ j = i) =>
           flStore'[q][j] = flStore[q][j]
      /\ flStore'[m][i] = new
  BY <1>1, <1>6, <1>7
<1>9. /\ DOMAIN new = DOMAIN old \cup {n} /\ new[n] = mReport[m]
      /\ \A k \in DOMAIN old : k # n /\ new[k] = old[k]
  BY <1>5 DEF new
<1> QED  BY <1>0, <1>1, <1>2, <1>5, <1>8, <1>9

\* What writing a report does: it leaves its slot.
LEMMA ReportMoves ==
  ASSUME FlushInv, FlReport
  PROVE  \E n \in DOMAIN flStore[flTurn][flLastIndex] :
           /\ flTurn \in Row /\ flLastIndex \in Slots /\ fpc = "reports"
           /\ written' = written \cup {<<flStore[flTurn][flLastIndex][n], file>>}
           /\ flCnt' = [flCnt EXCEPT ![flTurn][flLastIndex]
                          = flCnt[flTurn][flLastIndex] - 1]
           /\ DOMAIN flStore' = Row /\ \A q \in Row : DOMAIN flStore'[q] = Slots
           /\ \A q \in Row : \A j \in Slots : ~ (q = flTurn /\ j = flLastIndex) =>
                flStore'[q][j] = flStore[q][j]
           /\ DOMAIN flStore'[flTurn][flLastIndex]
                = DOMAIN flStore[flTurn][flLastIndex] \ {n}
           /\ \A k \in DOMAIN flStore'[flTurn][flLastIndex] :
                flStore'[flTurn][flLastIndex][k] = flStore[flTurn][flLastIndex][k]
<1> DEFINE m == flTurn
           i == flLastIndex
           old == flStore[m][i]
<1>1. m \in Row /\ i \in Slots /\ fpc = "reports"
  BY FlusherTypes DEF FlReport
<1>2. PICK n \in DOMAIN old :
        /\ written' = written \cup {<<old[n], file>>}
        /\ flStore' = [flStore EXCEPT ![m][i] = [k \in DOMAIN old \ {n} |-> old[k]]]
        /\ flCnt' = [flCnt EXCEPT ![m][i] = flCnt[m][i] - 1]
  BY DEF FlReport
<1> DEFINE new == [k \in DOMAIN old \ {n} |-> old[k]]
<1>3. flStore' = [flStore EXCEPT ![m][i] = new]
  BY <1>2
<1>4. DOMAIN flStore = Row /\ \A q \in Row : DOMAIN flStore[q] = Slots
  BY FlusherTypes
<1> HIDE DEF new
<1>5. /\ DOMAIN flStore' = Row /\ \A q \in Row : DOMAIN flStore'[q] = Slots
      /\ \A q \in Row : \A j \in Slots : ~ (q = m /\ j = i) =>
           flStore'[q][j] = flStore[q][j]
      /\ flStore'[m][i] = new
  BY <1>1, <1>3, <1>4
<1>6. DOMAIN new = DOMAIN old \ {n} /\ \A k \in DOMAIN new : new[k] = old[k]
  BY DEF new
<1> QED  BY <1>1, <1>2, <1>5, <1>6

LEMMA FlushCntStep ==
  ASSUME FlushInv, NEW m \in Row, NEW i \in Slots, NEW c \in Nat
  PROVE  /\ [flCnt EXCEPT ![m][i] = c] \in [Row -> [Slots -> Nat]]
         /\ [flCnt EXCEPT ![m][i] = c][m][i] = c
         /\ \A q \in Row : \A j \in Slots : ~ (q = m /\ j = i) =>
              [flCnt EXCEPT ![m][i] = c][q][j] = flCnt[q][j]
<1>1. flCnt \in [Row -> [Slots -> Nat]] /\ flCnt[m] \in [Slots -> Nat]
  BY FlusherTypes
<1>2. [flCnt[m] EXCEPT ![i] = c] \in [Slots -> Nat]
  BY <1>1
<1> QED  BY <1>1, <1>2

\* A slot that is being emptied and has a report still counts one.
LEMMA EmptyingCounts ==
  ASSUME FlushInv, fpc = "reports", NEW n \in DOMAIN flStore[flTurn][flLastIndex]
  PROVE  LET D == DOMAIN flStore[flTurn][flLastIndex]
             c == flCnt[flTurn][flLastIndex]
         IN  /\ c \in Nat /\ c - 1 \in Nat
             /\ IsFiniteSet(D \ {n}) /\ Cardinality(D \ {n}) = c - 1
<1> DEFINE D == DOMAIN flStore[flTurn][flLastIndex]
           c == flCnt[flTurn][flLastIndex]
<1>1. flTurn \in Row /\ flLastIndex \in Slots /\ c \in Nat
  BY FlusherTypes
<1>2. Emptying(flTurn, flLastIndex)
  BY DEF Emptying
<1>3. IsFiniteSet(D) /\ Cardinality(D) = c
  BY <1>1, <1>2 DEF FlushInv, SlotsNumbered, SlotNumbers
<1> HIDE DEF D, c
<1>4. n \in D
  BY DEF D
<1>5. IsFiniteSet(D \ {n}) /\ Cardinality(D \ {n}) = Cardinality(D) - 1
  BY <1>3, <1>4, FS_RemoveElement
<1>6. Cardinality(D \ {n}) \in Nat
  BY <1>5, FS_CardinalityType
<1> QED  BY <1>1, <1>3, <1>5, <1>6 DEF D, c

LEMMA FlushShapesStep == FlushInv /\ [FlushNext]_flushVars => FlushShapes'
<1> SUFFICES ASSUME FlushInv, [FlushNext]_flushVars PROVE FlushShapes'
  OBVIOUS
<1>0. FlushShapes /\ FlushTypeOK
  BY DEF FlushInv, FlushShapes
<1>a. SM_INSTANCES \in Nat /\ Manager \subseteq Row
  BY FlusherTypes
<1>1. CASE Timer
  <2>1. clock' \in [Field -> Nat]
    <3> DEFINE k == MinuteNo(now + 1)
    <3>1. clock \in [Field -> Nat] /\ now + 1 \in Nat
      BY <1>0 DEF FlushTypeOK
    <3>2. k \in Nat
      BY <3>1, MinuteOf
    <3>3. FieldsOf(k) \in [Field -> Nat]
      BY <3>2, FieldsTyped
    <3>4. \/ clock' = clock
          \/ \E f \in Field : clock' = [clock EXCEPT ![f] = FieldsOf(k)[f]]
      BY <1>1 DEF Timer, StoreSecond, StoreField
    <3> HIDE DEF k
    <3> QED  BY <3>1, <3>3, <3>4
  <2>2. now' \in {now, now + 1} /\ (now' = now + 1 => now < MaxSec)
    BY <1>1 DEF Timer, StoreSecond, StoreField, TimerMay
  <2>3. UNCHANGED <<repoVars, managerVars, fpc, fileVars, loopVars, written>>
    BY <1>1 DEF Timer, StoreSecond, StoreField
  <2>4. now' \in Nat /\ now' >= 1 /\ now' >= FirstSec /\ (now' = FirstSec \/ now' <= MaxSec)
    BY <1>0, <2>2, RingClockAssumption DEF FlushShapes, FlushTypeOK
  <2> QED  BY <1>0, <2>1, <2>3, <2>4
           DEF FlushShapes, FlushTypeOK, repoVars, managerVars, fileVars, loopVars
<1>2. ASSUME NEW m \in Manager, SmFlush(m) PROVE FlushShapes'
  <2>1. PKT_WRITE_TIME_INDEX(now) \in Slots
    <3> DEFINE t == now + 1
    <3>1. now \in Nat /\ t \in Nat  BY <1>0 DEF FlushTypeOK
    <3>2. PKT_WRITE_TIME_INDEX(now) = READ_TIME_INDEX(t)  BY <3>1, WriteIsSucc
    <3> HIDE DEF t
    <3> QED  BY <3>1, <3>2, ReadIndexIsSlot
  <2>2. /\ UNCHANGED <<now, clock, flStore, flCnt, fpc, prevMin, file, flLastIndex,
                       flCurIndex, flTurn, fSec, written>>
        /\ mIdx' \in [Manager -> Slots]
        /\ mgrPc' \in [Manager -> {"idle", "store", "count"}]
        /\ mReport' \in [Manager -> Report \cup {NoReport}]
        /\ flushedAt' \in [Report -> Nat]
    BY <1>0, <1>2, <2>1
    DEF FlushTypeOK, SmFlush, clockVars, repoVars, fileVars, loopVars
  <2> QED  BY <1>0, <2>2 DEF FlushShapes, FlushTypeOK
<1>3. ASSUME NEW m \in Manager, SmStore(m) PROVE FlushShapes'
  <2>1. PICK i \in Slots, n \in Nat :
          /\ m \in Row /\ i = mIdx[m] /\ n = flCnt[m][i]
          /\ mReport[m] \in Report /\ mgrPc[m] = "store"
          /\ DOMAIN flStore[m][i] = 0 .. (n - 1)
          /\ DOMAIN flStore' = Row /\ \A q \in Row : DOMAIN flStore'[q] = Slots
          /\ \A q \in Row : \A j \in Slots : ~ (q = m /\ j = i) =>
               flStore'[q][j] = flStore[q][j]
          /\ DOMAIN flStore'[m][i] = DOMAIN flStore[m][i] \cup {n}
          /\ flStore'[m][i][n] = mReport[m]
          /\ \A k \in DOMAIN flStore[m][i] :
               k # n /\ flStore'[m][i][k] = flStore[m][i][k]
    BY <1>3, StoreMoves
  <2>2. ASSUME NEW q \in Row, NEW j \in Slots, NEW k \in DOMAIN flStore'[q][j]
        PROVE  k \in Nat /\ flStore'[q][j][k] \in Report
    <3>1. \A y \in DOMAIN flStore[q][j] : y \in Nat /\ flStore[q][j][y] \in Report
      BY <1>0 DEF FlushTypeOK
    <3>2. CASE q = m /\ j = i
      BY <2>1, <2>2, <3>1, <3>2
    <3>3. CASE ~ (q = m /\ j = i)
      BY <2>1, <2>2, <3>1, <3>3
    <3> QED  BY <3>2, <3>3
  <2>3. /\ UNCHANGED <<now, clock, flCnt, fpc, prevMin, file, flLastIndex, mReport,
                       mIdx, flushedAt, flCurIndex, flTurn, fSec, written>>
        /\ mgrPc' \in [Manager -> {"idle", "store", "count"}]
    BY <1>0, <1>3 DEF FlushTypeOK, SmStore, clockVars, fileVars, loopVars
  <2> QED  BY <1>0, <2>1, <2>2, <2>3 DEF FlushShapes, FlushTypeOK
<1>4. ASSUME NEW m \in Manager, SmCount(m) PROVE FlushShapes'
  <2>1. m \in Row /\ mIdx[m] \in Slots /\ flCnt[m][mIdx[m]] + 1 \in Nat
    BY <1>a, FlusherTypes
  <2>2. flCnt' = [flCnt EXCEPT ![m][mIdx[m]] = flCnt[m][mIdx[m]] + 1]
    BY <1>4 DEF SmCount
  <2>3. flCnt' \in [Row -> [Slots -> Nat]]
    BY <2>1, <2>2, FlushCntStep
  <2>4. /\ UNCHANGED <<now, clock, flStore, fpc, prevMin, file, flLastIndex, mIdx,
                       flushedAt, flCurIndex, flTurn, fSec, written>>
        /\ mgrPc' \in [Manager -> {"idle", "store", "count"}]
        /\ mReport' \in [Manager -> Report \cup {NoReport}]
    BY <1>0, <1>4 DEF FlushTypeOK, SmCount, clockVars, fileVars, loopVars
  <2> QED  BY <1>0, <2>3, <2>4 DEF FlushShapes, FlushTypeOK
<1>5. CASE FlRotate
  <2>1. clock.min \in Nat
    BY <1>0 DEF FlushTypeOK, Field
  <2>2. /\ UNCHANGED <<now, clock, flStore, flCnt, flLastIndex, mIdx, mgrPc, mReport,
                       flushedAt, flCurIndex, flTurn, fSec, written>>
        /\ prevMin' = clock.min /\ file' = [f \in {} |-> 0] /\ fpc' = "open"
    BY <1>5 DEF FlRotate, clockVars, repoVars, managerVars, loopVars
  <2>3. DOMAIN file' = {} /\ file' = [f \in DOMAIN file' |-> file'[f]]
    BY <2>2
  <2> QED  BY <1>0, <2>1, <2>2, <2>3 DEF FlushShapes, FlushTypeOK
<1>6. CASE FlSameMinute \/ FlOpen \/ FlIndex \/ FlDrain
  <2>1. READ_TIME_INDEX(now) \in Slots /\ 0 \in 0 .. SM_INSTANCES
    BY <1>0, <1>a, ReadIndexIsSlot DEF FlushTypeOK
  <2>2. /\ UNCHANGED <<now, clock, flStore, flCnt, flLastIndex, mIdx, mgrPc, mReport,
                       flushedAt, fSec, written, prevMin, file>>
        /\ flCurIndex' \in Slots /\ flTurn' \in 0 .. SM_INSTANCES
        /\ fpc' \in {"poll", "index", "drain", "slots"}
        /\ DOMAIN file = Field
    BY <1>0, <1>6, <2>1
    DEF FlushShapes, FlushTypeOK, FlSameMinute, FlOpen, FlIndex, FlDrain, clockVars,
        repoVars, managerVars, loopVars, fileVars
  <2> QED  BY <1>0, <2>2 DEF FlushShapes, FlushTypeOK
<1>7. ASSUME NEW f \in Field, FlReadField(f) PROVE FlushShapes'
  <2>1. /\ UNCHANGED <<now, clock, flStore, flCnt, flLastIndex, mIdx, mgrPc, mReport,
                       flushedAt, fSec, written, prevMin, fpc, flCurIndex, flTurn>>
        /\ fpc \in {"first", "open"}
        /\ file' = [g \in DOMAIN file \cup {f} |-> IF g = f THEN clock[f] ELSE file[g]]
    BY <1>7 DEF FlReadField, clockVars, repoVars, managerVars, loopVars
  <2>2. clock[f] \in Nat
    BY <1>0 DEF FlushTypeOK
  <2>3. /\ DOMAIN file' = DOMAIN file \cup {f}
        /\ file' = [g \in DOMAIN file' |-> file'[g]]
        /\ \A g \in DOMAIN file' : file'[g] \in Nat
    BY <1>0, <2>1, <2>2 DEF FlushShapes
  <2> QED  BY <1>0, <2>1, <2>3 DEF FlushShapes, FlushTypeOK
<1>8. CASE FlTakeSlot
  <2>1. /\ UNCHANGED <<now, clock, flStore, flCnt, flLastIndex, mIdx, mgrPc, mReport,
                       flushedAt, fSec, written, prevMin, file, flCurIndex>>
        /\ flTurn' \in 0 .. SM_INSTANCES
        /\ fpc' \in {"slots", "reports"} /\ (fpc' = "reports" => flTurn' < SM_INSTANCES)
        /\ DOMAIN file = Field
    BY <1>0, <1>a, <1>8
    DEF FlushShapes, FlushTypeOK, FlTakeSlot, clockVars, repoVars, managerVars, fileVars
  <2> QED  BY <1>0, <2>1 DEF FlushShapes, FlushTypeOK
<1>9. CASE FlReport
  <2>1. PICK n \in DOMAIN flStore[flTurn][flLastIndex] :
          /\ flTurn \in Row /\ flLastIndex \in Slots /\ fpc = "reports"
          /\ written' = written \cup {<<flStore[flTurn][flLastIndex][n], file>>}
          /\ flCnt' = [flCnt EXCEPT ![flTurn][flLastIndex]
                         = flCnt[flTurn][flLastIndex] - 1]
          /\ DOMAIN flStore' = Row /\ \A q \in Row : DOMAIN flStore'[q] = Slots
          /\ \A q \in Row : \A j \in Slots : ~ (q = flTurn /\ j = flLastIndex) =>
               flStore'[q][j] = flStore[q][j]
          /\ DOMAIN flStore'[flTurn][flLastIndex]
               = DOMAIN flStore[flTurn][flLastIndex] \ {n}
          /\ \A k \in DOMAIN flStore'[flTurn][flLastIndex] :
               flStore'[flTurn][flLastIndex][k] = flStore[flTurn][flLastIndex][k]
    BY <1>9, ReportMoves
  <2>2. ASSUME NEW q \in Row, NEW j \in Slots, NEW k \in DOMAIN flStore'[q][j]
        PROVE  k \in Nat /\ flStore'[q][j][k] \in Report
    <3>1. \A y \in DOMAIN flStore[q][j] : y \in Nat /\ flStore[q][j][y] \in Report
      BY <1>0 DEF FlushTypeOK
    <3>2. CASE q = flTurn /\ j = flLastIndex
      BY <2>1, <2>2, <3>1, <3>2
    <3>3. CASE ~ (q = flTurn /\ j = flLastIndex)
      BY <2>1, <2>2, <3>1, <3>3
    <3> QED  BY <3>2, <3>3
  <2>3. flCnt[flTurn][flLastIndex] - 1 \in Nat
    BY <2>1, EmptyingCounts
  <2>4. flCnt' \in [Row -> [Slots -> Nat]]
    BY <2>1, <2>3, FlushCntStep
  <2>5. \A w \in written' : w[1] \in Report /\ w[2] \in [Field -> Nat]
    <3>1. file \in [Field -> Nat]
      BY <1>0, <2>1 DEF FlushShapes
    <3>2. flStore[flTurn][flLastIndex][n] \in Report
      BY <1>0, <2>1 DEF FlushTypeOK
    <3> QED  BY <1>0, <2>1, <3>1, <3>2 DEF FlushTypeOK
  <2>6. UNCHANGED <<now, clock, flLastIndex, mIdx, mgrPc, mReport, fpc, flTurn,
                    flushedAt, fSec, prevMin, file, flCurIndex>>
    BY <1>9 DEF FlReport, clockVars, managerVars, fileVars, loopVars
  <2> QED  BY <1>0, <2>1, <2>2, <2>4, <2>5, <2>6 DEF FlushShapes, FlushTypeOK
<1>10. CASE FlLeaveSlot
  <2>1. flTurn \in Row /\ flLastIndex \in Slots /\ fpc = "reports"
    BY <1>10, FlusherTypes DEF FlLeaveSlot
  <2>2. flCnt' \in [Row -> [Slots -> Nat]]
    BY <1>10, <2>1, FlushCntStep DEF FlLeaveSlot
  <2>3. flTurn' \in 0 .. SM_INSTANCES /\ fpc' = "slots" /\ DOMAIN file = Field
    BY <1>0, <1>a, <1>10, <2>1 DEF FlLeaveSlot, Row, FlushShapes, FlushTypeOK
  <2>4. UNCHANGED <<now, clock, flStore, flLastIndex, mIdx, mgrPc, mReport,
                    flushedAt, fSec, prevMin, file, flCurIndex, written>>
    BY <1>10 DEF FlLeaveSlot, clockVars, managerVars, fileVars
  <2> QED  BY <1>0, <2>2, <2>3, <2>4 DEF FlushShapes, FlushTypeOK
<1>11. CASE FlNext
  <2>1. flLastIndex' \in Slots
    BY <1>0, <1>11, TimeIndexAssumption
    DEF FlushTypeOK, FlNext, READ_NEXT_TIME_INDEX, Slots
  <2>2. fSec' \in Nat /\ fpc' = "drain" /\ DOMAIN file = Field
    BY <1>0, <1>11 DEF FlNext, FlushShapes, FlushTypeOK
  <2>3. UNCHANGED <<now, clock, flStore, flCnt, mIdx, mgrPc, mReport, flTurn,
                    flushedAt, prevMin, file, flCurIndex, written>>
    BY <1>11 DEF FlNext, clockVars, repoVars, managerVars, fileVars
  <2> QED  BY <1>0, <2>1, <2>2, <2>3 DEF FlushShapes, FlushTypeOK
<1>12. CASE UNCHANGED flushVars
  BY <1>0, <1>12 DEF FlushShapes, FlushTypeOK, flushVars, clockVars, repoVars,
                     managerVars, fileVars, loopVars
<1> QED
  BY <1>1, <1>2, <1>3, <1>4, <1>5, <1>6, <1>7, <1>8, <1>9, <1>10, <1>11, <1>12
  DEF FlushNext, ManagerStep, Flusher

LEMMA ManagerHandsStep == FlushInv /\ [FlushNext]_flushVars => ManagerHands'
<1> SUFFICES ASSUME FlushInv, [FlushNext]_flushVars, NEW q \in Manager
             PROVE  ManagerHand(q)'
  BY DEF ManagerHands
<1>0. /\ ManagerHand(q) /\ now \in Nat /\ now >= 1
      /\ flushedAt \in [Report -> Nat] /\ NoReport \notin Report
      /\ mgrPc \in [Manager -> {"idle", "store", "count"}]
      /\ mReport \in [Manager -> Report \cup {NoReport}]
      /\ mIdx \in [Manager -> Slots]
      /\ MaxWriteDelay \in Nat
  BY FlusherTypes, RingClockAssumption
  DEF FlushInv, ManagerHands, FlushShapes, FlushTypeOK
<1>1. CASE Timer
  <2>1. /\ UNCHANGED <<mgrPc, mReport, mIdx, flushedAt>> /\ now' \in {now, now + 1}
        /\ mgrPc[q] # "idle" => now + 1 <= flushedAt[mReport[q]] + MaxWriteDelay
    BY <1>1 DEF Timer, StoreSecond, StoreField, TimerMay, managerVars
  <2> QED  BY <1>0, <2>1 DEF ManagerHand
<1>2. ASSUME NEW m \in Manager, SmFlush(m) PROVE ManagerHand(q)'
  <2>1. PICK x \in Report :
          /\ flushedAt[x] = 0
          /\ flushedAt' = [flushedAt EXCEPT ![x] = now]
          /\ mReport' = [mReport EXCEPT ![m] = x]
    BY <1>2 DEF SmFlush
  <2>2. /\ now' = now /\ mIdx' = [mIdx EXCEPT ![m] = PKT_WRITE_TIME_INDEX(now)]
        /\ mgrPc' = [mgrPc EXCEPT ![m] = "store"]
    BY <1>2 DEF SmFlush, clockVars
  <2>3. CASE q = m
    BY <1>0, <2>1, <2>2, <2>3 DEF ManagerHand
  <2>4. CASE q # m
    <3>1. mReport'[q] = mReport[q] /\ mIdx'[q] = mIdx[q] /\ mgrPc'[q] = mgrPc[q]
      BY <1>0, <2>1, <2>2, <2>4
    <3>2. mgrPc[q] # "idle" =>
            mReport[q] # x /\ flushedAt'[mReport[q]] = flushedAt[mReport[q]]
      BY <1>0, <2>1 DEF ManagerHand
    <3> QED  BY <1>0, <2>2, <3>1, <3>2 DEF ManagerHand
  <2> QED  BY <2>3, <2>4
<1>3. ASSUME NEW m \in Manager, SmStore(m) PROVE ManagerHand(q)'
  <2>1. /\ UNCHANGED <<now, mReport, mIdx, flushedAt>> /\ mgrPc[m] = "store"
        /\ mgrPc' = [mgrPc EXCEPT ![m] = "count"]
    BY <1>3 DEF SmStore, clockVars
  <2> QED  BY <1>0, <2>1 DEF ManagerHand
<1>4. ASSUME NEW m \in Manager, SmCount(m) PROVE ManagerHand(q)'
  <2>1. /\ UNCHANGED <<now, mIdx, flushedAt>>
        /\ mgrPc' = [mgrPc EXCEPT ![m] = "idle"]
        /\ mReport' = [mReport EXCEPT ![m] = NoReport]
    BY <1>4 DEF SmCount, clockVars
  <2> QED  BY <1>0, <2>1 DEF ManagerHand
<1>5. CASE UNCHANGED <<now, managerVars>>
  BY <1>0, <1>5 DEF ManagerHand, managerVars
<1> QED
  BY <1>1, <1>2, <1>3, <1>4, <1>5
  DEF FlushNext, flushVars, clockVars, ManagerStep, Flusher, FlRotate, FlSameMinute,
      FlOpen, FlIndex, FlDrain, FlReadField, FlTakeSlot, FlReport, FlLeaveSlot, FlNext

\* The numbers of a slot, through every step.
LEMMA SlotsNumberedStep == FlushInv /\ [FlushNext]_flushVars => SlotsNumbered'
<1> SUFFICES ASSUME FlushInv, [FlushNext]_flushVars, NEW q \in Row, NEW j \in Slots
             PROVE  SlotNumbers(q, j)'
  BY FlusherTypes DEF SlotsNumbered
<1>0. /\ SlotNumbers(q, j) /\ flCnt[q][j] \in Nat
      /\ mgrPc \in [Manager -> {"idle", "store", "count"}]
      /\ mReport \in [Manager -> Report \cup {NoReport}]
      /\ mIdx \in [Manager -> Slots]
      /\ flCnt \in [Row -> [Slots -> Nat]]
  BY FlusherTypes DEF FlushInv, SlotsNumbered, FlushShapes, FlushTypeOK
\* A slot whose contents and whose visitors stay.
<1>a. ASSUME flStore'[q][j] = flStore[q][j], flCnt'[q][j] = flCnt[q][j],
             Counting(q, j)' <=> Counting(q, j),
             Counting(q, j) => mReport'[q] = mReport[q],
             Emptying(q, j)' <=> Emptying(q, j)
      PROVE  SlotNumbers(q, j)'
  BY <1>0, <1>a DEF SlotNumbers
<1>1. CASE UNCHANGED <<repoVars, managerVars, fpc, flTurn, flLastIndex>>
  BY <1>1, <1>a DEF repoVars, managerVars, Counting, Emptying
<1>2. CASE UNCHANGED <<repoVars, managerVars>> /\ fpc # "reports" /\ fpc' # "reports"
  BY <1>2, <1>a DEF repoVars, managerVars, Counting, Emptying
<1>3. ASSUME NEW m \in Manager, SmFlush(m) PROVE SlotNumbers(q, j)'
  <2>1. /\ UNCHANGED <<flStore, flCnt, fpc, flTurn, flLastIndex>> /\ mgrPc[m] = "idle"
        /\ mgrPc' = [mgrPc EXCEPT ![m] = "store"]
        /\ \A p \in Manager : p # m => mIdx'[p] = mIdx[p] /\ mReport'[p] = mReport[p]
    BY <1>0, <1>3 DEF SmFlush, repoVars, loopVars
  <2>2. Emptying(q, j)' <=> Emptying(q, j)
    BY <2>1 DEF Emptying
  <2>3. CASE q = m
    BY <1>0, <1>a, <2>1, <2>2, <2>3 DEF Counting
  <2>4. CASE q # m
    <3>1. q \in Manager => mgrPc'[q] = mgrPc[q] /\ mIdx'[q] = mIdx[q]
                           /\ mReport'[q] = mReport[q]
      BY <1>0, <2>1, <2>4
    <3> QED  BY <1>a, <2>1, <2>2, <3>1 DEF Counting
  <2> QED  BY <2>3, <2>4
<1>4. ASSUME NEW m \in Manager, SmStore(m) PROVE SlotNumbers(q, j)'
  <2>1. PICK i \in Slots, n \in Nat :
          /\ m \in Row /\ i = mIdx[m] /\ n = flCnt[m][i]
          /\ mReport[m] \in Report /\ mgrPc[m] = "store"
          /\ DOMAIN flStore[m][i] = 0 .. (n - 1)
          /\ DOMAIN flStore' = Row /\ \A p \in Row : DOMAIN flStore'[p] = Slots
          /\ \A p \in Row : \A k \in Slots : ~ (p = m /\ k = i) =>
               flStore'[p][k] = flStore[p][k]
          /\ DOMAIN flStore'[m][i] = DOMAIN flStore[m][i] \cup {n}
          /\ flStore'[m][i][n] = mReport[m]
          /\ \A k \in DOMAIN flStore[m][i] :
               k # n /\ flStore'[m][i][k] = flStore[m][i][k]
    BY <1>4, StoreMoves
  <2>2. /\ UNCHANGED <<flCnt, fpc, flTurn, flLastIndex, mIdx, mReport>>
        /\ mgrPc' = [mgrPc EXCEPT ![m] = "count"]
    BY <1>4 DEF SmStore, loopVars
  <2>3. Emptying(q, j)' <=> Emptying(q, j)
    BY <2>2 DEF Emptying
  <2>4. CASE q = m /\ j = i
    <3>1. Counting(m, i)'
      BY <1>0, <2>1, <2>2 DEF Counting
    <3>2. ~ Emptying(m, i)
      BY <2>1, FlSlotsDiffer DEF Emptying, InFlushLoop
    <3>3. (0 .. (n - 1)) \cup {n} = 0 .. n
      BY <2>1
    <3>4. DOMAIN flStore'[m][i] = 0 .. flCnt'[m][i]
          /\ flStore'[m][i][flCnt'[m][i]] = mReport'[m]
      BY <2>1, <2>2, <3>3
    <3> QED  BY <2>3, <2>4, <3>1, <3>2, <3>4 DEF SlotNumbers
  <2>5. CASE ~ (q = m /\ j = i)
    <3>1. flStore'[q][j] = flStore[q][j]
      BY <2>1, <2>5
    <3>2. Counting(q, j)' <=> Counting(q, j)
      BY <1>0, <2>1, <2>2, <2>5 DEF Counting
    <3> QED  BY <1>a, <2>2, <2>3, <3>1, <3>2
  <2> QED  BY <2>4, <2>5
<1>5. ASSUME NEW m \in Manager, SmCount(m) PROVE SlotNumbers(q, j)'
  <2> DEFINE i == mIdx[m]
             n == flCnt[m][i]
  <2>1. m \in Row /\ i \in Slots /\ n \in Nat /\ n + 1 \in Nat
    BY FlusherTypes
  <2>2. /\ UNCHANGED <<flStore, fpc, flTurn, flLastIndex, mIdx>> /\ mgrPc[m] = "count"
        /\ mgrPc' = [mgrPc EXCEPT ![m] = "idle"]
        /\ mReport' = [mReport EXCEPT ![m] = NoReport]
        /\ flCnt' = [flCnt EXCEPT ![m][i] = n + 1]
    BY <1>5 DEF SmCount, loopVars
  <2>3. /\ flCnt'[m][i] = n + 1
        /\ \A p \in Row : \A k \in Slots : ~ (p = m /\ k = i) => flCnt'[p][k] = flCnt[p][k]
    <3> HIDE DEF i, n
    <3> QED  BY <2>1, <2>2, FlushCntStep
  <2>4. Emptying(q, j)' <=> Emptying(q, j)
    BY <2>2 DEF Emptying
  <2>5. CASE q = m /\ j = i
    <3>1. Counting(m, i)
      BY <2>2 DEF Counting
    <3>2. DOMAIN flStore[m][i] = 0 .. n
      BY <1>0, <2>5, <3>1 DEF SlotNumbers
    <3>3. ~ Counting(q, j)'
      BY <1>0, <2>2, <2>5 DEF Counting
    <3>4. ~ Emptying(m, i)
      BY <2>2, FlSlotsDiffer DEF Emptying, InFlushLoop
    <3>5. DOMAIN flStore'[q][j] = 0 .. (flCnt'[q][j] - 1)
      <4>1. (n + 1) - 1 = n
        BY <2>1
      <4> QED  BY <2>2, <2>3, <2>5, <3>2, <4>1
    <3> QED  BY <2>4, <2>5, <3>3, <3>4, <3>5 DEF SlotNumbers
  <2>6. CASE ~ (q = m /\ j = i)
    <3>1. flCnt'[q][j] = flCnt[q][j]
      BY <2>3, <2>6
    <3>2. Counting(q, j)' <=> Counting(q, j)
      BY <1>0, <2>2, <2>6 DEF Counting
    <3>3. Counting(q, j) => mReport'[q] = mReport[q]
      BY <1>0, <2>2, <2>6 DEF Counting
    <3> QED  BY <1>a, <2>2, <2>4, <3>1, <3>2, <3>3
  <2> QED  BY <2>5, <2>6
<1>6. CASE FlTakeSlot
  <2>1. /\ UNCHANGED <<flStore, flCnt, mgrPc, mIdx, mReport, flLastIndex>> /\ fpc = "slots"
        /\ \/ flTurn' = flTurn /\ fpc' = "reports" /\ flTurn < SM_INSTANCES
           \/ fpc' = "slots"
    BY <1>6 DEF FlTakeSlot, repoVars, managerVars
  <2>2. Counting(q, j)' <=> Counting(q, j)
    BY <2>1 DEF Counting
  <2>3. ~ Emptying(q, j)
    BY <2>1 DEF Emptying
  <2>4. CASE Emptying(q, j)'
    <3>1. q = flTurn /\ j = flLastIndex
      BY <2>1, <2>4 DEF Emptying
    <3>2. ~ Counting(q, j)
      BY <2>1, <3>1, FlSlotsDiffer DEF Counting, InFlushLoop
    <3>3. flCnt[q][j] \in Nat /\ DOMAIN flStore[q][j] = 0 .. (flCnt[q][j] - 1)
      BY <2>3, <3>2, QuietSlot
    <3> DEFINE n == flCnt[q][j]
    <3>4. IsFiniteSet(0 .. (n - 1)) /\ Cardinality(0 .. (n - 1)) = n
      <4> HIDE DEF n
      <4>1. n \in Nat
        BY <3>3 DEF n
      <4>2. n - 1 \in Int /\ (n - 1) - 0 + 1 = n /\ (0 > n - 1 => n = 0)
        BY <4>1
      <4> QED  BY <4>1, <4>2, FS_Interval
    <3> QED  BY <2>1, <2>2, <2>4, <3>2, <3>3, <3>4 DEF SlotNumbers
  <2>5. CASE ~ Emptying(q, j)'
    BY <1>a, <2>1, <2>2, <2>3, <2>5
  <2> QED  BY <2>4, <2>5
<1>7. CASE FlReport
  <2>1. PICK n \in DOMAIN flStore[flTurn][flLastIndex] :
          /\ flTurn \in Row /\ flLastIndex \in Slots /\ fpc = "reports"
          /\ written' = written \cup {<<flStore[flTurn][flLastIndex][n], file>>}
          /\ flCnt' = [flCnt EXCEPT ![flTurn][flLastIndex]
                         = flCnt[flTurn][flLastIndex] - 1]
          /\ DOMAIN flStore' = Row /\ \A p \in Row : DOMAIN flStore'[p] = Slots
          /\ \A p \in Row : \A k \in Slots : ~ (p = flTurn /\ k = flLastIndex) =>
               flStore'[p][k] = flStore[p][k]
          /\ DOMAIN flStore'[flTurn][flLastIndex]
               = DOMAIN flStore[flTurn][flLastIndex] \ {n}
          /\ \A k \in DOMAIN flStore'[flTurn][flLastIndex] :
               flStore'[flTurn][flLastIndex][k] = flStore[flTurn][flLastIndex][k]
    BY <1>7, ReportMoves
  <2>2. UNCHANGED <<fpc, flTurn, flLastIndex, mgrPc, mIdx, mReport>>
    BY <1>7 DEF FlReport, loopVars, managerVars
  <2>3. /\ Counting(q, j)' <=> Counting(q, j)
        /\ Emptying(q, j)' <=> Emptying(q, j)
    BY <2>2 DEF Counting, Emptying
  <2> DEFINE c == flCnt[flTurn][flLastIndex] - 1
             D == DOMAIN flStore[flTurn][flLastIndex] \ {n}
  <2>4. c \in Nat /\ IsFiniteSet(D) /\ Cardinality(D) = c
    BY <2>1, EmptyingCounts
  <2>5. /\ DOMAIN flStore'[flTurn][flLastIndex] = D
        /\ flCnt' = [flCnt EXCEPT ![flTurn][flLastIndex] = c]
    BY <2>1
  <2> HIDE DEF c, D
  <2>6. /\ flCnt'[flTurn][flLastIndex] = c
        /\ \A p \in Row : \A k \in Slots : ~ (p = flTurn /\ k = flLastIndex) =>
             flCnt'[p][k] = flCnt[p][k]
    BY <2>1, <2>4, <2>5, FlushCntStep
  <2>7. CASE q = flTurn /\ j = flLastIndex
    <3>1. Emptying(q, j) /\ ~ Counting(q, j)
      BY <2>1, <2>7, FlSlotsDiffer DEF Emptying, Counting, InFlushLoop
    <3> QED  BY <2>3, <2>4, <2>5, <2>6, <2>7, <3>1 DEF SlotNumbers
  <2>8. CASE ~ (q = flTurn /\ j = flLastIndex)
    BY <1>a, <2>1, <2>2, <2>3, <2>6, <2>8
  <2> QED  BY <2>7, <2>8
<1>8. CASE FlLeaveSlot
  <2>1. /\ UNCHANGED <<flStore, flLastIndex, mgrPc, mIdx, mReport>>
        /\ fpc = "reports" /\ fpc' = "slots"
        /\ DOMAIN flStore[flTurn][flLastIndex] = {}
        /\ flCnt' = [flCnt EXCEPT ![flTurn][flLastIndex] = 0]
        /\ flTurn \in Row /\ flLastIndex \in Slots
    BY <1>8, FlusherTypes DEF FlLeaveSlot, managerVars
  <2>2. (Counting(q, j)' <=> Counting(q, j)) /\ ~ Emptying(q, j)'
    BY <2>1 DEF Counting, Emptying
  <2>3. /\ flCnt'[flTurn][flLastIndex] = 0
        /\ \A p \in Row : \A k \in Slots : ~ (p = flTurn /\ k = flLastIndex) =>
             flCnt'[p][k] = flCnt[p][k]
    BY <2>1, FlushCntStep
  <2>4. CASE q = flTurn /\ j = flLastIndex
    <3>1. ~ Counting(q, j)
      BY <2>1, <2>4, FlSlotsDiffer DEF Counting, InFlushLoop
    <3>2. 0 .. (0 - 1) = {}
      OBVIOUS
    <3> QED  BY <2>1, <2>2, <2>3, <2>4, <3>1, <3>2 DEF SlotNumbers
  <2>5. CASE ~ (q = flTurn /\ j = flLastIndex)
    <3>1. ~ Emptying(q, j)
      BY <2>5 DEF Emptying
    <3> QED  BY <1>a, <2>1, <2>2, <2>3, <2>5, <3>1
  <2> QED  BY <2>4, <2>5
<1>9. CASE Timer
  BY <1>1, <1>9 DEF Timer, StoreSecond, StoreField, loopVars
<1>10. CASE FlRotate \/ FlSameMinute \/ FlOpen \/ FlIndex \/ FlDrain \/ FlNext
  BY <1>2, <1>10 DEF FlRotate, FlSameMinute, FlOpen, FlIndex, FlDrain, FlNext
<1>11. ASSUME NEW f \in Field, FlReadField(f) PROVE SlotNumbers(q, j)'
  BY <1>1, <1>11 DEF FlReadField, loopVars
<1>12. CASE UNCHANGED flushVars
  BY <1>1, <1>12 DEF flushVars, loopVars
<1> QED
  BY <1>3, <1>4, <1>5, <1>6, <1>7, <1>8, <1>9, <1>10, <1>11, <1>12
  DEF FlushNext, ManagerStep, Flusher

LEMMA SlotsEmptiedStep == FlushInv /\ [FlushNext]_flushVars => SlotsEmptied'
<1> SUFFICES ASSUME FlushInv, [FlushNext]_flushVars, InFlushLoop', NEW q \in Row,
                    q < flTurn'
             PROVE  DOMAIN flStore'[q][flLastIndex'] = {}
  BY FlusherTypes DEF SlotsEmptied
<1>0. /\ InFlushLoop /\ q < flTurn => DOMAIN flStore[q][flLastIndex] = {}
      /\ flLastIndex \in Slots /\ flTurn \in 0 .. SM_INSTANCES /\ q \in Nat
      /\ flTurn \in Nat
  BY FlusherTypes DEF FlushInv, SlotsEmptied, FlushShapes, FlushTypeOK, Row
<1>1. CASE UNCHANGED <<flStore, fpc, flTurn, flLastIndex>>
  BY <1>0, <1>1 DEF InFlushLoop
<1>2. ASSUME NEW m \in Manager, SmStore(m) PROVE DOMAIN flStore'[q][flLastIndex'] = {}
  <2>1. PICK i \in Slots, n \in Nat :
          /\ m \in Row /\ i = mIdx[m] /\ n = flCnt[m][i]
          /\ mReport[m] \in Report /\ mgrPc[m] = "store"
          /\ DOMAIN flStore[m][i] = 0 .. (n - 1)
          /\ DOMAIN flStore' = Row /\ \A p \in Row : DOMAIN flStore'[p] = Slots
          /\ \A p \in Row : \A k \in Slots : ~ (p = m /\ k = i) =>
               flStore'[p][k] = flStore[p][k]
          /\ DOMAIN flStore'[m][i] = DOMAIN flStore[m][i] \cup {n}
          /\ flStore'[m][i][n] = mReport[m]
          /\ \A k \in DOMAIN flStore[m][i] :
               k # n /\ flStore'[m][i][k] = flStore[m][i][k]
    BY <1>2, StoreMoves
  <2>2. UNCHANGED <<fpc, flTurn, flLastIndex>>
    BY <1>2 DEF SmStore, loopVars
  <2>3. InFlushLoop
    BY <2>2 DEF InFlushLoop
  <2>4. i # flLastIndex
    BY <2>1, <2>3, FlSlotsDiffer
  <2> QED  BY <1>0, <2>1, <2>2, <2>3, <2>4
<1>3. CASE FlRotate \/ FlOpen \/ FlSameMinute \/ FlIndex \/ FlNext
  BY <1>3 DEF FlRotate, FlOpen, FlSameMinute, FlIndex, FlNext, InFlushLoop
<1>4. CASE FlDrain
  BY <1>0, <1>4 DEF FlDrain
<1>5. ASSUME NEW f \in Field, FlReadField(f) PROVE DOMAIN flStore'[q][flLastIndex'] = {}
  BY <1>1, <1>5 DEF FlReadField, repoVars, loopVars
<1>6. CASE FlTakeSlot
  <2>1. UNCHANGED <<flStore, flLastIndex>> /\ InFlushLoop /\ fpc = "slots"
    BY <1>6 DEF FlTakeSlot, repoVars, InFlushLoop
  <2>2. CASE q < flTurn
    BY <1>0, <2>1, <2>2
  <2>3. CASE ~ (q < flTurn)
    <3>1. /\ flTurn < SM_INSTANCES /\ flTurn' = flTurn + 1
          /\ ~ (flCnt[flTurn][flLastIndex] > 0)
      BY <1>6, <2>3 DEF FlTakeSlot
    <3>2. q = flTurn
      BY <1>0, <2>3, <3>1
    <3>3. ~ Emptying(q, flLastIndex)
      BY <2>1 DEF Emptying
    <3>4. ~ Counting(q, flLastIndex)
      BY <2>1, FlSlotsDiffer DEF Counting
    <3>5. flCnt[q][flLastIndex] \in Nat
          /\ DOMAIN flStore[q][flLastIndex] = 0 .. (flCnt[q][flLastIndex] - 1)
      BY <1>0, <3>3, <3>4, QuietSlot
    <3>6. 0 .. (0 - 1) = {}
      OBVIOUS
    <3>7. flCnt[q][flLastIndex] = 0
      BY <3>1, <3>2, <3>5
    <3> QED  BY <2>1, <3>5, <3>6, <3>7
  <2> QED  BY <2>2, <2>3
<1>7. CASE FlReport
  <2>1. PICK n \in DOMAIN flStore[flTurn][flLastIndex] :
          /\ flTurn \in Row /\ flLastIndex \in Slots /\ fpc = "reports"
          /\ written' = written \cup {<<flStore[flTurn][flLastIndex][n], file>>}
          /\ flCnt' = [flCnt EXCEPT ![flTurn][flLastIndex]
                         = flCnt[flTurn][flLastIndex] - 1]
          /\ DOMAIN flStore' = Row /\ \A p \in Row : DOMAIN flStore'[p] = Slots
          /\ \A p \in Row : \A k \in Slots : ~ (p = flTurn /\ k = flLastIndex) =>
               flStore'[p][k] = flStore[p][k]
          /\ DOMAIN flStore'[flTurn][flLastIndex]
               = DOMAIN flStore[flTurn][flLastIndex] \ {n}
          /\ \A k \in DOMAIN flStore'[flTurn][flLastIndex] :
               flStore'[flTurn][flLastIndex][k] = flStore[flTurn][flLastIndex][k]
    BY <1>7, ReportMoves
  <2>2. UNCHANGED <<fpc, flTurn, flLastIndex>>
    BY <1>7 DEF FlReport, loopVars
  <2>3. q # flTurn
    BY <1>0, <2>2
  <2> QED  BY <1>0, <2>1, <2>2, <2>3 DEF InFlushLoop
<1>8. CASE FlLeaveSlot
  <2>1. /\ UNCHANGED <<flStore, flLastIndex>> /\ flTurn' = flTurn + 1 /\ InFlushLoop
        /\ DOMAIN flStore[flTurn][flLastIndex] = {}
    BY <1>8 DEF FlLeaveSlot, InFlushLoop
  <2>2. q < flTurn \/ q = flTurn
    BY <1>0, <2>1
  <2> QED  BY <1>0, <2>1, <2>2
<1>9. CASE Timer
  BY <1>1, <1>9 DEF Timer, StoreSecond, StoreField, repoVars, loopVars
<1>10. ASSUME NEW m \in Manager, SmFlush(m) \/ SmCount(m)
       PROVE  DOMAIN flStore'[q][flLastIndex'] = {}
  BY <1>1, <1>10 DEF SmFlush, SmCount, repoVars, loopVars
<1>11. CASE UNCHANGED flushVars
  BY <1>1, <1>11 DEF flushVars, repoVars, loopVars
<1> QED
  BY <1>2, <1>3, <1>4, <1>5, <1>6, <1>7, <1>8, <1>9, <1>10, <1>11
  DEF FlushNext, ManagerStep, Flusher

\* No two managers have the same report at hand.
LEMMA OneManagerStep == FlushInv /\ [FlushNext]_flushVars => OneManager'
<1> SUFFICES ASSUME FlushInv, [FlushNext]_flushVars, NEW p \in Manager, NEW q \in Manager,
                    mReport'[p] # NoReport, mReport'[p] = mReport'[q]
             PROVE  p = q
  BY DEF OneManager
<1>0. /\ mReport[p] # NoReport /\ mReport[p] = mReport[q] => p = q
      /\ mReport \in [Manager -> Report \cup {NoReport}] /\ NoReport \notin Report
      /\ \A m \in Manager : mReport[m] # NoReport => flushedAt[mReport[m]] >= 1
  BY FlusherTypes
  DEF FlushInv, OneManager, FlushShapes, FlushTypeOK, ManagerHands, ManagerHand
<1>1. CASE UNCHANGED mReport
  BY <1>0, <1>1
<1>2. ASSUME NEW m \in Manager, SmFlush(m) PROVE p = q
  <2>1. PICK x \in Report : flushedAt[x] = 0 /\ mReport' = [mReport EXCEPT ![m] = x]
    BY <1>2 DEF SmFlush
  <2>2. \A k \in Manager : mReport[k] # x
    BY <1>0, <2>1
  <2> QED  BY <1>0, <2>1, <2>2
<1>3. ASSUME NEW m \in Manager, SmCount(m) PROVE p = q
  <2>1. mReport' = [mReport EXCEPT ![m] = NoReport]
    BY <1>3 DEF SmCount
  <2> QED  BY <1>0, <2>1
<1> QED
  BY <1>1, <1>2, <1>3
  DEF FlushNext, flushVars, managerVars, ManagerStep, SmStore, Timer, StoreSecond,
      StoreField, Flusher, FlRotate, FlSameMinute, FlOpen, FlIndex, FlDrain, FlReadField,
      FlTakeSlot, FlReport, FlLeaveSlot, FlNext

\* A report is stored under one number, in one slot.
LEMMA OneNumberStep == FlushInv /\ [FlushNext]_flushVars => OneNumber'
<1> SUFFICES ASSUME FlushInv, [FlushNext]_flushVars,
                    NEW p \in Row, NEW q \in Row, NEW i \in Slots, NEW j \in Slots,
                    NEW n \in DOMAIN flStore'[p][i], NEW k \in DOMAIN flStore'[q][j],
                    flStore'[p][i][n] = flStore'[q][j][k]
             PROVE  p = q /\ i = j /\ n = k
  BY DEF OneNumber
<1>0. \A a, b \in Row : \A c, d \in Slots :
        \A u \in DOMAIN flStore[a][c] : \A v \in DOMAIN flStore[b][d] :
          flStore[a][c][u] = flStore[b][d][v] => a = b /\ c = d /\ u = v
  BY DEF FlushInv, OneNumber
<1>1. CASE UNCHANGED flStore
  BY <1>0, <1>1
<1>2. ASSUME NEW m \in Manager, SmStore(m) PROVE p = q /\ i = j /\ n = k
  <2>1. PICK c \in Slots, e \in Nat :
          /\ m \in Row /\ c = mIdx[m] /\ e = flCnt[m][c]
          /\ mReport[m] \in Report /\ mgrPc[m] = "store"
          /\ DOMAIN flStore[m][c] = 0 .. (e - 1)
          /\ DOMAIN flStore' = Row /\ \A a \in Row : DOMAIN flStore'[a] = Slots
          /\ \A a \in Row : \A d \in Slots : ~ (a = m /\ d = c) =>
               flStore'[a][d] = flStore[a][d]
          /\ DOMAIN flStore'[m][c] = DOMAIN flStore[m][c] \cup {e}
          /\ flStore'[m][c][e] = mReport[m]
          /\ \A u \in DOMAIN flStore[m][c] :
               u # e /\ flStore'[m][c][u] = flStore[m][c][u]
    BY <1>2, StoreMoves
  <2>2. ~ InRepo(mReport[m])
    BY <2>1 DEF FlushInv, OneReportPlace, AtHand
\* A number is the one just given, or its report was there before.
  <2>3. ASSUME NEW a \in Row, NEW d \in Slots, NEW u \in DOMAIN flStore'[a][d]
        PROVE  \/ a = m /\ d = c /\ u = e /\ flStore'[a][d][u] = mReport[m]
               \/ /\ u \in DOMAIN flStore[a][d] /\ flStore'[a][d][u] = flStore[a][d][u]
                  /\ flStore'[a][d][u] # mReport[m]
    <3>1. CASE a = m /\ d = c /\ u = e
      BY <2>1, <3>1
    <3>2. CASE ~ (a = m /\ d = c /\ u = e)
      <4>1. u \in DOMAIN flStore[a][d] /\ flStore'[a][d][u] = flStore[a][d][u]
        BY <2>1, <2>3, <3>2
      <4> QED  BY <2>2, <4>1 DEF InRepo
    <3> QED  BY <3>1, <3>2
  <2> QED  BY <1>0, <2>3
<1>3. CASE FlReport
  <2>1. PICK e \in DOMAIN flStore[flTurn][flLastIndex] :
          /\ flTurn \in Row /\ flLastIndex \in Slots /\ fpc = "reports"
          /\ written' = written \cup {<<flStore[flTurn][flLastIndex][e], file>>}
          /\ flCnt' = [flCnt EXCEPT ![flTurn][flLastIndex]
                         = flCnt[flTurn][flLastIndex] - 1]
          /\ DOMAIN flStore' = Row /\ \A a \in Row : DOMAIN flStore'[a] = Slots
          /\ \A a \in Row : \A d \in Slots : ~ (a = flTurn /\ d = flLastIndex) =>
               flStore'[a][d] = flStore[a][d]
          /\ DOMAIN flStore'[flTurn][flLastIndex]
               = DOMAIN flStore[flTurn][flLastIndex] \ {e}
          /\ \A u \in DOMAIN flStore'[flTurn][flLastIndex] :
               flStore'[flTurn][flLastIndex][u] = flStore[flTurn][flLastIndex][u]
    BY <1>3, ReportMoves
  <2>2. ASSUME NEW a \in Row, NEW d \in Slots, NEW u \in DOMAIN flStore'[a][d]
        PROVE  u \in DOMAIN flStore[a][d] /\ flStore'[a][d][u] = flStore[a][d][u]
    BY <2>1, <2>2
  <2> QED  BY <1>0, <2>2
<1> QED
  BY <1>1, <1>2, <1>3
  DEF FlushNext, flushVars, repoVars, ManagerStep, SmFlush, SmCount, Timer, StoreSecond,
      StoreField, Flusher, FlRotate, FlSameMinute, FlOpen, FlIndex, FlDrain, FlReadField,
      FlTakeSlot, FlLeaveSlot, FlNext

\* A report is at hand, then stored, then written.
LEMMA OneReportPlaceStep == FlushInv /\ [FlushNext]_flushVars => OneReportPlace'
<1> SUFFICES ASSUME FlushInv, [FlushNext]_flushVars, NEW x \in Report
             PROVE  /\ AtHand(x)' => ~ InRepo(x)' /\ ~ IsWritten(x)'
                    /\ InRepo(x)' => ~ IsWritten(x)'
                    /\ flushedAt'[x] # 0 <=> AtHand(x)' \/ InRepo(x)' \/ IsWritten(x)'
  BY DEF OneReportPlace
<1>0. /\ AtHand(x) => ~ InRepo(x) /\ ~ IsWritten(x)
      /\ InRepo(x) => ~ IsWritten(x)
      /\ flushedAt[x] # 0 <=> AtHand(x) \/ InRepo(x) \/ IsWritten(x)
      /\ mgrPc \in [Manager -> {"idle", "store", "count"}]
      /\ mReport \in [Manager -> Report \cup {NoReport}] /\ NoReport \notin Report
      /\ flushedAt \in [Report -> Nat] /\ now >= 1 /\ now \in Nat
  BY FlusherTypes DEF FlushInv, OneReportPlace, FlushShapes, FlushTypeOK
<1>1. CASE UNCHANGED <<flStore, mgrPc, mReport, flushedAt, written>>
  BY <1>0, <1>1 DEF AtHand, InRepo, IsWritten
<1>2. ASSUME NEW m \in Manager, SmFlush(m)
      PROVE  /\ AtHand(x)' => ~ InRepo(x)' /\ ~ IsWritten(x)'
             /\ InRepo(x)' => ~ IsWritten(x)'
             /\ flushedAt'[x] # 0 <=> AtHand(x)' \/ InRepo(x)' \/ IsWritten(x)'
  <2>1. PICK y \in Report :
          /\ flushedAt[y] = 0
          /\ flushedAt' = [flushedAt EXCEPT ![y] = now]
          /\ mReport' = [mReport EXCEPT ![m] = y]
    BY <1>2 DEF SmFlush
  <2>2. /\ UNCHANGED <<flStore, written>> /\ mgrPc[m] = "idle"
        /\ mgrPc' = [mgrPc EXCEPT ![m] = "store"]
    BY <1>2 DEF SmFlush, repoVars
  <2>3. (InRepo(x)' <=> InRepo(x)) /\ (IsWritten(x)' <=> IsWritten(x))
    BY <2>2 DEF InRepo, IsWritten
  <2>4. CASE x = y
    <3>1. AtHand(x)'
      BY <1>0, <2>1, <2>2, <2>4 DEF AtHand
    <3>2. flushedAt'[x] # 0
      BY <1>0, <2>1, <2>4
    <3> QED  BY <1>0, <2>1, <2>3, <2>4, <3>1, <3>2
  <2>5. CASE x # y
    <3>1. AtHand(x)' <=> AtHand(x)
      BY <1>0, <2>1, <2>2, <2>5 DEF AtHand
    <3>2. flushedAt'[x] = flushedAt[x]
      BY <1>0, <2>1, <2>5
    <3> QED  BY <1>0, <2>3, <3>1, <3>2
  <2> QED  BY <2>4, <2>5
<1>3. ASSUME NEW m \in Manager, SmStore(m)
      PROVE  /\ AtHand(x)' => ~ InRepo(x)' /\ ~ IsWritten(x)'
             /\ InRepo(x)' => ~ IsWritten(x)'
             /\ flushedAt'[x] # 0 <=> AtHand(x)' \/ InRepo(x)' \/ IsWritten(x)'
  <2>1. PICK c \in Slots, e \in Nat :
          /\ m \in Row /\ c = mIdx[m] /\ e = flCnt[m][c]
          /\ mReport[m] \in Report /\ mgrPc[m] = "store"
          /\ DOMAIN flStore[m][c] = 0 .. (e - 1)
          /\ DOMAIN flStore' = Row /\ \A a \in Row : DOMAIN flStore'[a] = Slots
          /\ \A a \in Row : \A d \in Slots : ~ (a = m /\ d = c) =>
               flStore'[a][d] = flStore[a][d]
          /\ DOMAIN flStore'[m][c] = DOMAIN flStore[m][c] \cup {e}
          /\ flStore'[m][c][e] = mReport[m]
          /\ \A u \in DOMAIN flStore[m][c] :
               u # e /\ flStore'[m][c][u] = flStore[m][c][u]
    BY <1>3, StoreMoves
  <2>2. /\ UNCHANGED <<flushedAt, mReport, written>>
        /\ mgrPc' = [mgrPc EXCEPT ![m] = "count"]
    BY <1>3 DEF SmStore
  <2>3. IsWritten(x)' <=> IsWritten(x)
    BY <2>2 DEF IsWritten
  <2>4. CASE x = mReport[m]
    <3>1. AtHand(x)
      BY <2>1, <2>4 DEF AtHand
    <3>2. InRepo(x)'
      BY <2>1, <2>4 DEF InRepo
    <3>3. \A q \in Manager : mReport[q] = x => q = m
      BY <1>0, <2>1, <2>4 DEF FlushInv, OneManager
    <3>4. ~ AtHand(x)'
      BY <1>0, <2>2, <3>3 DEF AtHand
    <3> QED  BY <1>0, <2>2, <2>3, <3>1, <3>2, <3>4
  <2>5. CASE x # mReport[m]
    <3>1. AtHand(x)' <=> AtHand(x)
      BY <1>0, <2>2, <2>5 DEF AtHand
    <3>2. ASSUME InRepo(x) PROVE InRepo(x)'
      <4>1. PICK a \in Row, d \in Slots : \E u \in DOMAIN flStore[a][d] :
                   flStore[a][d][u] = x
        BY <3>2 DEF InRepo
      <4>2. PICK u \in DOMAIN flStore[a][d] : flStore[a][d][u] = x
        BY <4>1
      <4>3. u \in DOMAIN flStore'[a][d] /\ flStore'[a][d][u] = x
        BY <2>1, <4>2
      <4> QED  BY <4>3 DEF InRepo
    <3>3. ASSUME InRepo(x)' PROVE InRepo(x)
      <4>1. PICK a \in Row, d \in Slots : \E u \in DOMAIN flStore'[a][d] :
                   flStore'[a][d][u] = x
        BY <3>3 DEF InRepo
      <4>2. PICK u \in DOMAIN flStore'[a][d] : flStore'[a][d][u] = x
        BY <4>1
      <4>3. u \in DOMAIN flStore[a][d] /\ flStore[a][d][u] = x
        BY <2>1, <2>5, <4>2
      <4> QED  BY <4>3 DEF InRepo
    <3> QED  BY <1>0, <2>2, <2>3, <3>1, <3>2, <3>3
  <2> QED  BY <2>4, <2>5
<1>4. ASSUME NEW m \in Manager, SmCount(m)
      PROVE  /\ AtHand(x)' => ~ InRepo(x)' /\ ~ IsWritten(x)'
             /\ InRepo(x)' => ~ IsWritten(x)'
             /\ flushedAt'[x] # 0 <=> AtHand(x)' \/ InRepo(x)' \/ IsWritten(x)'
  <2>1. /\ UNCHANGED <<flStore, flushedAt, written>> /\ mgrPc[m] = "count"
        /\ mgrPc' = [mgrPc EXCEPT ![m] = "idle"]
        /\ mReport' = [mReport EXCEPT ![m] = NoReport]
    BY <1>4 DEF SmCount
  <2>2. (InRepo(x)' <=> InRepo(x)) /\ (IsWritten(x)' <=> IsWritten(x))
    BY <2>1 DEF InRepo, IsWritten
  <2>3. AtHand(x)' <=> AtHand(x)
    BY <1>0, <2>1 DEF AtHand
  <2> QED  BY <1>0, <2>1, <2>2, <2>3
<1>5. CASE FlReport
  <2>1. PICK e \in DOMAIN flStore[flTurn][flLastIndex] :
          /\ flTurn \in Row /\ flLastIndex \in Slots /\ fpc = "reports"
          /\ written' = written \cup {<<flStore[flTurn][flLastIndex][e], file>>}
          /\ flCnt' = [flCnt EXCEPT ![flTurn][flLastIndex]
                         = flCnt[flTurn][flLastIndex] - 1]
          /\ DOMAIN flStore' = Row /\ \A a \in Row : DOMAIN flStore'[a] = Slots
          /\ \A a \in Row : \A d \in Slots : ~ (a = flTurn /\ d = flLastIndex) =>
               flStore'[a][d] = flStore[a][d]
          /\ DOMAIN flStore'[flTurn][flLastIndex]
               = DOMAIN flStore[flTurn][flLastIndex] \ {e}
          /\ \A u \in DOMAIN flStore'[flTurn][flLastIndex] :
               flStore'[flTurn][flLastIndex][u] = flStore[flTurn][flLastIndex][u]
    BY <1>5, ReportMoves
  <2>2. UNCHANGED <<mgrPc, mReport, flushedAt>>
    BY <1>5 DEF FlReport, managerVars
  <2>3. AtHand(x)' <=> AtHand(x)
    BY <2>2 DEF AtHand
  <2> DEFINE y == flStore[flTurn][flLastIndex][e]
  <2>4. ASSUME NEW a \in Row, NEW d \in Slots, NEW u \in DOMAIN flStore'[a][d]
        PROVE  /\ u \in DOMAIN flStore[a][d] /\ flStore'[a][d][u] = flStore[a][d][u]
               /\ flStore[a][d][u] # y
    <3>1. /\ u \in DOMAIN flStore[a][d] /\ flStore'[a][d][u] = flStore[a][d][u]
          /\ ~ (a = flTurn /\ d = flLastIndex /\ u = e)
      BY <2>1, <2>4
    <3> QED  BY <2>1, <3>1 DEF FlushInv, OneNumber
  <2>5. CASE x = y
    <3>1. IsWritten(x)'
      <4>1. <<x, file>> \in written' /\ <<x, file>>[1] = x
        BY <2>1, <2>5
      <4> QED  BY <4>1 DEF IsWritten
    <3>2. ~ InRepo(x)'
      BY <2>4, <2>5 DEF InRepo
    <3>3. InRepo(x)
      BY <2>1, <2>5 DEF InRepo
    <3> QED  BY <1>0, <2>2, <2>3, <3>1, <3>2, <3>3
  <2>6. CASE x # y
    <3>1. IsWritten(x)' <=> IsWritten(x)
      <4> HIDE DEF y
      <4>1. written' = written \cup {<<y, file>>}
        BY <2>1 DEF y
      <4> QED  BY <2>6, <4>1 DEF IsWritten
    <3>2. InRepo(x)' => InRepo(x)
      BY <2>4 DEF InRepo
    <3>3. ASSUME InRepo(x) PROVE InRepo(x)'
      <4>1. PICK a \in Row, d \in Slots : \E u \in DOMAIN flStore[a][d] :
                   flStore[a][d][u] = x
        BY <3>3 DEF InRepo
      <4>2. PICK u \in DOMAIN flStore[a][d] : flStore[a][d][u] = x
        BY <4>1
      <4>3. u \in DOMAIN flStore'[a][d] /\ flStore'[a][d][u] = x
        BY <2>1, <2>6, <4>2
      <4> QED  BY <4>3 DEF InRepo
    <3> QED  BY <1>0, <2>2, <2>3, <3>1, <3>2, <3>3
  <2> QED  BY <2>5, <2>6
<1> QED
  BY <1>1, <1>2, <1>3, <1>4, <1>5
  DEF FlushNext, flushVars, repoVars, managerVars, ManagerStep, Timer, StoreSecond,
      StoreField, Flusher, FlRotate, FlSameMinute, FlOpen, FlIndex, FlDrain, FlReadField,
      FlTakeSlot, FlLeaveSlot, FlNext

\* What is stored or written has been flushed.
LEMMA StoredWasFlushed ==
  ASSUME FlushInv, NEW x \in Report, InRepo(x) \/ IsWritten(x)
  PROVE  flushedAt[x] # 0
BY DEF FlushInv, OneReportPlace

\* The second of a stored report is one whose slot is still to come.
LEMMA ReportSecondsStep == FlushInv /\ [FlushNext]_flushVars => ReportSeconds'
<1> SUFFICES ASSUME FlushInv, [FlushNext]_flushVars, NEW q \in Row, NEW j \in Slots,
                    NEW n \in DOMAIN flStore'[q][j]
             PROVE  ReportSecond(j, flStore[q][j][n])'
  BY FlusherTypes DEF ReportSeconds
<1> DEFINE y == flStore'[q][j][n]
<1>0. /\ \A a \in Row : \A d \in Slots : \A u \in DOMAIN flStore[a][d] :
           ReportSecond(d, flStore[a][d][u]) /\ flStore[a][d][u] \in Report
      /\ flushedAt \in [Report -> Nat] /\ now \in Nat /\ fSec \in Nat /\ fSec <= now
  BY MinuteTypes DEF FlushInv, ReportSeconds, FlushShapes, FlushTypeOK
<1>1. ASSUME n \in DOMAIN flStore[q][j], y = flStore[q][j][n],
             now' \in Nat, now' >= now, flushedAt'[y] = flushedAt[y], fSec' = fSec
      PROVE  ReportSecond(j, flStore[q][j][n])'
  <2>1. ReportSecond(j, y) /\ flushedAt[y] \in Nat
    BY <1>0, <1>1
  <2> QED  BY <1>0, <1>1, <2>1 DEF ReportSecond
<1>2. CASE UNCHANGED <<now, flStore, flushedAt, fSec>>
  BY <1>0, <1>1, <1>2
<1>3. CASE Timer
  <2>1. UNCHANGED <<flStore, flushedAt, fSec>> /\ now' \in {now, now + 1}
    BY <1>3 DEF Timer, StoreSecond, StoreField, repoVars, managerVars, loopVars
  <2> QED  BY <1>0, <1>1, <2>1
<1>4. ASSUME NEW m \in Manager, SmFlush(m) PROVE ReportSecond(j, flStore[q][j][n])'
  <2>1. PICK x \in Report :
          flushedAt[x] = 0 /\ flushedAt' = [flushedAt EXCEPT ![x] = now]
    BY <1>4 DEF SmFlush
  <2>2. UNCHANGED <<now, flStore, fSec>>
    BY <1>4 DEF SmFlush, clockVars, repoVars, loopVars
  <2>3. y \in Report /\ InRepo(y)
    BY <1>0, <2>2 DEF InRepo
  <2>4. y # x
    BY <2>1, <2>3, StoredWasFlushed
  <2> QED  BY <1>0, <1>1, <2>1, <2>2, <2>3, <2>4
<1>5. ASSUME NEW m \in Manager, SmStore(m) PROVE ReportSecond(j, flStore[q][j][n])'
  <2>1. PICK c \in Slots, e \in Nat :
          /\ m \in Row /\ c = mIdx[m] /\ e = flCnt[m][c]
          /\ mReport[m] \in Report /\ mgrPc[m] = "store"
          /\ DOMAIN flStore[m][c] = 0 .. (e - 1)
          /\ DOMAIN flStore' = Row /\ \A a \in Row : DOMAIN flStore'[a] = Slots
          /\ \A a \in Row : \A d \in Slots : ~ (a = m /\ d = c) =>
               flStore'[a][d] = flStore[a][d]
          /\ DOMAIN flStore'[m][c] = DOMAIN flStore[m][c] \cup {e}
          /\ flStore'[m][c][e] = mReport[m]
          /\ \A u \in DOMAIN flStore[m][c] :
               u # e /\ flStore'[m][c][u] = flStore[m][c][u]
    BY <1>5, StoreMoves
  <2>2. UNCHANGED <<now, flushedAt, fSec>>
    BY <1>5 DEF SmStore, clockVars, loopVars
  <2>3. CASE q = m /\ j = c /\ n = e
    <3>1. ManagerHand(m)
      BY DEF FlushInv, ManagerHands
    <3>2. /\ flushedAt[mReport[m]] <= now /\ now <= flushedAt[mReport[m]] + MaxWriteDelay
          /\ c = PKT_WRITE_TIME_INDEX(flushedAt[mReport[m]])
          /\ flushedAt[mReport[m]] \in Nat /\ MaxWriteDelay \in Nat /\ MaxWriteDelay <= 1
      BY <1>0, <2>1, <3>1, RingClockAssumption, SchedulingAssumption DEF ManagerHand
    <3>3. flushedAt[mReport[m]] + 1 >= fSec
      BY <1>0, <3>2
    <3>4. y = mReport[m]
      BY <2>1, <2>3
    <3> QED  BY <2>2, <2>3, <3>2, <3>3, <3>4 DEF ReportSecond
  <2>4. CASE ~ (q = m /\ j = c /\ n = e)
    <3>1. n \in DOMAIN flStore[q][j] /\ y = flStore[q][j][n]
      BY <2>1, <2>4
    <3> QED  BY <1>0, <1>1, <2>2, <3>1
  <2> QED  BY <2>3, <2>4
<1>6. CASE FlReport
  <2>1. PICK e \in DOMAIN flStore[flTurn][flLastIndex] :
          /\ flTurn \in Row /\ flLastIndex \in Slots /\ fpc = "reports"
          /\ written' = written \cup {<<flStore[flTurn][flLastIndex][e], file>>}
          /\ flCnt' = [flCnt EXCEPT ![flTurn][flLastIndex]
                         = flCnt[flTurn][flLastIndex] - 1]
          /\ DOMAIN flStore' = Row /\ \A a \in Row : DOMAIN flStore'[a] = Slots
          /\ \A a \in Row : \A d \in Slots : ~ (a = flTurn /\ d = flLastIndex) =>
               flStore'[a][d] = flStore[a][d]
          /\ DOMAIN flStore'[flTurn][flLastIndex]
               = DOMAIN flStore[flTurn][flLastIndex] \ {e}
          /\ \A u \in DOMAIN flStore'[flTurn][flLastIndex] :
               flStore'[flTurn][flLastIndex][u] = flStore[flTurn][flLastIndex][u]
    BY <1>6, ReportMoves
  <2>2. n \in DOMAIN flStore[q][j] /\ y = flStore[q][j][n]
    BY <2>1
  <2>3. UNCHANGED <<now, flushedAt, fSec>>
    BY <1>6 DEF FlReport, clockVars, managerVars, loopVars
  <2> QED  BY <1>0, <1>1, <2>2, <2>3
<1>7. CASE FlNext
  <2>1. /\ UNCHANGED <<now, flStore, flushedAt>> /\ fSec' = fSec + 1
        /\ fpc = "slots" /\ flTurn = SM_INSTANCES
    BY <1>7 DEF FlNext, clockVars, repoVars, managerVars
  <2> DEFINE s == flushedAt[y]
  <2>2. s \in Nat /\ s <= now /\ j = PKT_WRITE_TIME_INDEX(s) /\ s + 1 >= fSec
    BY <1>0, <2>1 DEF ReportSecond
  <2>3. s + 1 # fSec
    <3> SUFFICES ASSUME s + 1 = fSec PROVE FALSE
      OBVIOUS
    <3>1. PKT_WRITE_TIME_INDEX(s) = READ_TIME_INDEX(s + 1)
      <4> HIDE DEF s
      <4> QED  BY <2>2, WriteIsSucc
    <3>2. j = flLastIndex
      BY <2>2, <3>1 DEF FlushInv, FlusherSeconds
    <3>3. q < SM_INSTANCES
      BY FlusherTypes DEF Row
    <3>4. DOMAIN flStore[q][j] = {}
      BY <2>1, <3>2, <3>3 DEF FlushInv, SlotsEmptied, InFlushLoop
    <3> QED  BY <2>1, <3>4
  <2>4. s + 1 >= fSec + 1
    BY <1>0, <2>2, <2>3
  <2> QED  BY <2>1, <2>2, <2>4 DEF ReportSecond
<1>8. ASSUME NEW m \in Manager, SmCount(m) PROVE ReportSecond(j, flStore[q][j][n])'
  BY <1>2, <1>8 DEF SmCount, clockVars, loopVars
<1>9. ASSUME NEW f \in Field, FlReadField(f) PROVE ReportSecond(j, flStore[q][j][n])'
  BY <1>2, <1>9 DEF FlReadField, clockVars, repoVars, managerVars, loopVars
<1>10. CASE FlRotate \/ FlSameMinute \/ FlOpen \/ FlIndex \/ FlDrain \/ FlTakeSlot
            \/ FlLeaveSlot
  BY <1>2, <1>10 DEF FlRotate, FlSameMinute, FlOpen, FlIndex, FlDrain, FlTakeSlot,
                     FlLeaveSlot, clockVars, repoVars, managerVars, loopVars
<1>11. CASE UNCHANGED flushVars
  BY <1>2, <1>11 DEF flushVars, clockVars, repoVars, managerVars, loopVars
<1> QED
  BY <1>3, <1>4, <1>5, <1>6, <1>7, <1>8, <1>9, <1>10, <1>11
  DEF FlushNext, ManagerStep, Flusher

\* The report being written is of the second before the flusher's, and the
\* minute of its file may get it.
LEMMA ReportMeetsFile ==
  ASSUME FlushInv, fpc = "reports", NEW n \in DOMAIN flStore[flTurn][flLastIndex]
  PROVE  LET x == flStore[flTurn][flLastIndex][n]
         IN  /\ x \in Report
             /\ FileMinute \in MinutesFor(flushedAt[x])
<1> DEFINE x == flStore[flTurn][flLastIndex][n]
           s == flushedAt[x]
           t == s + 1
           K == FileMinute
<1>0. /\ now \in Nat /\ fSec \in Nat /\ now - fSec <= MaxReadLag /\ fSec >= FirstSec
      /\ MinuteNo(now) \in Nat /\ K \in Nat
      /\ ShownMinute \in {MinuteNo(now), MinuteNo(now) + 1}
      /\ K \in {ShownMinute, ShownMinute - 1}
      /\ MinuteStart(K) \in Int /\ MinuteStart(K + 1) \in Int
      /\ MinuteStart(K) <= fSec + MaxReadLag
      /\ now = FirstSec \/ now <= MaxSec
      /\ FirstSec \in Nat /\ MaxSec \in Nat /\ MaxReadLag \in Nat
  BY MinuteTypes, StartNext, RingClockAssumption
  DEF FlushInv, FlusherSeconds, FileTimes, FlushShapes
<1>1. x \in Report /\ s \in Nat /\ ReportSecond(flLastIndex, x)
  <2>1. flTurn \in Row /\ flLastIndex \in Slots
    BY FlusherTypes
  <2> QED  BY <2>1 DEF FlushInv, FlushShapes, FlushTypeOK, ReportSeconds
<1>2. /\ fSec < now
      /\ \E c \in (fSec + 1) .. now : c < MinuteStart(K + 1) + MaxReadLag
  BY InLoopBehind DEF InFlushLoop
<1>3. t = fSec
  <2> SUFFICES ASSUME t # fSec PROVE FALSE
    OBVIOUS
  <2>1. t \in Nat /\ fSec < t /\ t - fSec < TIME_INDEX
    BY <1>0, <1>1, RingClockAssumption, SchedulingAssumption, TimeIndexAssumption
    DEF ReportSecond
  <2>2. flLastIndex = PKT_WRITE_TIME_INDEX(s)
    BY <1>1 DEF ReportSecond
  <2> HIDE DEF s
  <2>3. flLastIndex = READ_TIME_INDEX(t)
    BY <1>1, <2>2, WriteIsSucc
  <2>4. READ_TIME_INDEX(fSec) # READ_TIME_INDEX(t)
    BY <1>0, <2>1, SlotsOfALapDiffer
  <2> QED  BY <2>3, <2>4 DEF FlushInv, FlusherSeconds
<1>4. K <= MinuteNo(MaxSec + 1)
  <2> DEFINE u == now + 1
             v == MaxSec + 1
  <2>1. u \in Nat /\ v \in Nat /\ u <= v /\ now <= u
    BY <1>0, <1>2
  <2>2. ShownMinute = MinuteNo(now) \/ ShownMinute = MinuteNo(u)
    BY DEF FlushInv, ClockFields
  <2> HIDE DEF u, v, K
  <2>3. /\ MinuteNo(u) <= MinuteNo(v) /\ MinuteNo(now) <= MinuteNo(u)
        /\ MinuteNo(u) \in Nat /\ MinuteNo(v) \in Nat
    BY <1>0, <2>1, MinuteMonotone, MinuteOf
  <2>4. K <= MinuteNo(v)
    BY <1>0, <2>2, <2>3
  <2> QED  BY <2>4 DEF v
<1>5. MinuteStart(K) <= s + 1 + MaxReadLag
  BY <1>0, <1>1, <1>3
<1>6. MinuteStart(K + 1) > s - (MaxReadLag - 2)
  <2>1. PICK c \in (fSec + 1) .. now : c < MinuteStart(K + 1) + MaxReadLag
    BY <1>2
  <2>2. s + 2 <= c /\ c \in Int
    BY <1>0, <1>1, <1>3, <2>1
  <2> HIDE DEF K, s
  <2> QED  BY <1>0, <1>1, <2>1, <2>2
<1>7. MinuteNo(MaxSec + 1) \in Nat
  <2>1. MaxSec + 1 \in Nat
    BY <1>0
  <2> QED  BY <2>1, MinuteOf
<1> HIDE DEF K, s
<1>8. K \in 0 .. MinuteNo(MaxSec + 1)
  BY <1>0, <1>4, <1>7
<1>9. K \in MinutesFor(s)
  BY <1>5, <1>6, <1>8 DEF MinutesFor, MinuteStart
<1> QED  BY <1>1, <1>9 DEF K, s

LEMMA InItsFileStep == FlushInv /\ [FlushNext]_flushVars => InItsFile'
<1> SUFFICES ASSUME FlushInv, [FlushNext]_flushVars, NEW w \in written'
             PROVE  \E n \in MinutesFor(flushedAt'[w[1]]) :
                      LET right == FieldsOf(n)
                          before == FieldsOf(n - 1)
                      IN  /\ w[2].min = right.min
                          /\ w[2].hour \in {right.hour, before.hour}
                          /\ w[2].day \in {right.day, before.day}
  BY DEF InItsFile
<1>1. ASSUME w \in written, flushedAt'[w[1]] = flushedAt[w[1]]
      PROVE  \E n \in MinutesFor(flushedAt'[w[1]]) :
               LET right == FieldsOf(n)
                   before == FieldsOf(n - 1)
               IN  /\ w[2].min = right.min
                   /\ w[2].hour \in {right.hour, before.hour}
                   /\ w[2].day \in {right.day, before.day}
  BY <1>1 DEF FlushInv, InItsFile
<1>2. CASE UNCHANGED <<written, flushedAt>>
  BY <1>1, <1>2
<1>3. ASSUME NEW m \in Manager, SmFlush(m)
      PROVE  w \in written /\ flushedAt'[w[1]] = flushedAt[w[1]]
  <2>1. PICK x \in Report :
          flushedAt[x] = 0 /\ flushedAt' = [flushedAt EXCEPT ![x] = now]
    BY <1>3 DEF SmFlush
  <2>2. w \in written /\ w[1] \in Report /\ flushedAt \in [Report -> Nat]
    BY <1>3 DEF SmFlush, FlushInv, FlushShapes, FlushTypeOK
  <2>3. w[1] # x
    BY <2>1, <2>2, StoredWasFlushed DEF IsWritten
  <2> QED  BY <2>1, <2>2, <2>3
<1>4. CASE FlReport
  <2>1. PICK e \in DOMAIN flStore[flTurn][flLastIndex] :
          /\ fpc = "reports"
          /\ written' = written \cup {<<flStore[flTurn][flLastIndex][e], file>>}
    BY <1>4 DEF FlReport
  <2>2. UNCHANGED flushedAt
    BY <1>4 DEF FlReport, managerVars
  <2> DEFINE x == flStore[flTurn][flLastIndex][e]
             K == FileMinute
  <2>3. K \in MinutesFor(flushedAt[x])
    BY <2>1, ReportMeetsFile
  <2>4. /\ DOMAIN file = Field /\ NamedAfter(file, K)
    BY <2>1 DEF FlushInv, FlushShapes, FileTimes
  <2>5. w \in written \/ (w[1] = x /\ w[2] = file)
    <3> HIDE DEF x
    <3>1. written' = written \cup {<<x, file>>}
      BY <2>1 DEF x
    <3> QED  BY <3>1
  <2> HIDE DEF x, K
  <2>6. /\ file["min"] = FieldsOf(K).min
        /\ file["hour"] \in {FieldsOf(K)["hour"], FieldsOf(K - 1)["hour"]}
        /\ file["day"] \in {FieldsOf(K)["day"], FieldsOf(K - 1)["day"]}
    BY <2>4 DEF NamedAfter, Field
  <2>7. CASE w \in written
    BY <1>1, <2>2, <2>7
  <2>8. CASE w[1] = x /\ w[2] = file
    BY <2>2, <2>3, <2>6, <2>8
  <2> QED  BY <2>5, <2>7, <2>8
<1> QED
  BY <1>1, <1>2, <1>3, <1>4
  DEF FlushNext, flushVars, managerVars, ManagerStep, SmStore, SmCount, Timer,
      StoreSecond, StoreField, Flusher, FlRotate, FlSameMinute, FlOpen, FlIndex, FlDrain,
      FlReadField, FlTakeSlot, FlLeaveSlot, FlNext

-----------------------------------------------------------------------------
(* The flusher's hop keeps its invariant: it is the seconds behind the     *)
(* indices, the minute behind the file's name, the numbers of every slot   *)
(* and the places of every report (TcpSMInterface::tcpFlushSession and     *)
(* tcpStoreSession, TcpFlusher::run, Timer::run).                          *)
THEOREM FlushInvAlways == FlushSpec => []FlushInv
<1>1. FlushInv /\ [FlushNext]_flushVars => FlushInv'
  BY FlushShapesStep, FlusherSecondsStep, ManagerHandsStep, ClockFieldsStep,
     FileTimesStep, SlotsNumberedStep, SlotsEmptiedStep, OneManagerStep, OneNumberStep,
     OneReportPlaceStep, ReportSecondsStep, InItsFileStep
  DEF FlushInv
<1> QED  BY FlushInvInit, <1>1, PTL DEF FlushSpec

(* No manager is at the slot the flusher empties, for any ring, any number *)
(* of managers and any reports, although no lock and no flag keeps them    *)
(* apart (TcpFlusher::flushTcpData, TcpSMInterface::tcpStoreSession).      *)
THEOREM FlusherSlotsAreExclusive == FlushSpec => []FlushRingInv
<1>1. FlushInv => FlushRingInv
  <2> SUFFICES ASSUME FlushInv PROVE FlushRingInv
    OBVIOUS
  <2>1. FlushTypeOK
    BY DEF FlushInv, FlushShapes
  <2>2. FlushSlotsApart
    BY FlSlotsDiffer DEF FlushSlotsApart, InFlushLoop
  <2> QED  BY <2>1, <2>2 DEF FlushRingInv
<1> QED  BY FlushInvAlways, <1>1, PTL

(* Every flushed report is at hand, in a slot or in a file, and only one   *)
(* of them: the manager's numbering never hides a report, and the flusher  *)
(* counting down and clearing the count never leaves one behind            *)
(* (TcpSMInterface::tcpStoreSession, TcpFlusher::flushTcpData).            *)
THEOREM FlushedHasOnePlace == FlushSpec => []NoReportLost
<1>1. FlushInv => NoReportLost
  <2> SUFFICES ASSUME FlushInv, NEW x \in Report, flushedAt[x] # 0
               PROVE  Cardinality({p \in {"hand", "stored", "written"} :
                                     \/ p = "hand" /\ AtHand(x)
                                     \/ p = "stored" /\ InRepo(x)
                                     \/ p = "written" /\ IsWritten(x)}) = 1
    BY DEF NoReportLost
  <2> DEFINE P == {p \in {"hand", "stored", "written"} :
                     \/ p = "hand" /\ AtHand(x)
                     \/ p = "stored" /\ InRepo(x)
                     \/ p = "written" /\ IsWritten(x)}
  <2>1. /\ AtHand(x) => ~ InRepo(x) /\ ~ IsWritten(x)
        /\ InRepo(x) => ~ IsWritten(x)
        /\ AtHand(x) \/ InRepo(x) \/ IsWritten(x)
    BY DEF FlushInv, OneReportPlace
  <2>2. P = {"hand"} \/ P = {"stored"} \/ P = {"written"}
    BY <2>1
  <2> HIDE DEF P
  <2>3. Cardinality(P) = 1
    BY <2>2, FS_Singleton
  <2> QED  BY <2>3 DEF P
<1> QED  BY FlushInvAlways, <1>1, PTL

(* A report is written into the file of its minute or of the next one,     *)
(* under an hour and a day that are at most a minute old, although Timer   *)
(* stores the fields of the name while the flusher reads them              *)
(* (TcpFlusher::run and openTcpXdrFile, Timer::run).                       *)
THEOREM ReportsInTheirFile == FlushSpec => []InItsFile
<1>1. FlushInv => InItsFile
  BY DEF FlushInv
<1> QED  BY FlushInvAlways, <1>1, PTL
=============================================================================
