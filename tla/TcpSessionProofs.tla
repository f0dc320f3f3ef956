--------------------------- MODULE TcpSessionProofs ---------------------------
(***************************************************************************)
(* The TCP session manager, for any flows, pool and limits: its pool is a  *)
(* SessionPool, no frame is lost, and scans leave live sessions alone.     *)
(***************************************************************************)
EXTENDS TcpSession, SessionPoolProofs

(***************************************************************************)
(* The pool.                                                               *)
(***************************************************************************)
LEMMA PacketIsPoolStep ==
  ASSUME NEW f \in Flow, NEW seq, NEW t, Packet(f, seq, t)
  PROVE  [PoolNext]_poolVars
<1>1. ASSUME NEW flag, PacketNew(f, flag, seq, t) PROVE PoolNext
  BY <1>1 DEF PacketNew, PoolNext
<1>2. ASSUME NEW flag, PacketKnown(f, flag, seq, t) PROVE UNCHANGED poolVars
  BY <1>2 DEF PacketKnown
<1>3. ASSUME PacketFin(f, seq, t) PROVE PoolNext
  BY <1>3 DEF PacketFin, PoolNext
<1> QED  BY <1>1, <1>2, <1>3 DEF Packet

\* A scan only comes to flows that are still in the map.
LEMMA TcpIsPoolStep ==
  ASSUME todo \subseteq Used, [Next]_vars
  PROVE  [PoolNext]_poolVars
<1>1. CASE Clean
  BY <1>1 DEF Clean, CleanSkip, CleanFlush, PoolNext
<1>2. CASE Tick \/ \E eod \in BOOLEAN : StartScan(eod)
  BY <1>2 DEF Tick, StartScan
<1>3. CASE UNCHANGED vars
  BY <1>3 DEF vars, poolVars
<1> QED  BY <1>1, <1>2, <1>3, PacketIsPoolStep DEF Next

-----------------------------------------------------------------------------
(***************************************************************************)
(* The session object.                                                     *)
(***************************************************************************)
LEMMA FreshTyped ==
  ASSUME NEW t \in Nat
  PROVE  Fresh(t) \in SessionRec /\ Fresh(t).frCount = 0
  BY TcpSessionAssumption DEF Fresh, SessionRec, Cause

LEMMA ArriveTyped ==
  ASSUME NEW s \in SessionRec, NEW flag, NEW t \in Nat
  PROVE  Arrive(s, flag, t) \in SessionRec /\ Arrive(s, flag, t).frCount = s.frCount
  BY DEF Arrive, SessionRec, Cause, Handshake

LEMMA SlicedTyped ==
  ASSUME NEW s \in SessionRec, NEW seq \in SeqNo, NEW cause \in Cause
  PROVE  LET d == Flushed(CountFrame(s, seq), cause)
         IN  reuse(d) \in SessionRec /\ reuse(d).frCount = 0
<1>1. s.slice + 1 \in Nat /\ s.last \in Nat /\ 0 \in 0 .. (SESSION_PKT_LIMIT - 1)
  BY TcpSessionAssumption DEF SessionRec
<1> QED  BY <1>1 DEF reuse, Flushed, CountFrame, SessionRec

\* tcpUpdateSession loses no frame: one more is counted unless it is a
\* duplicate, and what leaves the counter is what the slice reports.
LEMMA UpdateCounts ==
  ASSUME NEW s \in SessionRec, NEW seq \in SeqNo
  PROVE  /\ Updated(s, seq) \in SessionRec
         /\ IsDuplicate(s, seq) => /\ Updated(s, seq).frCount = s.frCount
                                   /\ ~ Slices(s, seq)
         /\ ~ IsDuplicate(s, seq) /\ ~ Slices(s, seq) =>
              Updated(s, seq).frCount = s.frCount + 1
         /\ Slices(s, seq) => Updated(s, seq).frCount = 0
<1> DEFINE c == CountFrame(s, seq)
           d == Flushed(c, SliceCause(c))
<1>1. /\ s.frCount \in Nat /\ c.frCount = s.frCount + 1
      /\ c = [s EXCEPT !.frCount = s.frCount + 1, !.dup = c.dup]
      /\ c.dup \in SUBSET SeqNo
  BY TcpSessionAssumption DEF SessionRec, CountFrame
<1>2. CASE IsDuplicate(s, seq)
  BY <1>2 DEF Updated, Slices
<1>3. CASE ~ IsDuplicate(s, seq) /\ ~ Slices(s, seq)
  <2>1. ~ (c.frCount >= SESSION_PKT_LIMIT)
    BY <1>3 DEF Slices, AtPktLimit
  <2>2. c.frCount \in 0 .. (SESSION_PKT_LIMIT - 1)
    BY <1>1, <2>1, TcpSessionAssumption
  <2>3. c \in SessionRec
    BY <1>1, <2>2 DEF SessionRec
  <2> QED  BY <1>1, <1>3, <2>3 DEF Updated
<1>4. CASE Slices(s, seq)
  <2>1. ~ IsDuplicate(s, seq) /\ Updated(s, seq) = reuse(d)
    BY <1>4 DEF Updated, Slices
  <2>2. SliceCause(c) \in Cause
    BY DEF SliceCause, Cause
  <2>4. reuse(d) \in SessionRec /\ reuse(d).frCount = 0
    BY <2>2, SlicedTyped
  <2> QED  BY <1>4, <2>1, <2>4
<1> QED  BY <1>2, <1>3, <1>4

-----------------------------------------------------------------------------
(***************************************************************************)
(* What each way of touching a session object does to the open frames.     *)
(***************************************************************************)
LEMMA OpenAfterUpdate ==
  ASSUME PoolInv, session \in [Pos -> SessionRec], NEW f \in Used, NEW u,
         session' = [session EXCEPT ![sessionMap[f]] = u], UNCHANGED poolVars
  PROVE  \A g \in Flow : Open(g)' = IF g = f THEN u.frCount ELSE Open(g)
  BY DEF Open, Used, poolVars, PoolInv, PoolTypeOK, PoolConsistent

LEMMA OpenAfterCreate ==
  ASSUME PoolInv, session \in [Pos -> SessionRec], NEW f \in Flow,
         NEW p \in Pos, NEW u, Create(f, p),
         session' = [session EXCEPT ![p] = u]
  PROVE  /\ Open(f) = 0
         /\ \A g \in Flow : Open(g)' = IF g = f THEN u.frCount ELSE Open(g)
<1>1. /\ f \notin Used /\ p \notin bitFlags
      /\ sessionMap' = [g \in Used \cup {f} |-> IF g = f THEN p ELSE sessionMap[g]]
      /\ Used' = Used \cup {f}
  BY DEF Create, FreeIndex, Used
<1>2. \A g \in Used : sessionMap[g] \in Pos /\ sessionMap[g] # p
  BY <1>1 DEF PoolInv, PoolTypeOK, PoolConsistent
<1>3. ASSUME NEW g \in Flow
      PROVE  Open(g)' = IF g = f THEN u.frCount ELSE Open(g)
  <2>1. CASE g = f
    BY <1>1, <2>1 DEF Open
  <2>2. CASE g \in Used /\ g # f
    BY <1>1, <1>2, <2>2 DEF Open
  <2>3. CASE g \notin Used /\ g # f
    BY <1>1, <2>3 DEF Open
  <2> QED  BY <2>1, <2>2, <2>3
<1> QED  BY <1>1, <1>3 DEF Open

LEMMA OpenAfterErase ==
  ASSUME PoolInv, session \in [Pos -> SessionRec], NEW f \in Used,
         Erase(sessionMap[f]),
         session' = [session EXCEPT ![poolIndex[sessionMap[f]]] = Fresh(0)]
  PROVE  /\ session' = [session EXCEPT ![sessionMap[f]] = Fresh(0)]
         /\ \A g \in Flow : Open(g)' = IF g = f THEN 0 ELSE Open(g)
<1>1. /\ Used' = Used \ {f}
      /\ sessionMap' = [g \in Used \ {f} |-> sessionMap[g]]
  BY EraseEffect
<1>2. /\ sessionMap[f] \in Pos /\ poolIndex[sessionMap[f]] = sessionMap[f]
      /\ \A g \in Used : sessionMap[g] \in Pos
                         /\ (g # f => sessionMap[g] # sessionMap[f])
  BY DEF PoolInv, PoolTypeOK, PoolConsistent
<1>3. ASSUME NEW g \in Flow
      PROVE  Open(g)' = IF g = f THEN 0 ELSE Open(g)
  <2>1. CASE g = f
    BY <1>1, <2>1 DEF Open
  <2>2. CASE g \in Used /\ g # f
    BY <1>1, <1>2, <2>2 DEF Open
  <2>3. CASE g \notin Used /\ g # f
    BY <1>1, <2>3 DEF Open
  <2> QED  BY <2>1, <2>2, <2>3
<1> QED  BY <1>2, <1>3

\* What a step does to one flow f: nothing (a duplicate), or a step of the
\* ledger; and to all others: nothing.
FlowStepTo(f, o, n, r, d) ==
  /\ \A g \in Flow : Open(g)' = IF g = f THEN o ELSE Open(g)
  /\ seen' = [seen EXCEPT ![f] = @ + n]
  /\ reported' = [reported EXCEPT ![f] = @ + r]
  /\ discarded' = [discarded EXCEPT ![f] = @ + d]
  /\ \/ o = Open(f) + n /\ r = 0 /\ d = 0 /\ o < SESSION_PKT_LIMIT
     \/ o = 0 /\ r = Open(f) + n /\ d = 0
     \/ o = 0 /\ r = 0 /\ d = Open(f) /\ n = 0 /\ Open(f) < MinCleanFrames

FlowStep(f) ==
  \E o \in Nat : \E n \in {0, 1} : \E r, d \in Nat : FlowStepTo(f, o, n, r, d)

TcpInv == PoolInv /\ TypeOK /\ FramesAccounted /\ now >= FirstSec

LEMMA OpenTyped ==
  ASSUME TypeOK, NEW f \in Flow
  PROVE  Open(f) \in Nat /\ Open(f) < SESSION_PKT_LIMIT
  BY TcpSessionAssumption DEF TypeOK, PoolTypeOK, Open, SessionRec

LEMMA StampTyped ==
  ASSUME TcpInv, NEW t \in (now - MaxLag) .. (now + MaxSkew)
  PROVE  t \in Nat
  BY TcpSessionAssumption DEF TcpInv, TypeOK

\* Account and Updated together are a step of the flow.
LEMMA AccountStep ==
  ASSUME TcpInv, NEW f \in Flow, NEW seq \in SeqNo, NEW s \in SessionRec,
         s.frCount = Open(f), Account(f, s, seq, 0),
         discarded' = discarded,
         \A g \in Flow : Open(g)' = IF g = f THEN Updated(s, seq).frCount ELSE Open(g)
  PROVE  FlowStep(f)
<1> DEFINE o == Updated(s, seq).frCount
           n == IF IsDuplicate(s, seq) THEN 0 ELSE 1
           r == IF Slices(s, seq) THEN s.frCount + 1 ELSE 0
<1>1. /\ s.frCount \in Nat /\ o \in Nat /\ o < SESSION_PKT_LIMIT
      /\ n \in {0, 1} /\ r \in Nat
  BY UpdateCounts, TcpSessionAssumption DEF SessionRec
<1>2. /\ seen \in [Flow -> Nat] /\ reported \in [Flow -> Nat]
      /\ discarded \in [Flow -> Nat]
  BY DEF TcpInv, TypeOK
<1>3. /\ seen' = [seen EXCEPT ![f] = seen[f] + n]
      /\ reported' = [reported EXCEPT ![f] = reported[f] + r]
      /\ discarded' = [discarded EXCEPT ![f] = discarded[f] + 0]
  <2>1. /\ seen' = [seen EXCEPT ![f] = IF IsDuplicate(s, seq) THEN seen[f]
                                       ELSE seen[f] + 1]
        /\ reported' = [reported EXCEPT ![f] = reported[f] + 0 +
                          (IF Slices(s, seq) THEN s.frCount + 1 ELSE 0)]
    BY DEF Account
  <2>2. /\ seen[f] + n = IF IsDuplicate(s, seq) THEN seen[f] ELSE seen[f] + 1
        /\ reported[f] + r = reported[f] + 0 +
             (IF Slices(s, seq) THEN s.frCount + 1 ELSE 0)
    BY <1>1, <1>2
  <2>3. discarded' = [discarded EXCEPT ![f] = discarded[f] + 0]
    BY <1>1, <1>2
  <2> HIDE DEF n, r
  <2> QED  BY <2>1, <2>2, <2>3
<1>4. \/ o = Open(f) + n /\ r = 0
      \/ o = 0 /\ r = Open(f) + n
  BY <1>1, UpdateCounts DEF Slices
<1> HIDE DEF o, n, r
<1>5. \A g \in Flow : Open(g)' = IF g = f THEN o ELSE Open(g)
  BY DEF o
<1>6. FlowStepTo(f, o, n, r, 0)
  BY <1>1, <1>3, <1>4, <1>5 DEF FlowStepTo
<1> QED  BY <1>1, <1>6 DEF FlowStep

LEMMA NewStep ==
  ASSUME TcpInv, NEW f \in Flow, NEW seq \in SeqNo, NEW flag,
         NEW t \in (now - MaxLag) .. (now + MaxSkew), PacketNew(f, flag, seq, t)
  PROVE  FlowStep(f) /\ session' \in [Pos -> SessionRec] /\ todo' \subseteq Used'
<1> DEFINE s == Arrive(Fresh(t), flag, t)
<1>1. s \in SessionRec /\ s.frCount = 0
  BY StampTyped, FreshTyped, ArriveTyped
<1>2. PICK p \in Pos : /\ Create(f, p)
                       /\ session' = [session EXCEPT ![p] = Updated(s, seq)]
  BY DEF PacketNew
<1>3. /\ Account(f, s, seq, 0) /\ discarded' = discarded
      /\ todo = {} /\ todo' = todo
  BY DEF PacketNew, Arrival
<1> HIDE DEF s
<1>4. session \in [Pos -> SessionRec] /\ PoolInv
  BY DEF TcpInv, TypeOK
<1>5. /\ Open(f) = 0
      /\ \A g \in Flow : Open(g)' = IF g = f THEN Updated(s, seq).frCount ELSE Open(g)
  BY <1>2, <1>4, OpenAfterCreate
<1>6. FlowStep(f)
  BY <1>1, <1>3, <1>5, AccountStep
<1>7. session' \in [Pos -> SessionRec]
  BY <1>1, <1>2, <1>4, UpdateCounts
<1> QED  BY <1>3, <1>6, <1>7

LEMMA KnownStep ==
  ASSUME TcpInv, NEW f \in Flow, NEW seq \in SeqNo, NEW flag,
         NEW t \in (now - MaxLag) .. (now + MaxSkew), PacketKnown(f, flag, seq, t)
  PROVE  FlowStep(f) /\ session' \in [Pos -> SessionRec] /\ todo' \subseteq Used'
<1> DEFINE p == sessionMap[f]
           s == Arrive(session[p], flag, t)
<1>1. f \in Used /\ p \in Pos /\ session \in [Pos -> SessionRec] /\ PoolInv
  BY DEF PacketKnown, TcpInv, TypeOK, PoolTypeOK
<1>2. s \in SessionRec /\ s.frCount = Open(f)
  BY <1>1, StampTyped, ArriveTyped DEF Open
<1>3. /\ session' = [session EXCEPT ![p] = Updated(s, seq)]
      /\ Account(f, s, seq, 0) /\ discarded' = discarded
      /\ todo = {} /\ todo' = todo /\ UNCHANGED poolVars
  BY DEF PacketKnown, Arrival
<1> HIDE DEF s
<1>4. \A g \in Flow : Open(g)' = IF g = f THEN Updated(s, seq).frCount ELSE Open(g)
  BY <1>1, <1>3, OpenAfterUpdate
<1>5. FlowStep(f)
  BY <1>2, <1>3, <1>4, AccountStep
<1>6. session' \in [Pos -> SessionRec]
  BY <1>1, <1>2, <1>3, UpdateCounts
<1> QED  BY <1>3, <1>5, <1>6

LEMMA FinStep ==
  ASSUME TcpInv, NEW f \in Flow, NEW seq \in SeqNo,
         NEW t \in (now - MaxLag) .. (now + MaxSkew), PacketFin(f, seq, t)
  PROVE  FlowStep(f) /\ session' \in [Pos -> SessionRec] /\ todo' \subseteq Used'
<1> DEFINE p == sessionMap[f]
           s == Arrive(session[p], "FIN", t)
           u == Updated(s, seq)
           n == IF IsDuplicate(s, seq) THEN 0 ELSE 1
           r == u.frCount + (IF Slices(s, seq) THEN s.frCount + 1 ELSE 0)
<1>1. f \in Used /\ p \in Pos /\ session \in [Pos -> SessionRec] /\ PoolInv
  BY DEF PacketFin, TcpInv, TypeOK, PoolTypeOK
<1>2. s \in SessionRec /\ s.frCount = Open(f)
  BY <1>1, StampTyped, ArriveTyped DEF Open
<1>3. /\ Erase(p)
      /\ session' = [session EXCEPT ![poolIndex[p]] = Fresh(0)]
      /\ Account(f, s, seq, u.frCount) /\ discarded' = discarded
      /\ todo = {} /\ todo' = todo
  BY DEF PacketFin, Arrival
<1> HIDE DEF s
<1>4. /\ session' = [session EXCEPT ![p] = Fresh(0)]
      /\ \A g \in Flow : Open(g)' = IF g = f THEN 0 ELSE Open(g)
  BY <1>1, <1>3, OpenAfterErase
<1>5. u.frCount \in Nat /\ s.frCount \in Nat /\ n \in {0, 1} /\ r \in Nat
  BY <1>2, UpdateCounts, TcpSessionAssumption DEF SessionRec
<1>6. r = Open(f) + n
  BY <1>2, <1>5, UpdateCounts DEF Slices
<1>7. /\ seen \in [Flow -> Nat] /\ reported \in [Flow -> Nat]
      /\ discarded \in [Flow -> Nat]
  BY DEF TcpInv, TypeOK
<1>8. /\ seen' = [seen EXCEPT ![f] = seen[f] + n]
      /\ reported' = [reported EXCEPT ![f] = reported[f] + r]
      /\ discarded' = [discarded EXCEPT ![f] = discarded[f] + 0]
  <2>1. /\ seen' = [seen EXCEPT ![f] = IF IsDuplicate(s, seq) THEN seen[f]
                                       ELSE seen[f] + 1]
        /\ reported' = [reported EXCEPT ![f] = reported[f] + u.frCount +
                          (IF Slices(s, seq) THEN s.frCount + 1 ELSE 0)]
    BY <1>3 DEF Account
  <2>2. /\ seen[f] + n = IF IsDuplicate(s, seq) THEN seen[f] ELSE seen[f] + 1
        /\ reported[f] + r = reported[f] + u.frCount +
             (IF Slices(s, seq) THEN s.frCount + 1 ELSE 0)
    BY <1>5, <1>7
  <2>3. discarded' = [discarded EXCEPT ![f] = discarded[f] + 0]
    BY <1>3, <1>7
  <2> HIDE DEF n, r
  <2> QED  BY <2>1, <2>2, <2>3
<1> HIDE DEF u, n, r
<1>9. FlowStepTo(f, 0, n, r, 0)
  BY <1>4, <1>5, <1>6, <1>8 DEF FlowStepTo
<1>a. session' \in [Pos -> SessionRec]
  BY <1>1, <1>4, FreshTyped
<1> QED  BY <1>3, <1>5, <1>9, <1>a DEF FlowStep

LEMMA CleanFlushStep ==
  ASSUME TcpInv, NEW f \in Flow, CleanFlush(f)
  PROVE  FlowStep(f) /\ session' \in [Pos -> SessionRec] /\ todo' \subseteq Used'
<1> DEFINE p == sessionMap[f]
           s == session[p]
           short == s.frCount < MinCleanFrames
           r == IF short THEN 0 ELSE s.frCount
           d == IF short THEN s.frCount ELSE 0
<1>1. /\ f \in Used /\ p \in Pos /\ session \in [Pos -> SessionRec] /\ PoolInv
      /\ todo \subseteq Used
  BY DEF CleanFlush, TcpInv, TypeOK, PoolTypeOK
<1>2. /\ Erase(p)
      /\ session' = [session EXCEPT ![poolIndex[p]] = Fresh(0)]
      /\ reported' = [reported EXCEPT ![f] = reported[f] + r]
      /\ discarded' = [discarded EXCEPT ![f] = discarded[f] + d]
      /\ seen' = seen /\ todo' = todo \ {f}
  BY DEF CleanFlush
<1>3. /\ session' = [session EXCEPT ![p] = Fresh(0)]
      /\ \A g \in Flow : Open(g)' = IF g = f THEN 0 ELSE Open(g)
      /\ Used' = Used \ {f}
  BY <1>1, <1>2, OpenAfterErase, EraseEffect
<1>4. /\ s.frCount = Open(f) /\ s.frCount \in Nat
      /\ r \in Nat /\ d \in Nat
  BY <1>1, TcpSessionAssumption DEF Open, SessionRec
<1>5. \/ r = Open(f) /\ d = 0
      \/ r = 0 /\ d = Open(f) /\ Open(f) < MinCleanFrames
  BY <1>4
<1>6. seen' = [seen EXCEPT ![f] = seen[f] + 0]
  BY <1>2 DEF TcpInv, TypeOK
<1>a. Open(f) \in Nat
  BY <1>4
<1> HIDE DEF r, d
<1>7. FlowStepTo(f, 0, 0, r, d)
  <2>1. \A g \in Flow : Open(g)' = IF g = f THEN 0 ELSE Open(g)
    BY <1>3
  <2>2. \/ 0 = 0 /\ r = Open(f) + 0 /\ d = 0
        \/ 0 = 0 /\ r = 0 /\ d = Open(f) /\ 0 = 0 /\ Open(f) < MinCleanFrames
    BY <1>5, <1>a
  <2> QED  BY <1>2, <1>6, <2>1, <2>2 DEF FlowStepTo
<1>8. session' \in [Pos -> SessionRec]
  BY <1>1, <1>3, FreshTyped
<1> QED  BY <1>1, <1>2, <1>3, <1>4, <1>7, <1>8 DEF FlowStep

-----------------------------------------------------------------------------
(***************************************************************************)
(* The inductive invariant.                                                *)
(***************************************************************************)
LEMMA TcpInvInit == Init => TcpInv
<1> SUFFICES ASSUME Init PROVE TcpInv
  OBVIOUS
<1>1. PoolInv
  BY PoolInvInit DEF Init
<1>2. TypeOK
  BY <1>1, FreshTyped, TcpSessionAssumption DEF Init, TypeOK, PoolInv
<1>3. FramesAccounted
  BY DEF Init, PoolInit, FramesAccounted, Open, Used
<1> QED  BY <1>1, <1>2, <1>3, TcpSessionAssumption DEF TcpInv, Init

\* Every step of the manager is a step of one flow, or leaves the sessions,
\* the pool and the books alone.
Idle == UNCHANGED <<poolVars, session, seen, reported, discarded>>

LEMMA NextCases ==
  ASSUME TcpInv, [Next]_vars
  PROVE  \/ Idle
         \/ \E f \in Flow : /\ FlowStep(f)
                            /\ session' \in [Pos -> SessionRec]
                            /\ todo' \subseteq Used'
<1>1. CASE Tick \/ (\E eod \in BOOLEAN : StartScan(eod)) \/ UNCHANGED vars
  BY <1>1 DEF Tick, StartScan, vars, ghosts, Idle
<1>2. CASE Clean
  BY <1>2, CleanFlushStep DEF Clean, CleanSkip, ghosts, Idle
<1>3. ASSUME NEW f \in Flow, NEW seq \in SeqNo,
             NEW t \in (now - MaxLag) .. (now + MaxSkew), Packet(f, seq, t)
      PROVE  FlowStep(f) /\ session' \in [Pos -> SessionRec] /\ todo' \subseteq Used'
  BY <1>3, NewStep, KnownStep, FinStep DEF Packet
<1> QED  BY <1>1, <1>2, <1>3 DEF Next

\* The parts of the state that belong to no flow.
LEMMA RestTyped ==
  ASSUME TcpInv, [Next]_vars
  PROVE  /\ now' \in Nat /\ now' >= FirstSec
         /\ endOfDay' \in BOOLEAN
         /\ heard' \in [Flow -> Nat]
         /\ Idle => todo' \subseteq Used'
<1>0. /\ now \in Nat /\ now >= FirstSec /\ endOfDay \in BOOLEAN
      /\ heard \in [Flow -> Nat] /\ todo \subseteq Used
  BY DEF TcpInv, TypeOK
<1>i. Idle => Used' = Used
  BY DEF Idle, poolVars, Used
<1>1. CASE Tick
  BY <1>0, <1>1, <1>i, TcpSessionAssumption DEF Tick, ghosts
<1>2. ASSUME NEW eod \in BOOLEAN, StartScan(eod)
      PROVE  now' = now /\ endOfDay' \in BOOLEAN /\ heard' = heard /\ todo' = Used
  BY <1>2 DEF StartScan, ghosts
<1>3. CASE Clean
  BY <1>0, <1>3, <1>i DEF Clean, CleanSkip, CleanFlush, ghosts
<1>4. ASSUME NEW f \in Flow, NEW seq \in SeqNo,
             NEW t \in (now - MaxLag) .. (now + MaxSkew), Packet(f, seq, t)
      PROVE  /\ now' = now /\ endOfDay' = endOfDay /\ todo' = todo
             /\ heard' = [heard EXCEPT ![f] = t]
  BY <1>4 DEF Packet, PacketNew, PacketKnown, PacketFin, Arrival
<1>5. CASE UNCHANGED vars
  BY <1>0, <1>5, <1>i DEF vars, ghosts
<1>6. CASE \E eod \in BOOLEAN : StartScan(eod)
  BY <1>0, <1>2, <1>6, <1>i
<1>7. CASE \E f \in Flow : \E seq \in SeqNo :
             \E t \in (now - MaxLag) .. (now + MaxSkew) : Packet(f, seq, t)
  BY <1>0, <1>4, <1>7, <1>i, StampTyped
<1> QED  BY <1>1, <1>3, <1>5, <1>6, <1>7 DEF Next

LEMMA FlowStepKeepsBooks ==
  ASSUME TcpInv, NEW f \in Flow, FlowStep(f)
  PROVE  /\ FramesAccounted'
         /\ seen' \in [Flow -> Nat] /\ reported' \in [Flow -> Nat]
         /\ discarded' \in [Flow -> Nat]
<1>0. /\ seen \in [Flow -> Nat] /\ reported \in [Flow -> Nat]
      /\ discarded \in [Flow -> Nat]
      /\ \A g \in Flow : Open(g) \in Nat
      /\ \A g \in Flow : seen[g] = reported[g] + discarded[g] + Open(g)
  BY OpenTyped DEF TcpInv, TypeOK, FramesAccounted
<1>1. PICK o \in Nat, n \in {0, 1}, r \in Nat, d \in Nat : FlowStepTo(f, o, n, r, d)
  BY DEF FlowStep
<1>2. /\ seen' \in [Flow -> Nat] /\ reported' \in [Flow -> Nat]
      /\ discarded' \in [Flow -> Nat]
  <2>1. seen[f] + n \in Nat /\ reported[f] + r \in Nat /\ discarded[f] + d \in Nat
    BY <1>0
  <2> QED  BY <1>0, <1>1, <2>1 DEF FlowStepTo
<1>3. ASSUME NEW g \in Flow
      PROVE  seen'[g] = reported'[g] + discarded'[g] + Open(g)'
  <2>1. CASE g # f
    BY <1>0, <1>1, <2>1 DEF FlowStepTo
  <2>2. CASE g = f
    <3>1. /\ seen'[g] = seen[g] + n /\ reported'[g] = reported[g] + r
          /\ discarded'[g] = discarded[g] + d /\ Open(g)' = o
      BY <1>0, <1>1, <2>2 DEF FlowStepTo
    <3>2. o + r + d = Open(g) + n
      BY <1>0, <1>1, <2>2 DEF FlowStepTo
    <3>3. /\ seen[g] \in Nat /\ reported[g] \in Nat /\ discarded[g] \in Nat
          /\ Open(g) \in Nat /\ seen[g] = reported[g] + discarded[g] + Open(g)
      BY <1>0
    <3> QED  BY <3>1, <3>2, <3>3
  <2> QED  BY <2>1, <2>2
<1> QED  BY <1>2, <1>3 DEF FramesAccounted

LEMMA TcpInvStep == TcpInv /\ [Next]_vars => TcpInv'
<1> SUFFICES ASSUME TcpInv, [Next]_vars PROVE TcpInv'
  OBVIOUS
<1>1. PoolInv'
  BY TcpIsPoolStep, PoolInvStep DEF TcpInv, TypeOK
<1>2. CASE Idle
  <2>1. FramesAccounted'
    <3>1. \A f \in Flow : Open(f)' = Open(f)
      BY <1>2 DEF Idle, poolVars, Open, Used
    <3> QED  BY <1>2, <3>1 DEF Idle, TcpInv, FramesAccounted
  <2>2. TypeOK'
    BY <1>1, <1>2, RestTyped DEF Idle, TcpInv, TypeOK, PoolInv
  <2> QED  BY <1>1, <2>1, <2>2, RestTyped DEF TcpInv
<1>3. ASSUME NEW f \in Flow, FlowStep(f), session' \in [Pos -> SessionRec],
             todo' \subseteq Used'
      PROVE  TcpInv'
  <2>1. TypeOK'
    BY <1>1, <1>3, RestTyped, FlowStepKeepsBooks DEF TypeOK, PoolInv
  <2> QED  BY <1>1, <1>3, <2>1, RestTyped, FlowStepKeepsBooks DEF TcpInv
<1> QED  BY <1>2, <1>3, NextCases

THEOREM TcpInvAlways == Spec => []TcpInv
  BY TcpInvInit, TcpInvStep, PTL DEF Spec

(* Type correctness of the session manager.                                *)
THEOREM TcpTypeCorrect == Spec => []TypeOK
<1>1. TcpInv => TypeOK  BY DEF TcpInv
<1> QED  BY <1>1, TcpInvAlways, PTL

(* Every frame of every flow is in exactly one report, was discarded by a  *)
(* clean-up, or is still in the session of its flow (tcpUpdateSession,     *)
(* reuse, tcpFlushSession, tcpCleanSession).                               *)
THEOREM NoFrameIsLost == Spec => []FramesAccounted
<1>1. TcpInv => FramesAccounted  BY DEF TcpInv
<1> QED  BY <1>1, TcpInvAlways, PTL

(* The session manager uses its pool as SessionPool allows, so that map,   *)
(* bits and objects stay consistent and no search for a free object hangs. *)
THEOREM TcpImplementsPool == Spec => PoolSpec
<1>1. Init => PoolInit  BY DEF Init
<1>2. TcpInv /\ [Next]_vars => [PoolNext]_poolVars
  BY TcpIsPoolStep DEF TcpInv, TypeOK
<1> QED  BY <1>1, <1>2, TcpInvAlways, PTL DEF Spec, PoolSpec

THEOREM TcpPoolConsistent == Spec => [](PoolConsistent /\ SearchEnds)
  BY TcpImplementsPool, PoolAlwaysConsistent, PTL

-----------------------------------------------------------------------------
(***************************************************************************)
(* Refinement of the ledger.                                               *)
(***************************************************************************)
LEMMA FlowStepIsLedgerStep ==
  ASSUME TcpInv, NEW f \in Flow, FlowStep(f)
  PROVE  [Ledger!LedgerNext]_(Ledger!ledgerVars)
<1> DEFINE open == [g \in Flow |-> Open(g)]
<1>0. /\ seen \in [Flow -> Nat] /\ reported \in [Flow -> Nat]
      /\ discarded \in [Flow -> Nat]
      /\ \A g \in Flow : Open(g) \in Nat /\ Open(g) < SESSION_PKT_LIMIT
  BY OpenTyped DEF TcpInv, TypeOK
<1>1. PICK o \in Nat, n \in {0, 1}, r \in Nat, d \in Nat : FlowStepTo(f, o, n, r, d)
  BY DEF FlowStep
<1>2. /\ open' = [open EXCEPT ![f] = o] /\ open[f] = Open(f)
      /\ reported' = [reported EXCEPT ![f] = reported[f] + r]
      /\ discarded' = [discarded EXCEPT ![f] = discarded[f] + d]
  BY <1>1 DEF FlowStepTo
<1>3. CASE o = Open(f) + n /\ r = 0 /\ d = 0 /\ o < SESSION_PKT_LIMIT
  <2>1. UNCHANGED <<reported, discarded>>
    BY <1>0, <1>2, <1>3
  <2>2. CASE n = 0
    <3>1. o = Open(f)
      BY <1>0, <1>3, <2>2
    <3>2. \A g \in Flow : Open(g)' = Open(g)
      BY <1>1, <3>1 DEF FlowStepTo
    <3> QED  BY <2>1, <3>2 DEF Ledger!ledgerVars
  <2>3. CASE n = 1
    BY <1>0, <1>2, <1>3, <2>1, <2>3 DEF Ledger!LedgerNext, Ledger!Count
  <2> QED  BY <1>1, <2>2, <2>3
<1>4. CASE o = 0 /\ r = Open(f) + n /\ d = 0
  <2>1. discarded' = discarded
    BY <1>0, <1>2, <1>4
  <2>2. reported[f] + r = reported[f] + open[f] + n
    BY <1>0, <1>2, <1>4
  <2>3. Ledger!Report(f)
    <3>1. reported' = [reported EXCEPT ![f] = reported[f] + open[f] + n]
      BY <1>2, <2>2
    <3>2. open' = [open EXCEPT ![f] = 0]
      BY <1>2, <1>4
    <3> QED  BY <1>1, <2>1, <3>1, <3>2 DEF Ledger!Report
  <2> QED  BY <2>3 DEF Ledger!LedgerNext
<1>5. CASE o = 0 /\ r = 0 /\ d = Open(f) /\ Open(f) < MinCleanFrames
  <2>1. reported' = reported
    BY <1>0, <1>2, <1>5
  <2>2. Ledger!Discard(f)
    BY <1>2, <1>5, <2>1 DEF Ledger!Discard
  <2> QED  BY <2>2 DEF Ledger!LedgerNext
<1> QED  BY <1>1, <1>3, <1>4, <1>5 DEF FlowStepTo

(* The session manager implements the ledger: to an observer of reports    *)
(* and discards, every step counts a frame, reports all open frames of a   *)
(* flow, or discards fewer than MinCleanFrames of them.                    *)
THEOREM TcpImplementsLedger == Spec => ImplementsLedger
<1>1. Init => Ledger!LedgerInit
  BY DEF Init, PoolInit, Open, Used, Ledger!LedgerInit
<1>2. TcpInv /\ [Next]_vars => [Ledger!LedgerNext]_(Ledger!ledgerVars)
  <2> SUFFICES ASSUME TcpInv, [Next]_vars
               PROVE  [Ledger!LedgerNext]_(Ledger!ledgerVars)
    OBVIOUS
  <2>1. CASE Idle
    <3>1. \A f \in Flow : Open(f)' = Open(f)
      BY <2>1 DEF Idle, poolVars, Open, Used
    <3> QED  BY <2>1, <3>1 DEF Idle, Ledger!ledgerVars
  <2> QED  BY <2>1, NextCases, FlowStepIsLedgerStep
<1> QED
  BY <1>1, <1>2, TcpInvAlways, PTL DEF Spec, ImplementsLedger, Ledger!LedgerSpec

-----------------------------------------------------------------------------
(***************************************************************************)
(* The periodic scan.  A session with frames in it knows when its flow was *)
(* heard last: reuse() takes the time of the last packet away, but with it *)
(* go the frames.                                                          *)
(***************************************************************************)
LastIsHeard ==
  \A f \in Used : Open(f) > 0 => session[sessionMap[f]].last = heard[f]

LEMMA UpdateKeepsLast ==
  ASSUME NEW s \in SessionRec, NEW flag, NEW t, NEW seq,
         NEW u, u = Updated(Arrive(s, flag, t), seq), u.frCount > 0
  PROVE  u.last = t
<1> DEFINE a == Arrive(s, flag, t)
<1>1. /\ a.last = t
      /\ DOMAIN a = {"rcv", "frCount", "dup", "slice", "start", "last", "cause"}
  BY DEF Arrive, SessionRec
<1> HIDE DEF a
<1>2. CountFrame(a, seq).last = t
  BY <1>1 DEF CountFrame
<1>3. ~ Slices(a, seq)
  <2>1. SUFFICES ASSUME Slices(a, seq) PROVE u.frCount = 0
    OBVIOUS
  <2> DEFINE c == CountFrame(a, seq)
             d == Flushed(c, SliceCause(c))
  <2>2. u = reuse(d)
    BY <2>1 DEF a, Updated, Slices
  <2>3. DOMAIN c = DOMAIN a
    BY DEF CountFrame
  <2>4. DOMAIN d = DOMAIN c
    <3> HIDE DEF c
    <3> QED  BY DEF Flushed
  <2> HIDE DEF d
  <2>5. reuse(d).frCount = 0
    BY <1>1, <2>3, <2>4 DEF reuse
  <2> QED  BY <2>2, <2>5
<1>4. u = IF IsDuplicate(a, seq) THEN a ELSE CountFrame(a, seq)
  BY <1>3 DEF Updated, a
<1> QED  BY <1>1, <1>2, <1>4

\* A packet of f leaves f with the time it brought.
LEMMA HeardAfterPacket ==
  ASSUME PoolInv, session \in [Pos -> SessionRec], LastIsHeard, NEW f \in Flow,
         NEW t, heard \in [Flow -> Nat], heard' = [heard EXCEPT ![f] = t],
         NEW u, NEW p \in Pos, u.frCount > 0 => u.last = t,
         session' = [session EXCEPT ![p] = u],
         \/ f \in Used /\ p = sessionMap[f] /\ UNCHANGED poolVars
         \/ Create(f, p)
  PROVE  LastIsHeard'
<1>1. /\ Used' = Used \cup {f} /\ sessionMap'[f] = p
      /\ \A g \in Used \ {f} : /\ sessionMap'[g] = sessionMap[g]
                               /\ sessionMap[g] \in Pos /\ sessionMap[g] # p
  <2>1. \A g \in Used : /\ sessionMap[g] \in Pos /\ sessionMap[g] \in bitFlags
                         /\ key[sessionMap[g]] = g
    BY DEF PoolInv, PoolTypeOK, PoolConsistent
  <2>2. CASE f \in Used /\ p = sessionMap[f] /\ UNCHANGED poolVars
    <3>1. \A g \in Used \ {f} : sessionMap[g] # p
      BY <2>1, <2>2
    <3>2. sessionMap' = sessionMap /\ Used' = Used
      BY <2>2 DEF poolVars, Used
    <3> QED  BY <2>1, <2>2, <3>1, <3>2
  <2>3. CASE Create(f, p)
    <3>1. /\ f \notin Used /\ p \notin bitFlags
          /\ sessionMap' = [g \in Used \cup {f} |-> IF g = f THEN p ELSE sessionMap[g]]
      BY <2>3 DEF Create, FreeIndex
    <3>2. Used' = Used \cup {f}
      BY <3>1 DEF Used
    <3> QED  BY <2>1, <3>1, <3>2
  <2> QED  BY <2>2, <2>3
<1>2. ASSUME NEW g \in Used \ {f}, Open(g)' > 0
      PROVE  session'[sessionMap'[g]].last = heard'[g]
  <2>1. Open(g)' = Open(g) /\ session'[sessionMap'[g]] = session[sessionMap[g]]
    BY <1>1 DEF Open
  <2>2. heard'[g] = heard[g]
    BY <1>1 DEF PoolInv, PoolTypeOK
  <2> QED  BY <1>2, <2>1, <2>2 DEF LastIsHeard
<1>3. ASSUME Open(f)' > 0 PROVE session'[sessionMap'[f]].last = heard'[f]
  BY <1>1, <1>3 DEF Open
<1> QED  BY <1>1, <1>2, <1>3 DEF LastIsHeard

LEMMA HeardAfterErase ==
  ASSUME PoolInv, session \in [Pos -> SessionRec], LastIsHeard, NEW f \in Used,
         Erase(sessionMap[f]),
         session' = [session EXCEPT ![poolIndex[sessionMap[f]]] = Fresh(0)],
         \A g \in Used \ {f} : heard'[g] = heard[g]
  PROVE  LastIsHeard'
<1>1. /\ Used' = Used \ {f}
      /\ \A g \in Used \ {f} : sessionMap'[g] = sessionMap[g]
  BY EraseEffect
<1>2. /\ poolIndex[sessionMap[f]] = sessionMap[f]
      /\ \A g \in Used \ {f} : sessionMap[g] \in Pos /\ sessionMap[g] # sessionMap[f]
  BY DEF PoolInv, PoolTypeOK, PoolConsistent
<1>3. ASSUME NEW g \in Used \ {f}, Open(g)' > 0
      PROVE  session'[sessionMap'[g]].last = heard'[g]
  <2>1. Open(g)' = Open(g) /\ session'[sessionMap'[g]] = session[sessionMap[g]]
    BY <1>1, <1>2 DEF Open
  <2> QED  BY <1>3, <2>1 DEF LastIsHeard
<1> QED  BY <1>1, <1>3 DEF LastIsHeard

LEMMA HeardStep == TcpInv /\ LastIsHeard /\ [Next]_vars => LastIsHeard'
<1> SUFFICES ASSUME TcpInv, LastIsHeard, [Next]_vars PROVE LastIsHeard'
  OBVIOUS
<1>0. /\ PoolInv /\ session \in [Pos -> SessionRec] /\ heard \in [Flow -> Nat]
      /\ Used \subseteq Flow /\ \A f \in Used : sessionMap[f] \in Pos
  BY DEF TcpInv, TypeOK, PoolTypeOK
<1>1. CASE UNCHANGED <<poolVars, session, heard>>
  BY <1>1 DEF poolVars, LastIsHeard, Used, Open
<1>2. ASSUME NEW f \in Flow, CleanFlush(f) PROVE LastIsHeard'
  <2>1. f \in Used
    BY <1>2 DEF CleanFlush, TcpInv, TypeOK
  <2> QED  BY <1>0, <1>2, <2>1, HeardAfterErase DEF CleanFlush
<1>3. ASSUME NEW f \in Flow, NEW seq \in SeqNo,
             NEW t \in (now - MaxLag) .. (now + MaxSkew), Packet(f, seq, t)
      PROVE  LastIsHeard'
  <2>0. t \in Nat /\ heard' = [heard EXCEPT ![f] = t]
    BY <1>3, StampTyped DEF Packet, PacketNew, PacketKnown, PacketFin, Arrival
  <2>1. ASSUME NEW flag, PacketNew(f, flag, seq, t) PROVE LastIsHeard'
    <3>1. PICK u : u = Updated(Arrive(Fresh(t), flag, t), seq)
      OBVIOUS
    <3>2. PICK p \in Pos : Create(f, p) /\ session' = [session EXCEPT ![p] = u]
      BY <2>1, <3>1 DEF PacketNew
    <3>3. u.frCount > 0 => u.last = t
      BY <2>0, <3>1, FreshTyped, UpdateKeepsLast
    <3> QED  BY <1>0, <2>0, <3>2, <3>3, HeardAfterPacket
  <2>2. ASSUME NEW flag, PacketKnown(f, flag, seq, t) PROVE LastIsHeard'
    <3>1. PICK u : u = Updated(Arrive(session[sessionMap[f]], flag, t), seq)
      OBVIOUS
    <3>2. /\ f \in Used /\ session' = [session EXCEPT ![sessionMap[f]] = u]
          /\ UNCHANGED poolVars
      BY <2>2, <3>1 DEF PacketKnown
    <3>3. u.frCount > 0 => u.last = t
      BY <1>0, <3>1, <3>2, UpdateKeepsLast
    <3> QED  BY <1>0, <2>0, <3>2, <3>3, HeardAfterPacket
  <2>3. CASE PacketFin(f, seq, t)
    <3>1. /\ f \in Used /\ Erase(sessionMap[f])
          /\ session' = [session EXCEPT ![poolIndex[sessionMap[f]]] = Fresh(0)]
      BY <2>3 DEF PacketFin
    <3>2. \A g \in Used \ {f} : heard'[g] = heard[g]
      BY <1>0, <2>0
    <3> QED  BY <1>0, <3>1, <3>2, HeardAfterErase
  <2> QED  BY <1>3, <2>1, <2>2, <2>3 DEF Packet
<1>4. CASE Tick \/ (\E eod \in BOOLEAN : StartScan(eod)) \/ UNCHANGED vars
           \/ \E f \in Flow : CleanSkip(f)
  BY <1>1, <1>4 DEF Tick, StartScan, CleanSkip, vars, ghosts
<1> QED  BY <1>2, <1>3, <1>4 DEF Next, Clean

(* The periodic scan never ends a session that has frames in it unless its *)
(* flow has been silent for longer than the time-out, or its last packet   *)
(* came with a time ahead of the clock (tcpTimeOutClean, tcpCleanSession). *)
THEOREM ActiveSessionsAreKept == Spec => ActiveFramesKept
<1>1. Init => LastIsHeard
  BY DEF Init, PoolInit, LastIsHeard, Used
<1>2. Spec => [](TcpInv /\ LastIsHeard)
  BY <1>1, HeardStep, TcpInvAlways, PTL DEF Spec
<1>3. TcpInv /\ LastIsHeard /\ [Next]_vars =>
        [\A f \in Used :
           (f \notin Used' /\ todo # {} /\ ~ endOfDay /\ Open(f) > 0)
             => \/ now - heard[f] > TCP_CLEAN_UP_TIMEOUT_SEC
                \/ heard[f] > now]_vars
  <2> SUFFICES ASSUME TcpInv, LastIsHeard, Next, NEW f \in Used,
                      f \notin Used', todo # {}, ~ endOfDay, Open(f) > 0
               PROVE  \/ now - heard[f] > TCP_CLEAN_UP_TIMEOUT_SEC
                      \/ heard[f] > now
    OBVIOUS
  <2>1. ~ UNCHANGED poolVars
    BY DEF poolVars, Used
  <2>2. ~ Tick /\ ~ \E eod \in BOOLEAN : StartScan(eod)
    BY <2>1 DEF Tick, StartScan
  <2>3. PICK g \in Flow : CleanFlush(g)
    BY <2>1, <2>2 DEF Next, Packet, PacketNew, PacketKnown, PacketFin, Arrival,
                      Clean, CleanSkip
  <2>4. g \in Used /\ Erase(sessionMap[g]) /\ TimedOut(session[sessionMap[g]])
    BY <2>3 DEF CleanFlush, TcpInv, TypeOK
  <2>5. g = f
    BY <2>4, EraseEffect DEF TcpInv
  <2>6. /\ session[sessionMap[f]].last = heard[f]
        /\ now \in Nat /\ heard[f] \in Nat
    BY DEF LastIsHeard, TcpInv, TypeOK, PoolTypeOK
  <2> QED  BY <2>4, <2>5, <2>6 DEF TimedOut
<1> QED  BY <1>2, <1>3, PTL DEF Spec, ActiveFramesKept
=============================================================================
