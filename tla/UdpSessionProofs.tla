--------------------------- MODULE UdpSessionProofs ---------------------------
(***************************************************************************)
(* The UDP session manager, for any flows, pool and limits: its pool is a  *)
(* SessionPool, no frame is lost, and no flow pays for another's traffic.  *)
(***************************************************************************)
EXTENDS UdpSession, SessionPoolProofs

Direction == {"UP", "DOWN"}

\* A step only erases sessions that are in the map.
LEMMA UdpIsPoolStep ==
  ASSUME todo \subseteq Used, [Next]_vars
  PROVE  [PoolNext]_poolVars
<1>1. ASSUME NEW f \in Flow, NEW dir, NEW load, NEW t, Packet(f, dir, load, t)
      PROVE  [PoolNext]_poolVars
  BY <1>1 DEF Packet, PoolNext
<1>2. CASE Clean
  BY <1>2 DEF Clean, CleanSkip, CleanFlush, PoolNext
<1>3. CASE Tick \/ \E eod \in BOOLEAN : StartScan(eod)
  BY <1>3 DEF Tick, StartScan
<1>4. CASE UNCHANGED vars
  BY <1>4 DEF vars, poolVars
<1> QED  BY <1>1, <1>2, <1>3, <1>4 DEF Next

-----------------------------------------------------------------------------
(***************************************************************************)
(* The session object.                                                     *)
(***************************************************************************)
LEMMA StampTyped ==
  ASSUME now \in FirstSec .. MaxSec, NEW t \in (now - MaxLag) .. (now + MaxSkew)
  PROVE  t \in Nat /\ t \in Second
  BY UdpSessionAssumption DEF Second

LEMMA FreshTyped ==
  ASSUME NEW t \in Nat
  PROVE  /\ Fresh(t) \in SessionRec /\ Fresh(t).frCount = 0
         /\ \A x \in Second : Fresh(t).dnPackets[x] = 0
  BY UdpSessionAssumption DEF Fresh, SessionRec

\* What a packet adds to the packets of its second.
Added(s, dir, load, t) ==
  IF load /\ dir = "DOWN" /\ WithinVps(s, dir, t) THEN 1 ELSE 0

\* updateVPS adds a packet to its second if the limit lets it through.
LEMMA MeasuredTyped ==
  ASSUME NEW s \in SessionRec, NEW dir, NEW load, NEW t \in Second
  PROVE  LET m == Measured(s, dir, load, t)
         IN  /\ m \in SessionRec /\ m.frCount = s.frCount
             /\ \A x \in Second :
                  m.dnPackets[x] = s.dnPackets[x]
                    + IF x = t THEN Added(s, dir, load, t) ELSE 0
<1> DEFINE m == Measured(s, dir, load, t)
           add == load /\ dir = "DOWN" /\ WithinVps(s, dir, t)
<1>1. s.dnPackets \in [Second -> Nat]
  BY DEF SessionRec
<1>2. CASE add
  <2>1. m = [s EXCEPT !.dnPackets = [s.dnPackets EXCEPT ![t] = s.dnPackets[t] + 1]]
    BY <1>2 DEF Measured, SessionRec
  <2>2. [s.dnPackets EXCEPT ![t] = s.dnPackets[t] + 1] \in [Second -> Nat]
    BY <1>1
  <2>3. m \in SessionRec /\ m.frCount = s.frCount
    BY <2>1, <2>2 DEF SessionRec
  <2>4. m.dnPackets = [s.dnPackets EXCEPT ![t] = s.dnPackets[t] + 1]
    BY <2>1 DEF SessionRec
  <2>5. Added(s, dir, load, t) = 1
    BY <1>2 DEF Added
  <2>6. \A x \in Second :
          m.dnPackets[x] = s.dnPackets[x] + IF x = t THEN 1 ELSE 0
    <3> HIDE DEF m
    <3> QED  BY <1>1, <2>4
  <2> QED  BY <2>3, <2>5, <2>6
<1>3. CASE ~ add
  <2>1. m = s /\ Added(s, dir, load, t) = 0
    BY <1>3 DEF Measured, Added
  <2> QED  BY <1>1, <2>1
<1> QED  BY <1>2, <1>3

\* updateUdpSession: a packet that is let through is counted, in the session
\* or in the slice it fills; one that is not changes no count.
LEMMA UpdatedTyped ==
  ASSUME NEW m \in SessionRec, NEW pass \in BOOLEAN
  PROVE  LET u == Updated(m, pass)
         IN  /\ u \in SessionRec
             /\ ~ pass => u = m
             /\ pass /\ ~ Full(Counted(m)) => u.frCount = m.frCount + 1
             /\ pass /\ Full(Counted(m)) => u.frCount = 0
             /\ \A x \in Second : u.dnPackets[x] <= m.dnPackets[x]
<1> DEFINE c == Counted(m)
<1>1. /\ m.frCount \in Nat /\ m.dnPackets \in [Second -> Nat] /\ m.last \in Nat
      /\ c = [m EXCEPT !.frCount = m.frCount + 1]
      /\ c.frCount = m.frCount + 1 /\ c.dnPackets = m.dnPackets
      /\ c.last = m.last
  BY UdpSessionAssumption DEF SessionRec, Counted
<1>2. CASE ~ pass
  BY <1>1, <1>2 DEF Updated
<1>3. CASE pass /\ ~ Full(c)
  <2>1. Updated(m, pass) = c
    BY <1>3 DEF Updated
  <2>2. c.frCount \in 0 .. (SESSION_PKT_LIMIT - 1)
    BY <1>1, <1>3, UdpSessionAssumption DEF Full
  <2>3. c \in SessionRec
    BY <1>1, <2>2 DEF SessionRec
  <2>4. \A x \in Second : c.dnPackets[x] <= m.dnPackets[x]
    BY <1>1
  <2>5. Updated(m, pass).frCount = m.frCount + 1
    BY <1>1, <2>1
  <2>6. Updated(m, pass) \in SessionRec
    BY <2>1, <2>3
  <2>7. \A x \in Second : Updated(m, pass).dnPackets[x] <= m.dnPackets[x]
    BY <2>1, <2>4
  <2> QED  BY <1>3, <2>5, <2>6, <2>7
<1>4. CASE pass /\ Full(c)
  <2>1. Updated(m, pass) = reuse(c)
    BY <1>4 DEF Updated
  <2>2. /\ reuse(c) \in SessionRec /\ reuse(c).frCount = 0
        /\ reuse(c).dnPackets = [x \in Second |-> 0]
    <3>1. /\ m.start \in Nat /\ 0 \in 0 .. (SESSION_PKT_LIMIT - 1)
          /\ [x \in Second |-> 0] \in [Second -> Nat]
      BY UdpSessionAssumption DEF SessionRec
    <3> QED  BY <1>1, <3>1 DEF reuse, SessionRec
  <2>3. \A x \in Second : reuse(c).dnPackets[x] <= m.dnPackets[x]
    BY <1>1, <2>2
  <2> QED  BY <1>4, <2>1, <2>2, <2>3
<1> QED  BY <1>2, <1>3, <1>4

-----------------------------------------------------------------------------
(***************************************************************************)
(* What each way of touching a session object does to the open frames and  *)
(* to the packets counted against the limit.                               *)
(***************************************************************************)
\* The downlink packets of f its session knows of in a second.
Known(f) == IF f \in Used THEN session[sessionMap[f]].dnPackets
            ELSE [x \in Second |-> 0]

LEMMA AfterUpdate ==
  ASSUME PoolInv, session \in [Pos -> SessionRec], NEW f \in Used, NEW u,
         session' = [session EXCEPT ![sessionMap[f]] = u], UNCHANGED poolVars
  PROVE  \A g \in Flow : /\ Open(g)' = IF g = f THEN u.frCount ELSE Open(g)
                         /\ Known(g)' = IF g = f THEN u.dnPackets ELSE Known(g)
  BY DEF Open, Known, Used, poolVars, PoolInv, PoolTypeOK, PoolConsistent

LEMMA AfterCreate ==
  ASSUME PoolInv, session \in [Pos -> SessionRec], NEW f \in Flow,
         NEW p \in Pos, NEW u, Create(f, p),
         session' = [session EXCEPT ![p] = u]
  PROVE  /\ f \notin Used
         /\ \A g \in Flow : /\ Open(g)' = IF g = f THEN u.frCount ELSE Open(g)
                            /\ Known(g)' = IF g = f THEN u.dnPackets ELSE Known(g)
<1>1. /\ f \notin Used /\ p \notin bitFlags
      /\ sessionMap' = [g \in Used \cup {f} |-> IF g = f THEN p ELSE sessionMap[g]]
      /\ Used' = Used \cup {f}
  BY DEF Create, FreeIndex, Used
<1>2. \A g \in Used : sessionMap[g] \in Pos /\ sessionMap[g] # p
  BY <1>1 DEF PoolInv, PoolTypeOK, PoolConsistent
<1>3. ASSUME NEW g \in Flow
      PROVE  /\ Open(g)' = IF g = f THEN u.frCount ELSE Open(g)
             /\ Known(g)' = IF g = f THEN u.dnPackets ELSE Known(g)
  <2>1. CASE g = f
    BY <1>1, <2>1 DEF Open, Known
  <2>2. CASE g \in Used /\ g # f
    BY <1>1, <1>2, <2>2 DEF Open, Known
  <2>3. CASE g \notin Used /\ g # f
    BY <1>1, <2>3 DEF Open, Known
  <2> QED  BY <2>1, <2>2, <2>3
<1> QED  BY <1>1, <1>3

LEMMA AfterErase ==
  ASSUME PoolInv, session \in [Pos -> SessionRec], NEW f \in Used,
         Erase(sessionMap[f]),
         session' = [session EXCEPT ![poolIndex[sessionMap[f]]] = Fresh(0)]
  PROVE  /\ session' = [session EXCEPT ![sessionMap[f]] = Fresh(0)]
         /\ \A g \in Flow :
              /\ Open(g)' = IF g = f THEN 0 ELSE Open(g)
              /\ Known(g)' = IF g = f THEN [x \in Second |-> 0] ELSE Known(g)
<1>1. /\ Used' = Used \ {f}
      /\ sessionMap' = [g \in Used \ {f} |-> sessionMap[g]]
  BY EraseEffect
<1>2. /\ sessionMap[f] \in Pos /\ poolIndex[sessionMap[f]] = sessionMap[f]
      /\ \A g \in Used : sessionMap[g] \in Pos
                         /\ (g # f => sessionMap[g] # sessionMap[f])
  BY DEF PoolInv, PoolTypeOK, PoolConsistent
<1>3. ASSUME NEW g \in Flow
      PROVE  /\ Open(g)' = IF g = f THEN 0 ELSE Open(g)
             /\ Known(g)' = IF g = f THEN [x \in Second |-> 0] ELSE Known(g)
  <2>1. CASE g = f
    BY <1>1, <2>1 DEF Open, Known
  <2>2. CASE g \in Used /\ g # f
    BY <1>1, <1>2, <2>2 DEF Open, Known
  <2>3. CASE g \notin Used /\ g # f
    BY <1>1, <2>3 DEF Open, Known
  <2> QED  BY <2>1, <2>2, <2>3
<1> QED  BY <1>2, <1>3
-----------------------------------------------------------------------------
(***************************************************************************)
(* A step of one flow.                                                     *)
(***************************************************************************)
\* No more packets count against a session than its flow was let through.
KnownPassed ==
  \A f \in Flow : \A x \in Second : Known(f)[x] <= through[f][x]

UdpInv == PoolInv /\ TypeOK /\ FramesAccounted /\ KnownPassed

\* What a step does to flow f: h packets are handled, n of them counted, r
\* frames reported, o stay open; and to all others: nothing.
FlowStepTo(f, o, h, n, r) ==
  /\ \A g \in Flow : Open(g)' = IF g = f THEN o ELSE Open(g)
  /\ handled' = [handled EXCEPT ![f] = @ + h]
  /\ dropped' = [dropped EXCEPT ![f] = @ + (h - n)]
  /\ reported' = [reported EXCEPT ![f] = @ + r]
  /\ \/ o = Open(f) + n /\ r = 0 /\ o < SESSION_PKT_LIMIT
     \/ o = 0 /\ r = Open(f) + n

FlowStep(f) ==
  \E o, r \in Nat : \E h, n \in {0, 1} : n <= h /\ FlowStepTo(f, o, h, n, r)

\* A step of one flow that leaves the other variables as they should be.
SoundStep(f) ==
  /\ FlowStep(f) /\ KnownPassed'
  /\ session' \in [Pos -> SessionRec]
  /\ through' \in [Flow -> [Second -> Nat]] /\ vpsFlag' \in BOOLEAN
  /\ todo' \subseteq Used' /\ endOfDay' = endOfDay /\ now' = now

LEMMA OpenTyped ==
  ASSUME TypeOK, NEW f \in Flow
  PROVE  Open(f) \in Nat /\ Open(f) < SESSION_PKT_LIMIT
  BY UdpSessionAssumption DEF TypeOK, PoolTypeOK, Open, SessionRec

\* The session object after updateUdpSession.
After(s, dir, load, t) ==
  Updated(Measured(s, dir, load, t), Verdict(s, dir, load, t))

\* updateUdpSession keeps the books of the flow.
LEMMA UpdateStep ==
  ASSUME UdpInv, NEW f \in Flow, NEW p \in Pos, NEW s \in SessionRec,
         NEW dir, NEW load, NEW t \in Second,
         s.frCount = Open(f), \A x \in Second : s.dnPackets[x] <= through[f][x],
         Update(f, p, s, dir, load, t),
         LET u == After(s, dir, load, t)
         IN  \A g \in Flow :
               /\ Open(g)' = IF g = f THEN u.frCount ELSE Open(g)
               /\ Known(g)' = IF g = f THEN u.dnPackets ELSE Known(g)
  PROVE  /\ FlowStep(f) /\ KnownPassed'
         /\ session' \in [Pos -> SessionRec]
         /\ through' \in [Flow -> [Second -> Nat]] /\ vpsFlag' \in BOOLEAN
<1> DEFINE u == After(s, dir, load, t)
           m == Measured(s, dir, load, t)
           pass == Verdict(s, dir, load, t)
           sliced == pass /\ Full(Counted(m))
           add == load /\ dir = "DOWN" /\ pass
           n == IF pass THEN 1 ELSE 0
           r == IF sliced THEN s.frCount + 1 ELSE 0
           k == IF add THEN 1 ELSE 0
<1>1. /\ session' = [session EXCEPT ![p] = u]
      /\ vpsFlag' = pass
      /\ handled' = [handled EXCEPT ![f] = @ + 1]
      /\ dropped' = [dropped EXCEPT ![f] = @ + IF pass THEN 0 ELSE 1]
      /\ reported' = [reported EXCEPT ![f] = @ + r]
      /\ through' = [through EXCEPT ![f][t] = @ + k]
  BY DEF Update, After
<1>2. pass \in BOOLEAN
  BY DEF UdpInv, TypeOK, Verdict, WithinVps
<1>3. /\ m \in SessionRec /\ m.frCount = s.frCount
      /\ \A x \in Second : m.dnPackets[x] = s.dnPackets[x] + IF x = t THEN k ELSE 0
  <2>1. k = Added(s, dir, load, t)
    BY DEF Verdict, Added
  <2>2. /\ m \in SessionRec /\ m.frCount = s.frCount
        /\ \A x \in Second :
             m.dnPackets[x] = s.dnPackets[x]
               + IF x = t THEN Added(s, dir, load, t) ELSE 0
    BY MeasuredTyped
  <2> HIDE DEF m, k
  <2> QED  BY <2>1, <2>2
<1>4. /\ u \in SessionRec
      /\ ~ pass => u.frCount = s.frCount
      /\ pass /\ ~ sliced => u.frCount = s.frCount + 1
      /\ sliced => u.frCount = 0
      /\ \A x \in Second : u.dnPackets[x] <= m.dnPackets[x]
  BY <1>2, <1>3, UpdatedTyped DEF After
<1>5. /\ handled \in [Flow -> Nat] /\ dropped \in [Flow -> Nat]
      /\ reported \in [Flow -> Nat] /\ through \in [Flow -> [Second -> Nat]]
      /\ session \in [Pos -> SessionRec] /\ KnownPassed
  BY DEF UdpInv, TypeOK
<1>6. /\ s.frCount \in Nat /\ u.frCount \in Nat /\ u.frCount < SESSION_PKT_LIMIT
      /\ n \in {0, 1} /\ r \in Nat /\ k \in {0, 1} /\ dropped[f] \in Nat
      /\ s.dnPackets \in [Second -> Nat] /\ m.dnPackets \in [Second -> Nat]
      /\ u.dnPackets \in [Second -> Nat]
  BY <1>3, <1>4, <1>5, UdpSessionAssumption DEF SessionRec
<1>7. /\ sliced => r = s.frCount + 1 /\ n = 1
      /\ ~ sliced => r = 0
      /\ ~ pass => n = 0
      /\ pass => n = 1
  OBVIOUS
<1>8. dropped' = [dropped EXCEPT ![f] = @ + (1 - n)]
  BY <1>1, <1>2, <1>6, <1>7
<1>e. \A g \in Flow : /\ Open(g)' = IF g = f THEN u.frCount ELSE Open(g)
                      /\ Known(g)' = IF g = f THEN u.dnPackets ELSE Known(g)
  OBVIOUS
<1> HIDE DEF u, m, pass, sliced, add, n, r, k
<1>9. \/ u.frCount = Open(f) + n /\ r = 0 /\ u.frCount < SESSION_PKT_LIMIT
      \/ u.frCount = 0 /\ r = Open(f) + n
  BY <1>2, <1>4, <1>6, <1>7
<1>a. FlowStepTo(f, u.frCount, 1, n, r)
  BY <1>1, <1>8, <1>9, <1>e DEF FlowStepTo
<1>b. FlowStep(f)
  BY <1>6, <1>a DEF FlowStep
<1>c. /\ through' \in [Flow -> [Second -> Nat]]
      /\ \A g \in Flow, x \in Second :
           through'[g][x] = through[g][x] + IF g = f /\ x = t THEN k ELSE 0
  <2>1. through[f] \in [Second -> Nat] /\ through[f][t] + k \in Nat
    BY <1>5, <1>6
  <2>2. through' = [through EXCEPT ![f] = [through[f] EXCEPT ![t] = through[f][t] + k]]
    BY <1>1, <1>5
  <2>3. [through[f] EXCEPT ![t] = through[f][t] + k] \in [Second -> Nat]
    BY <2>1
  <2> QED  BY <1>5, <1>6, <2>1, <2>2, <2>3
<1>d. KnownPassed'
  <2> SUFFICES ASSUME NEW g \in Flow, NEW x \in Second
               PROVE  Known(g)'[x] <= through'[g][x]
    BY DEF KnownPassed
  <2>1. CASE g # f
    <3>1. Known(g)' = Known(g) /\ through'[g][x] = through[g][x]
      BY <1>5, <1>c, <1>e, <2>1
    <3> QED  BY <1>5, <3>1 DEF KnownPassed
  <2>2. CASE g = f
    <3>1. Known(g)' = u.dnPackets
      BY <1>e, <2>2
    <3>2. /\ u.dnPackets[x] <= m.dnPackets[x]
          /\ m.dnPackets[x] = s.dnPackets[x] + IF x = t THEN k ELSE 0
          /\ s.dnPackets[x] <= through[g][x]
          /\ through'[g][x] = through[g][x] + IF x = t THEN k ELSE 0
      BY <1>3, <1>4, <1>c, <2>2
    <3>3. /\ u.dnPackets[x] \in Nat /\ m.dnPackets[x] \in Nat
          /\ s.dnPackets[x] \in Nat /\ through[g][x] \in Nat
      BY <1>5, <1>6
    <3> QED  BY <1>6, <3>1, <3>2, <3>3
  <2> QED  BY <2>1, <2>2
<1> QED  BY <1>1, <1>2, <1>4, <1>5, <1>b, <1>c, <1>d

LEMMA PacketStep ==
  ASSUME UdpInv, NEW f \in Flow, NEW dir \in Direction, NEW load,
         NEW t \in (now - MaxLag) .. (now + MaxSkew), Packet(f, dir, load, t)
  PROVE  SoundStep(f)
<1>0. /\ session \in [Pos -> SessionRec] /\ PoolInv /\ KnownPassed
      /\ todo \subseteq Used
      /\ through \in [Flow -> [Second -> Nat]]
      /\ t \in Nat /\ t \in Second
  BY StampTyped DEF UdpInv, TypeOK
<1>1. todo = {} /\ todo' = todo /\ endOfDay' = endOfDay /\ now' = now
  BY DEF Packet
<1>2. CASE f \in Used /\ UNCHANGED poolVars
           /\ Update(f, sessionMap[f], [session[sessionMap[f]] EXCEPT !.last = t],
                     dir, load, t)
  <2> DEFINE p == sessionMap[f]
             s == [session[p] EXCEPT !.last = t]
             u == After(s, dir, load, t)
  <2>1. p \in Pos /\ session[p] \in SessionRec
    BY <1>0, <1>2 DEF PoolInv, PoolTypeOK
  <2>2. /\ s \in SessionRec /\ s.frCount = session[p].frCount
        /\ s.dnPackets = session[p].dnPackets
    BY <1>0, <2>1 DEF SessionRec
  <2>3. s.frCount = Open(f) /\ s.dnPackets = Known(f)
    BY <1>2, <2>2 DEF Open, Known
  <2>4. session' = [session EXCEPT ![p] = u]
    BY <1>2 DEF Update, After
  <2>5. Update(f, p, s, dir, load, t)
    BY <1>2
  <2> HIDE DEF s
  <2>6. \A g \in Flow : /\ Open(g)' = IF g = f THEN u.frCount ELSE Open(g)
                        /\ Known(g)' = IF g = f THEN u.dnPackets ELSE Known(g)
    BY <1>0, <1>2, <2>4, AfterUpdate
  <2>7. \A x \in Second : s.dnPackets[x] <= through[f][x]
    BY <1>0, <2>3 DEF KnownPassed
  <2>8. /\ FlowStep(f) /\ KnownPassed'
        /\ session' \in [Pos -> SessionRec]
        /\ through' \in [Flow -> [Second -> Nat]] /\ vpsFlag' \in BOOLEAN
    BY <1>0, <2>1, <2>2, <2>3, <2>5, <2>6, <2>7, UpdateStep
  <2> QED  BY <1>1, <2>8 DEF SoundStep
<1>3. ASSUME NEW p \in Pos, Create(f, p), Update(f, p, Fresh(t), dir, load, t)
      PROVE  SoundStep(f)
  <2> DEFINE s == Fresh(t)
             u == After(s, dir, load, t)
  <2>1. s \in SessionRec /\ s.frCount = 0 /\ \A x \in Second : s.dnPackets[x] = 0
    BY <1>0, FreshTyped
  <2>2. session' = [session EXCEPT ![p] = u] /\ Update(f, p, s, dir, load, t)
    BY <1>3 DEF Update, After
  <2> HIDE DEF s
  <2>3. /\ f \notin Used
        /\ \A g \in Flow : /\ Open(g)' = IF g = f THEN u.frCount ELSE Open(g)
                           /\ Known(g)' = IF g = f THEN u.dnPackets ELSE Known(g)
    BY <1>0, <1>3, <2>2, AfterCreate
  <2>4. s.frCount = Open(f)
    BY <2>1, <2>3 DEF Open
  <2>5. \A x \in Second : s.dnPackets[x] <= through[f][x]
    <3> SUFFICES ASSUME NEW x \in Second  PROVE s.dnPackets[x] <= through[f][x]
      OBVIOUS
    <3>1. through[f][x] \in Nat
      BY <1>0
    <3>2. s.dnPackets[x] = 0
      BY <2>1
    <3> QED  BY <3>1, <3>2
  <2>6. /\ FlowStep(f) /\ KnownPassed'
        /\ session' \in [Pos -> SessionRec]
        /\ through' \in [Flow -> [Second -> Nat]] /\ vpsFlag' \in BOOLEAN
    BY <1>0, <2>1, <2>2, <2>3, <2>4, <2>5, UpdateStep
  <2> QED  BY <1>1, <2>6 DEF SoundStep
<1> QED  BY <1>2, <1>3 DEF Packet

LEMMA CleanFlushStep ==
  ASSUME UdpInv, NEW f \in Flow, CleanFlush(f)
  PROVE  SoundStep(f)
<1> DEFINE p == sessionMap[f]
           r == session[p].frCount
<1>1. /\ f \in Used /\ p \in Pos /\ session \in [Pos -> SessionRec] /\ PoolInv
      /\ todo \subseteq Used /\ KnownPassed
      /\ handled \in [Flow -> Nat] /\ dropped \in [Flow -> Nat]
      /\ reported \in [Flow -> Nat] /\ through \in [Flow -> [Second -> Nat]]
      /\ vpsFlag \in BOOLEAN
  BY DEF CleanFlush, UdpInv, TypeOK, PoolTypeOK
<1>2. /\ Erase(p)
      /\ session' = [session EXCEPT ![poolIndex[p]] = Fresh(0)]
      /\ reported' = [reported EXCEPT ![f] = @ + r]
      /\ todo' = todo \ {f}
      /\ UNCHANGED <<now, vpsFlag, endOfDay, handled, dropped, through>>
  BY DEF CleanFlush
<1>3. /\ session' = [session EXCEPT ![p] = Fresh(0)]
      /\ \A g \in Flow :
           /\ Open(g)' = IF g = f THEN 0 ELSE Open(g)
           /\ Known(g)' = IF g = f THEN [x \in Second |-> 0] ELSE Known(g)
      /\ Used' = Used \ {f}
  BY <1>1, <1>2, AfterErase, EraseEffect
<1>4. r = Open(f) /\ r \in Nat
  BY <1>1, UdpSessionAssumption DEF Open, SessionRec
<1>5. /\ handled' = [handled EXCEPT ![f] = @ + 0]
      /\ dropped' = [dropped EXCEPT ![f] = @ + (0 - 0)]
  BY <1>1, <1>2
<1> HIDE DEF r
<1>6. FlowStepTo(f, 0, 0, 0, r)
  <2>1. \A g \in Flow : Open(g)' = IF g = f THEN 0 ELSE Open(g)
    BY <1>3
  <2>2. 0 = 0 /\ r = Open(f) + 0
    BY <1>4
  <2> QED  BY <1>2, <1>5, <2>1, <2>2 DEF FlowStepTo
<1>7. FlowStep(f)
  BY <1>4, <1>6 DEF FlowStep
<1>8. KnownPassed'
  <2> SUFFICES ASSUME NEW g \in Flow, NEW x \in Second
               PROVE  Known(g)'[x] <= through[g][x]
    BY <1>2 DEF KnownPassed
  <2>1. CASE g = f
    BY <1>1, <1>3, <2>1
  <2>2. CASE g # f
    BY <1>1, <1>3, <2>2 DEF KnownPassed
  <2> QED  BY <2>1, <2>2
<1>9. session' \in [Pos -> SessionRec]
  BY <1>1, <1>3, FreshTyped
<1> QED  BY <1>1, <1>2, <1>3, <1>7, <1>8, <1>9 DEF SoundStep

-----------------------------------------------------------------------------
(***************************************************************************)
(* The inductive invariant.                                                *)
(***************************************************************************)
LEMMA UdpInvInit == Init => UdpInv
<1> SUFFICES ASSUME Init PROVE UdpInv
  OBVIOUS
<1>1. PoolInv
  BY PoolInvInit DEF Init
<1>2. now \in FirstSec .. MaxSec
  BY UdpSessionAssumption DEF Init
<1>3. session \in [Pos -> SessionRec]
  BY FreshTyped DEF Init
<1>4. TypeOK
  BY <1>1, <1>2, <1>3 DEF Init, TypeOK, PoolInv
<1>5. Used = {}
  BY DEF Init, PoolInit, Used
<1>6. FramesAccounted
  BY <1>5 DEF Init, FramesAccounted, Open
<1>7. KnownPassed
  BY <1>5 DEF Init, KnownPassed, Known
<1> QED  BY <1>1, <1>4, <1>6, <1>7 DEF UdpInv

\* The steps that touch no session.
Idle == /\ UNCHANGED <<poolVars, session, vpsFlag, ghosts>>
        /\ now' \in FirstSec .. MaxSec /\ todo' \subseteq Used
        /\ endOfDay' \in BOOLEAN

LEMMA NextCases ==
  ASSUME UdpInv, [Next]_vars
  PROVE  Idle \/ \E f \in Flow : SoundStep(f)
<1>0. /\ now \in FirstSec .. MaxSec /\ todo \subseteq Used
      /\ endOfDay \in BOOLEAN
  BY DEF UdpInv, TypeOK
<1>1. CASE Tick
  <2>1. now' \in FirstSec .. MaxSec
    BY <1>0, <1>1, UdpSessionAssumption DEF Tick
  <2> QED  BY <1>0, <1>1, <2>1 DEF Tick, Idle
<1>2. CASE \E eod \in BOOLEAN : StartScan(eod)
  BY <1>0, <1>2 DEF StartScan, Idle
<1>3. CASE UNCHANGED vars
  BY <1>0, <1>3 DEF vars, Idle
<1>4. CASE Clean
  BY <1>0, <1>4, CleanFlushStep DEF Clean, CleanSkip, Idle
<1>5. ASSUME NEW f \in Flow, NEW dir \in {"UP", "DOWN"}, NEW load \in BOOLEAN,
             NEW t \in (now - MaxLag) .. (now + MaxSkew), Packet(f, dir, load, t)
      PROVE  SoundStep(f)
  BY <1>5, PacketStep DEF Direction
<1> QED  BY <1>1, <1>2, <1>3, <1>4, <1>5 DEF Next

LEMMA FlowStepKeepsBooks ==
  ASSUME UdpInv, NEW f \in Flow, FlowStep(f)
  PROVE  /\ FramesAccounted'
         /\ handled' \in [Flow -> Nat] /\ dropped' \in [Flow -> Nat]
         /\ reported' \in [Flow -> Nat]
<1>0. /\ handled \in [Flow -> Nat] /\ dropped \in [Flow -> Nat]
      /\ reported \in [Flow -> Nat]
      /\ \A g \in Flow : Open(g) \in Nat
      /\ \A g \in Flow : handled[g] - dropped[g] = reported[g] + Open(g)
  BY OpenTyped DEF UdpInv, TypeOK, FramesAccounted
<1>1. PICK o \in Nat, r \in Nat, h \in {0, 1}, n \in {0, 1} :
        n <= h /\ FlowStepTo(f, o, h, n, r)
  BY DEF FlowStep
<1>2. /\ handled' \in [Flow -> Nat] /\ dropped' \in [Flow -> Nat]
      /\ reported' \in [Flow -> Nat]
  <2>1. /\ handled[f] + h \in Nat /\ dropped[f] + (h - n) \in Nat
        /\ reported[f] + r \in Nat
    BY <1>0, <1>1
  <2> QED  BY <1>0, <1>1, <2>1 DEF FlowStepTo
<1>3. ASSUME NEW g \in Flow
      PROVE  handled'[g] - dropped'[g] = reported'[g] + Open(g)'
  <2>1. CASE g # f
    BY <1>0, <1>1, <2>1 DEF FlowStepTo
  <2>2. CASE g = f
    <3>1. /\ handled'[g] = handled[g] + h /\ dropped'[g] = dropped[g] + (h - n)
          /\ reported'[g] = reported[g] + r /\ Open(g)' = o
      BY <1>0, <1>1, <2>2 DEF FlowStepTo
    <3>2. o + r = Open(g) + n
      BY <1>0, <1>1, <2>2 DEF FlowStepTo
    <3>3. /\ handled[g] \in Nat /\ dropped[g] \in Nat /\ reported[g] \in Nat
          /\ Open(g) \in Nat /\ handled[g] - dropped[g] = reported[g] + Open(g)
      BY <1>0
    <3> QED  BY <1>1, <3>1, <3>2, <3>3
  <2> QED  BY <2>1, <2>2
<1> QED  BY <1>2, <1>3 DEF FramesAccounted

LEMMA UdpInvStep == UdpInv /\ [Next]_vars => UdpInv'
<1> SUFFICES ASSUME UdpInv, [Next]_vars PROVE UdpInv'
  OBVIOUS
<1>1. PoolInv'
  BY UdpIsPoolStep, PoolInvStep DEF UdpInv, TypeOK
<1>2. CASE Idle
  <2>1. Used' = Used
    BY <1>2 DEF Idle, poolVars, Used
  <2>2. \A f \in Flow : Open(f)' = Open(f) /\ Known(f)' = Known(f)
    BY <1>2 DEF Idle, poolVars, Open, Known, Used
  <2>3. FramesAccounted' /\ KnownPassed'
    BY <1>2, <2>2 DEF Idle, ghosts, UdpInv, FramesAccounted, KnownPassed
  <2>4. TypeOK'
    BY <1>1, <1>2, <2>1 DEF Idle, ghosts, UdpInv, TypeOK, PoolInv
  <2> QED  BY <1>1, <2>3, <2>4 DEF UdpInv
<1>3. ASSUME NEW f \in Flow, SoundStep(f)
      PROVE  UdpInv'
  <2>1. TypeOK'
    BY <1>1, <1>3, FlowStepKeepsBooks DEF SoundStep, UdpInv, TypeOK, PoolInv
  <2> QED  BY <1>1, <1>3, <2>1, FlowStepKeepsBooks DEF SoundStep, UdpInv
<1> QED  BY <1>2, <1>3, NextCases

THEOREM UdpInvAlways == Spec => []UdpInv
  BY UdpInvInit, UdpInvStep, PTL DEF Spec

(* Type correctness of the UDP session manager.                            *)
THEOREM UdpTypeCorrect == Spec => []TypeOK
<1>1. UdpInv => TypeOK  BY DEF UdpInv
<1> QED  BY <1>1, UdpInvAlways, PTL

(* Every packet of every flow was dropped by the limit, is in exactly one  *)
(* report, or is still in the session of its flow (updateUdpSession,       *)
(* reuse, udpFlushSession, udpCleanSession).                               *)
THEOREM UdpLosesNoFrame == Spec => []FramesAccounted
<1>1. UdpInv => FramesAccounted  BY DEF UdpInv
<1> QED  BY <1>1, UdpInvAlways, PTL

(* The UDP manager uses its pool as SessionPool allows: map, bits and      *)
(* objects stay consistent, and no search for a free object hangs.         *)
THEOREM UdpPoolConsistent == Spec => [](PoolConsistent /\ SearchEnds)
<1>1. Init => PoolInit  BY DEF Init
<1>2. UdpInv /\ [Next]_vars => [PoolNext]_poolVars
  BY UdpIsPoolStep DEF UdpInv, TypeOK
<1>3. Spec => PoolSpec
  BY <1>1, <1>2, UdpInvAlways, PTL DEF Spec, PoolSpec
<1> QED  BY <1>3, PoolAlwaysConsistent, PTL

-----------------------------------------------------------------------------
(***************************************************************************)
(* Refinement of the ledger, and who pays for an overrun.                  *)
(***************************************************************************)
LEMMA FlowStepIsLedgerStep ==
  ASSUME UdpInv, NEW f \in Flow, FlowStep(f)
  PROVE  [Ledger!LedgerNext]_(Ledger!ledgerVars)
<1> DEFINE open == [g \in Flow |-> Open(g)]
<1>0. /\ reported \in [Flow -> Nat]
      /\ \A g \in Flow : Open(g) \in Nat /\ Open(g) < SESSION_PKT_LIMIT
  BY OpenTyped DEF UdpInv, TypeOK
<1>1. PICK o \in Nat, r \in Nat, h \in {0, 1}, n \in {0, 1} :
        n <= h /\ FlowStepTo(f, o, h, n, r)
  BY DEF FlowStep
<1>2. /\ open' = [open EXCEPT ![f] = o] /\ open[f] = Open(f)
      /\ reported' = [reported EXCEPT ![f] = reported[f] + r]
  BY <1>1 DEF FlowStepTo
<1>3. CASE o = Open(f) + n /\ r = 0 /\ o < SESSION_PKT_LIMIT
  <2>1. reported' = reported
    BY <1>0, <1>2, <1>3
  <2>2. CASE n = 0
    <3>1. o = Open(f)
      BY <1>0, <1>3, <2>2
    <3>2. \A g \in Flow : Open(g)' = Open(g)
      BY <1>1, <3>1 DEF FlowStepTo
    <3> QED  BY <2>1, <3>2 DEF Ledger!ledgerVars
  <2>3. CASE n = 1
    BY <1>0, <1>2, <1>3, <2>1, <2>3 DEF Ledger!LedgerNext, Ledger!Count
  <2> QED  BY <1>1, <2>2, <2>3
<1>4. CASE o = 0 /\ r = Open(f) + n
  <2>1. reported[f] + r = reported[f] + open[f] + n
    BY <1>0, <1>2, <1>4
  <2>2. reported' = [reported EXCEPT ![f] = reported[f] + open[f] + n]
    BY <1>2, <2>1
  <2>3. open' = [open EXCEPT ![f] = 0]
    BY <1>2, <1>4
  <2> QED  BY <1>1, <2>2, <2>3 DEF Ledger!LedgerNext, Ledger!Report
<1> QED  BY <1>1, <1>3, <1>4 DEF FlowStepTo

(* The UDP manager keeps the ledger of FlowLedger and discards nothing: to *)
(* an observer of its reports, every step counts a packet, reports all     *)
(* open ones of a flow, or does nothing.                                   *)
THEOREM UdpImplementsLedger == Spec => ImplementsLedger
<1>1. Init => Ledger!LedgerInit
  BY DEF Init, PoolInit, Open, Used, Ledger!LedgerInit
<1>2. UdpInv /\ [Next]_vars => [Ledger!LedgerNext]_(Ledger!ledgerVars)
  <2> SUFFICES ASSUME UdpInv, [Next]_vars
               PROVE  [Ledger!LedgerNext]_(Ledger!ledgerVars)
    OBVIOUS
  <2>1. CASE Idle
    <3>1. \A f \in Flow : Open(f)' = Open(f)
      BY <2>1 DEF Idle, poolVars, Open, Used
    <3> QED  BY <2>1, <3>1 DEF Idle, ghosts, Ledger!ledgerVars
  <2> QED  BY <2>1, NextCases, FlowStepIsLedgerStep DEF SoundStep
<1> QED
  BY <1>1, <1>2, UdpInvAlways, PTL DEF Spec, ImplementsLedger, Ledger!LedgerSpec

\* A packet with payload that is dropped has met a session that knows of
\* more packets of its second than the limit allows.
LEMMA DropIsEarned ==
  ASSUME UdpInv, NEW f \in Flow, NEW t \in Second, NEW dir \in Direction,
         Packet(f, dir, TRUE, t), dropped'[f] # dropped[f]
  PROVE  through[f][t] > VPS_PACKET_PER_SEC
<1>0. /\ dropped \in [Flow -> Nat] /\ through \in [Flow -> [Second -> Nat]]
      /\ session \in [Pos -> SessionRec] /\ PoolInv /\ KnownPassed
  BY DEF UdpInv, TypeOK
<1>1. ASSUME NEW p, NEW s, Update(f, p, s, dir, TRUE, t)
      PROVE  s.dnPackets[t] > VPS_PACKET_PER_SEC
  <2>1. dropped' = [dropped EXCEPT ![f] =
                      @ + IF WithinVps(s, dir, t) THEN 0 ELSE 1]
    BY <1>1 DEF Update, Verdict
  <2>2. ~ WithinVps(s, dir, t)
    BY <1>0, <2>1
  <2> QED  BY <2>2 DEF WithinVps
<1>2. CASE f \in Used /\ Update(f, sessionMap[f],
                                [session[sessionMap[f]] EXCEPT !.last = t],
                                dir, TRUE, t)
  <2> DEFINE s == [session[sessionMap[f]] EXCEPT !.last = t]
  <2>1. session[sessionMap[f]] \in SessionRec
    BY <1>0, <1>2 DEF PoolInv, PoolTypeOK
  <2>2. Known(f)[t] > VPS_PACKET_PER_SEC
    <3>1. s.dnPackets = Known(f)
      BY <1>2, <2>1 DEF Known, SessionRec
    <3>2. Update(f, sessionMap[f], s, dir, TRUE, t)
      BY <1>2
    <3> HIDE DEF s
    <3>3. s.dnPackets[t] > VPS_PACKET_PER_SEC
      BY <1>1, <3>2, Zenon
    <3> QED  BY <3>1, <3>3
  <2>3. Known(f)[t] \in Nat /\ Known(f)[t] <= through[f][t]
    BY <1>0, <1>2, <2>1 DEF KnownPassed, Known, SessionRec
  <2> QED  BY <1>0, <2>2, <2>3, UdpSessionAssumption
<1>3. ASSUME NEW p \in Pos, Update(f, p, Fresh(t), dir, TRUE, t)
      PROVE  FALSE
  <2>1. Fresh(t).dnPackets[t] = 0
    BY DEF Fresh
  <2>2. Fresh(t).dnPackets[t] > VPS_PACKET_PER_SEC
    BY <1>1, <1>3, Zenon
  <2> QED  BY <2>1, <2>2, UdpSessionAssumption
<1> QED  BY <1>2, <1>3 DEF Packet

(* The limit is the flow's own (updateVPS): no packet with payload is      *)
(* dropped unless its own flow has had more downlink packets let through   *)
(* in that second than the limit, whatever other flows did.                *)
THEOREM DropsAreEarned == Spec => PayloadDropsEarned
<1>1. ASSUME UdpInv, [Next]_vars
      PROVE  [\A f \in Flow : \A t \in Second : \A dir \in {"UP", "DOWN"} :
                (Packet(f, dir, TRUE, t) /\ dropped'[f] # dropped[f])
                  => through[f][t] > VPS_PACKET_PER_SEC]_vars
  BY <1>1, DropIsEarned DEF Direction
<1> QED  BY <1>1, UdpInvAlways, PTL DEF Spec, PayloadDropsEarned
=============================================================================
