---------------------------- MODULE UnmappedProofs ----------------------------
(***************************************************************************)
(* Traffic of unknown subscribers, for any flows, pools of sessions and of *)
(* addresses, limits and time-outs: the two pools stay consistent, no      *)
(* frame is lost, all lines of a flow agree on its source, and a report    *)
(* goes to a file of its time.  The arithmetic of the ring comes first, as *)
(* in RingProofs (whose variables have the same names as the ones here).   *)
(***************************************************************************)
EXTENDS Unmapped, FiniteSetTheorems, TLAPS

\* Quotient and remainder put a number together again.
LEMMA DivMod ==
  ASSUME NEW N \in Nat \ {0}, NEW a \in Nat
  PROVE  /\ a = (N * (a \div N)) + (a % N)
         /\ a \div N \in Nat
         /\ a % N \in 0 .. (N - 1)
  OBVIOUS

\* The only multiple of N strictly between -N and N is zero.
LEMMA SmallMultiple ==
  ASSUME NEW N \in Nat \ {0}, NEW d \in Int, NEW r \in Int,
         r = N * d, -N < r, r < N
  PROVE  d = 0
<1>1. ASSUME d >= 1 PROVE FALSE
  <2>1. N * d >= N  BY <1>1
  <2> QED  BY <2>1
<1>2. ASSUME d <= -1 PROVE FALSE
  <2>1. N * d <= -N  BY <1>2
  <2> QED  BY <2>1
<1> QED  BY <1>1, <1>2

\* Two numbers less than a lap apart have different remainders.
LEMMA ModDistinct ==
  ASSUME NEW N \in Nat \ {0}, NEW a \in Nat, NEW b \in Nat,
         a < b, b - a < N
  PROVE  a % N # b % N
<1> DEFINE p == a \div N
           q == b \div N
<1>1. a = (N * p) + (a % N) /\ p \in Nat /\ a % N \in 0 .. (N - 1)
  BY DivMod
<1>2. b = (N * q) + (b % N) /\ q \in Nat /\ b % N \in 0 .. (N - 1)
  BY DivMod
<1> HIDE DEF p, q
<1> SUFFICES ASSUME a % N = b % N PROVE FALSE
  OBVIOUS
<1>3. b - a = N * (q - p)  BY <1>1, <1>2
<1>4. q - p = 0  BY <1>1, <1>2, <1>3, SmallMultiple
<1> QED  BY <1>3, <1>4, <1>1, <1>2

\* The remainder of the successor: one more, or zero at the end of a lap.
LEMMA ModSucc ==
  ASSUME NEW N \in Nat \ {0}, NEW a \in Nat
  PROVE  (a + 1) % N = IF (a % N) + 1 >= N THEN 0 ELSE (a % N) + 1
<1> DEFINE p == a \div N
           q == (a + 1) \div N
           r == a % N
           s == (a + 1) % N
<1>0. a + 1 \in Nat  OBVIOUS
<1>1. a = (N * p) + r /\ p \in Nat /\ r \in 0 .. (N - 1)  BY DivMod
<1>2. a + 1 = (N * q) + s /\ q \in Nat /\ s \in 0 .. (N - 1)  BY <1>0, DivMod
<1> HIDE DEF p, q, r, s
<1>3. CASE r + 1 >= N
  <2>1. r = N - 1  BY <1>3, <1>1
  <2>2. 0 - s = N * (q - p - 1)  BY <1>1, <1>2, <2>1
  <2>3. q - p - 1 = 0  BY <2>2, <1>1, <1>2, SmallMultiple
  <2>4. s = 0  BY <2>2, <2>3, <1>1, <1>2
  <2> QED  BY <2>4, <1>3 DEF r, s
<1>4. CASE r + 1 < N
  <2>1. r + 1 - s = N * (q - p)  BY <1>1, <1>2
  <2>2. q - p = 0  BY <2>1, <1>1, <1>2, <1>4, SmallMultiple
  <2>3. s = r + 1  BY <2>1, <2>2, <1>1, <1>2
  <2> QED  BY <2>3, <1>4, <1>1 DEF r, s
<1> QED  BY <1>3, <1>4, <1>1

\* The assumption in the form the lemmas above ask for.
LEMMA LapSize == TIME_INDEX \in Nat \ {0}
  BY TimeIndexAssumption

\* Stepping a reader's index is the same as stepping its second.
LEMMA ReadNextIsSucc ==
  ASSUME NEW s \in Nat
  PROVE  READ_NEXT_TIME_INDEX(READ_TIME_INDEX(s)) = READ_TIME_INDEX(s + 1)
<1>1. (s + 1) % TIME_INDEX =
        IF (s % TIME_INDEX) + 1 >= TIME_INDEX THEN 0 ELSE (s % TIME_INDEX) + 1
  BY LapSize, ModSucc
<1> QED  BY <1>1 DEF READ_NEXT_TIME_INDEX, READ_TIME_INDEX

\* The writer of second s uses the slot that readers will call s + 1.
LEMMA WriteIsSucc ==
  ASSUME NEW s \in Nat
  PROVE  PKT_WRITE_TIME_INDEX(s) = READ_TIME_INDEX(s + 1)
<1>1. (s + 1) % TIME_INDEX =
        IF (s % TIME_INDEX) + 1 >= TIME_INDEX THEN 0 ELSE (s % TIME_INDEX) + 1
  BY LapSize, ModSucc
<1> QED  BY <1>1 DEF PKT_WRITE_TIME_INDEX, READ_TIME_INDEX

LEMMA ReadIndexIsSlot ==
  ASSUME NEW s \in Nat
  PROVE  READ_TIME_INDEX(s) \in Slots
<1>1. s % TIME_INDEX \in 0 .. (TIME_INDEX - 1)  BY LapSize, DivMod
<1> QED  BY <1>1 DEF READ_TIME_INDEX, Slots

\* Within a lap, a slot stands for one second.
LEMMA OneSecond ==
  ASSUME NEW s \in Nat, NEW t \in Nat, t - s < TIME_INDEX, s - t < TIME_INDEX,
         READ_TIME_INDEX(s) = READ_TIME_INDEX(t)
  PROVE  s = t
<1>1. CASE s < t
  BY <1>1, LapSize, ModDistinct DEF READ_TIME_INDEX
<1>2. CASE t < s
  BY <1>2, LapSize, ModDistinct DEF READ_TIME_INDEX
<1> QED  BY <1>1, <1>2

\* A later second is in the same minute or a later one.
LEMMA MinuteMonotone ==
  ASSUME NEW s \in Nat, NEW t \in Nat, s <= t
  PROVE  OpenFile(s) \in Nat /\ OpenFile(t) \in Nat /\ OpenFile(s) <= OpenFile(t)
<1> DEFINE p == s \div SecPerMin
           q == t \div SecPerMin
<1>1. SecPerMin \in Nat \ {0}
  BY UnmappedAssumption
<1>2. /\ s = (SecPerMin * p) + (s % SecPerMin) /\ p \in Nat
      /\ s % SecPerMin \in 0 .. (SecPerMin - 1)
  BY <1>1, DivMod
<1>3. /\ t = (SecPerMin * q) + (t % SecPerMin) /\ q \in Nat
      /\ t % SecPerMin \in 0 .. (SecPerMin - 1)
  BY <1>1, DivMod
<1> HIDE DEF p, q
<1>4. ~ (q < p)
  <2> SUFFICES ASSUME q + 1 <= p PROVE FALSE
    BY <1>2, <1>3
  <2> DEFINE d == p - (q + 1)
  <2>1. d \in Nat /\ p = (q + 1) + d
    BY <1>2, <1>3
  <2> HIDE DEF d
  <2>2. SecPerMin * p = (SecPerMin * q) + SecPerMin + (SecPerMin * d)
    BY <2>1, <1>1, <1>3
  <2>3. SecPerMin * d >= 0
    BY <2>1, <1>1
  <2>4. SecPerMin * q \in Int /\ SecPerMin * d \in Int
    BY <2>1, <1>1, <1>3
  <2> QED  BY <1>1, <1>2, <1>3, <2>2, <2>3, <2>4
<1>5. OpenFile(s) = p /\ OpenFile(t) = q
  BY DEF OpenFile, p, q
<1> QED  BY <1>2, <1>3, <1>4, <1>5

-----------------------------------------------------------------------------
(* The pools and their sessions.                                           *)

SessionRec == [src : Nat, dst : Nat, frCount : Nat, pLoadPkt : Nat, last : Int]

\* The two directions of a flow.
Along(f) == {<<f[2], f[3]>>, <<f[3], f[2]>>}

\* Map, bits and objects of a pool agree.
PoolFits(keys, map, bits, pos, key, idx) ==
  /\ DOMAIN map \subseteq keys /\ map \in [DOMAIN map -> Positions]
  /\ bits \subseteq Positions /\ pos \in Positions
  /\ key \in [Positions -> keys \cup {NoFlow}]
  /\ idx \in [Positions -> Positions]
  /\ \A k \in DOMAIN map : map[k] \in bits /\ key[map[k]] = k
  /\ \A p \in bits : key[p] \in DOMAIN map /\ map[key[p]] = p
  /\ \A p \in Positions : idx[p] = p

\* The session of a key has the ends of the flow.
SessionsFit(map, session) ==
  /\ session \in [Positions -> SessionRec]
  /\ \A k \in DOMAIN map :
       <<session[map[k]].src, session[map[k]].dst>> \in Along(k[2])

Added(map, k, p) == [g \in DOMAIN map \cup {k} |-> IF g = k THEN p ELSE map[g]]
Removed(map, k) == [g \in DOMAIN map \ {k} |-> map[g]]

LEMMA FitsCreate ==
  ASSUME NEW keys, NEW map, NEW bits, NEW pos, NEW key, NEW idx, NEW session,
         PoolFits(keys, map, bits, pos, key, idx), SessionsFit(map, session),
         NEW k \in keys, k \notin DOMAIN map, NEW p \in Positions, p \notin bits,
         NEW s \in SessionRec, <<s.src, s.dst>> \in Along(k[2])
  PROVE  /\ PoolFits(keys, Added(map, k, p), bits \cup {p}, p,
                     [key EXCEPT ![p] = k], [idx EXCEPT ![p] = p])
         /\ SessionsFit(Added(map, k, p), [session EXCEPT ![p] = s])
<1> DEFINE map2 == Added(map, k, p)
<1>1. /\ DOMAIN map2 = DOMAIN map \cup {k} /\ map2[k] = p
      /\ \A g \in DOMAIN map : map2[g] = map[g] /\ g # k
      /\ map2 = [g \in DOMAIN map2 |-> map2[g]]
  BY DEF Added
<1> HIDE DEF map2
<1>2. \A g \in DOMAIN map : map[g] # p /\ map[g] \in Positions
  BY DEF PoolFits
<1>3. PoolFits(keys, map2, bits \cup {p}, p, [key EXCEPT ![p] = k],
               [idx EXCEPT ![p] = p])
  <2>1. map2 \in [DOMAIN map2 -> Positions] /\ DOMAIN map2 \subseteq keys
    BY <1>1 DEF PoolFits
  <2>2. /\ bits \cup {p} \subseteq Positions
        /\ [key EXCEPT ![p] = k] \in [Positions -> keys \cup {NoFlow}]
        /\ [idx EXCEPT ![p] = p] \in [Positions -> Positions]
        /\ \A q \in Positions : [idx EXCEPT ![p] = p][q] = q
    BY DEF PoolFits
  <2>3. \A g \in DOMAIN map2 :
          map2[g] \in bits \cup {p} /\ [key EXCEPT ![p] = k][map2[g]] = g
    BY <1>1, <1>2 DEF PoolFits
  <2>4. \A q \in bits \cup {p} :
          /\ [key EXCEPT ![p] = k][q] \in DOMAIN map2
          /\ map2[[key EXCEPT ![p] = k][q]] = q
    BY <1>1 DEF PoolFits
  <2> QED  BY <2>1, <2>2, <2>3, <2>4 DEF PoolFits
<1>4. SessionsFit(map2, [session EXCEPT ![p] = s])
  BY <1>1, <1>2 DEF SessionsFit
<1> QED  BY <1>3, <1>4 DEF map2

LEMMA FitsErase ==
  ASSUME NEW keys, NEW map, NEW bits, NEW pos, NEW key, NEW idx, NEW session,
         PoolFits(keys, map, bits, pos, key, idx), SessionsFit(map, session),
         NEW k \in DOMAIN map
  PROVE  LET p == map[k]
         IN  /\ p \in Positions /\ key[p] = k /\ idx[p] = p
             /\ PoolFits(keys, Removed(map, k), bits \ {p}, pos,
                         [key EXCEPT ![p] = NoFlow], [idx EXCEPT ![p] = p])
             /\ SessionsFit(Removed(map, k), [session EXCEPT ![p] = Blank])
<1> DEFINE p == map[k]
           map2 == Removed(map, k)
<1>1. p \in Positions /\ map[k] = p /\ key[p] = k /\ idx[p] = p
  BY DEF PoolFits
<1>2. /\ DOMAIN map2 = DOMAIN map \ {k}
      /\ \A g \in DOMAIN map2 : map2[g] = map[g] /\ g # k /\ map[g] # p
                                /\ map[g] \in Positions
      /\ map2 = [g \in DOMAIN map2 |-> map2[g]]
  BY <1>1 DEF PoolFits, Removed
<1> HIDE DEF map2, p
<1>3. PoolFits(keys, map2, bits \ {p}, pos, [key EXCEPT ![p] = NoFlow],
               [idx EXCEPT ![p] = p])
  <2>1. map2 \in [DOMAIN map2 -> Positions] /\ DOMAIN map2 \subseteq keys
    BY <1>2 DEF PoolFits
  <2>2. /\ bits \ {p} \subseteq Positions /\ pos \in Positions
        /\ [key EXCEPT ![p] = NoFlow] \in [Positions -> keys \cup {NoFlow}]
        /\ [idx EXCEPT ![p] = p] \in [Positions -> Positions]
        /\ \A q \in Positions : [idx EXCEPT ![p] = p][q] = q
    BY <1>1 DEF PoolFits
  <2>3. \A g \in DOMAIN map2 :
          map2[g] \in bits \ {p} /\ [key EXCEPT ![p] = NoFlow][map2[g]] = g
    BY <1>1, <1>2 DEF PoolFits
  <2>4. \A q \in bits \ {p} :
          /\ [key EXCEPT ![p] = NoFlow][q] \in DOMAIN map2
          /\ map2[[key EXCEPT ![p] = NoFlow][q]] = q
    BY <1>1, <1>2 DEF PoolFits
  <2> QED  BY <2>1, <2>2, <2>3, <2>4 DEF PoolFits
<1>4. SessionsFit(map2, [session EXCEPT ![p] = Blank])
  <2>1. Blank \in SessionRec
    BY DEF Blank, Fresh, SessionRec
  <2> QED  BY <1>1, <1>2, <2>1 DEF SessionsFit
<1> QED  BY <1>1, <1>3, <1>4 DEF map2, p

LEMMA FitsUpdate ==
  ASSUME NEW map, NEW session, SessionsFit(map, session),
         NEW k \in DOMAIN map, map[k] \in Positions,
         NEW s \in SessionRec, s.src = session[map[k]].src, s.dst = session[map[k]].dst,
         \A g \in DOMAIN map : g # k => map[g] # map[k]
  PROVE  SessionsFit(map, [session EXCEPT ![map[k]] = s])
BY DEF SessionsFit

\* Counts and times are set, the ends stay.
Counting(s, n, l, t) == [s EXCEPT !.frCount = n, !.pLoadPkt = l, !.last = t]

LEMMA CountingTyped ==
  ASSUME NEW s \in SessionRec, NEW n \in Nat, NEW l \in Nat, NEW t \in Int
  PROVE  /\ Counting(s, n, l, t) \in SessionRec
         /\ Counting(s, n, l, t).src = s.src /\ Counting(s, n, l, t).dst = s.dst
BY DEF Counting, SessionRec

\* What a packet makes of a session.
LEMMA CountedTyped ==
  ASSUME NEW s \in SessionRec, NEW pLoad \in {0, 1}, NEW t \in Int
  PROVE  LET c == CountFrame(s, pLoad, t)
         IN  /\ c \in SessionRec /\ c.src = s.src /\ c.dst = s.dst
             /\ Updated(c) \in SessionRec
             /\ Updated(c).src = s.src /\ Updated(c).dst = s.dst
<1> DEFINE c == CountFrame(s, pLoad, t)
           n == s.frCount + 1
           l == s.pLoadPkt + pLoad
<1>1. n \in Nat /\ l \in Nat
  BY DEF SessionRec
<1>2. c = Counting(s, n, l, t)
  BY DEF CountFrame, Counting
<1> HIDE DEF c, n, l
<1>3. c \in SessionRec /\ c.src = s.src /\ c.dst = s.dst
  BY <1>1, <1>2, CountingTyped
<1>4. reuse(c) \in SessionRec /\ reuse(c).src = c.src /\ reuse(c).dst = c.dst
  <2>1. reuse(c) = Counting(c, 0, 0, 0)
    BY DEF reuse, Counting
  <2>2. 0 \in Nat /\ 0 \in Int
    OBVIOUS
  <2> QED  BY <1>3, <2>1, <2>2, CountingTyped
<1>5. /\ Updated(c) \in SessionRec
      /\ Updated(c).src = c.src /\ Updated(c).dst = c.dst
  BY <1>3, <1>4 DEF Updated
<1> QED  BY <1>3, <1>5 DEF c

LEMMA FreshTyped ==
  ASSUME NEW f \in Flow, NEW src \in Ends(f), NEW t \in Int
  PROVE  /\ Fresh(src, OtherEnd(f, src), t) \in SessionRec
         /\ Fresh(src, OtherEnd(f, src), t).src = src
         /\ Fresh(src, OtherEnd(f, src), t).dst = OtherEnd(f, src)
         /\ <<src, OtherEnd(f, src)>> \in Along(f)
         /\ LET x == Fresh(src, OtherEnd(f, src), t) IN <<x.src, x.dst>> \in Along(f)
<1>1. src \in Nat /\ OtherEnd(f, src) \in Nat
  BY UnmappedAssumption DEF Ends, OtherEnd
<1>2. <<src, OtherEnd(f, src)>> \in Along(f)
  BY DEF Ends, OtherEnd, Along
<1> QED  BY <1>1, <1>2 DEF Fresh, SessionRec

-----------------------------------------------------------------------------
(* The ring to the flusher.                                                *)

ReportRec ==
  [flow : Flow, src : Nat, dst : Nat, frames : Nat, pLoadPkt : Nat, sec : Nat]

\* A report in slot i, while the flusher is at second first.
ReportFits(r, i, first, last) ==
  /\ <<r.src, r.dst>> \in Along(r.flow)
  /\ i = READ_TIME_INDEX(r.sec + 1)
  /\ first <= r.sec + 1 /\ r.sec <= last

Protocol == {"tcp", "udp"}

StoreFits ==
  /\ flStore \in [Protocol -> [Slots -> Seq(ReportRec)]]
  /\ \A proto \in Protocol : \A i \in Slots : \A r \in Range(flStore[proto][i]) :
       ReportFits(r, i, fSec, now)

FlusherTimes ==
  /\ now \in Nat /\ fSec \in Nat /\ fSec <= now /\ now - fSec <= MaxReadLag
  /\ lastIndex = READ_TIME_INDEX(fSec)
  /\ fpc \in {"poll", "minute", "drain"}
  /\ fpc # "poll" =>
       \E c \in Nat :
         /\ fSec <= c /\ c <= now /\ curIndex = READ_TIME_INDEX(c)
         /\ fpc = "drain" => \E t \in Nat : c <= t /\ t <= now /\ file = OpenFile(t)

TcpFits ==
  /\ PoolFits(KeysOf(TcpFlow), tMap, tBits, tPos, tKey, tIdx)
  /\ SessionsFit(tMap, tSession)

UdpFits ==
  /\ PoolFits(KeysOf(UdpFlow), uMap, uBits, uPos, uKey, uIdx)
  /\ SessionsFit(uMap, uSession)

\* The scan has only sessions before it.
TodoFits ==
  todo \subseteq ({"tcp"} \X DOMAIN tMap) \cup ({"udp"} \X DOMAIN uMap)

\* A source in a line of f is what the pools make of one of its directions.
SourcesOf(f) == {Oriented(e[1], e[2])[1] : e \in Along(f)}

SourcesFit == \A f \in Flow : sources[f] \subseteq SourcesOf(f)

UnInv ==
  /\ TcpFits /\ UdpFits /\ TodoFits
  /\ StoreFits /\ FlusherTimes
  /\ SourcesFit /\ FileFits

LEMMA UnInvInit == Init => UnInv
<1> SUFFICES ASSUME Init PROVE UnInv
  OBVIOUS
<1>1. 0 \in Positions /\ Blank \in SessionRec
  BY UnmappedAssumption DEF Positions, Blank, Fresh, SessionRec
<1>2. TcpFits
  BY <1>1 DEF Init, TcpPool!PoolInit, TcpPool!Pos, Positions, TcpFits, PoolFits, SessionsFit
<1>3. UdpFits
  BY <1>1 DEF Init, UdpPool!PoolInit, UdpPool!Pos, Positions, UdpFits, PoolFits, SessionsFit
<1>4. TodoFits
  BY DEF Init, TodoFits
<1>5. StoreFits
  <2>1. \A proto \in Protocol : \A i \in Slots : flStore[proto][i] = <<>>
    BY DEF Init, Protocol
  <2>2. Range(<<>>) = {}
    BY DEF Range
  <2>3. flStore \in [Protocol -> [Slots -> Seq(ReportRec)]]
    BY DEF Init, Protocol
  <2> QED  BY <2>1, <2>2, <2>3 DEF StoreFits
<1>6. FlusherTimes
  BY UnmappedAssumption DEF Init, FlusherTimes
<1>7. SourcesFit /\ FileFits
  BY DEF Init, SourcesFit, FileFits
<1> QED  BY <1>2, <1>3, <1>4, <1>5, <1>6, <1>7 DEF UnInv

-----------------------------------------------------------------------------
(* What the parts of a step keep.                                          *)

LEMMA RangeAppend ==
  ASSUME NEW S, NEW s \in Seq(S), NEW r \in S
  PROVE  Range(Append(s, r)) = Range(s) \cup {r}
<1>1. /\ DOMAIN s = 1 .. Len(s) /\ DOMAIN Append(s, r) = 1 .. (Len(s) + 1)
      /\ Append(s, r)[Len(s) + 1] = r /\ Len(s) \in Nat
      /\ \A i \in 1 .. Len(s) : Append(s, r)[i] = s[i]
  OBVIOUS
<1>2. Len(s) + 1 \in 1 .. (Len(s) + 1)
  BY <1>1
<1>3. 1 .. (Len(s) + 1) = (1 .. Len(s)) \cup {Len(s) + 1}
  BY <1>1
<1> DEFINE a == Append(s, r)
           n == Len(s) + 1
           D == 1 .. Len(s)
<1>4. /\ DOMAIN s = D /\ DOMAIN a = D \cup {n} /\ a[n] = r
      /\ \A i \in D : a[i] = s[i]
  BY <1>1, <1>3
<1> HIDE DEF a, n, D
<1>5. Range(a) = Range(s) \cup {r}
  BY <1>4 DEF Range
<1> QED  BY <1>5 DEF a

\* A report of a session goes to the slot of the next second.
LEMMA StoreStep ==
  ASSUME UnInv, NEW proto \in Protocol, NEW r \in ReportRec,
         <<r.src, r.dst>> \in Along(r.flow), r.sec = now, Store(proto, r),
         now' = now, fSec' = fSec
  PROVE  StoreFits'
<1> DEFINE i == PKT_WRITE_TIME_INDEX(now)
<1>1. now \in Nat /\ fSec <= now /\ fSec \in Nat
  BY DEF UnInv, FlusherTimes
<1>2. i = READ_TIME_INDEX(now + 1) /\ i \in Slots
  BY <1>1, WriteIsSucc, ReadIndexIsSlot
<1>3. /\ flStore \in [Protocol -> [Slots -> Seq(ReportRec)]]
      /\ flStore' = [flStore EXCEPT ![proto][i] = Append(flStore[proto][i], r)]
  BY DEF UnInv, StoreFits, Store
<1> HIDE DEF i
<1>4. /\ flStore' \in [Protocol -> [Slots -> Seq(ReportRec)]]
      /\ flStore'[proto][i] = Append(flStore[proto][i], r)
      /\ \A q \in Protocol : \A j \in Slots :
           q # proto \/ j # i => flStore'[q][j] = flStore[q][j]
  BY <1>2, <1>3
<1>5. Range(flStore'[proto][i]) = Range(flStore[proto][i]) \cup {r}
  <2>1. flStore[proto][i] \in Seq(ReportRec)
    BY <1>2, <1>3
  <2> QED  BY <1>4, <2>1, RangeAppend
<1>6. ReportFits(r, i, fSec, now)
  BY <1>1, <1>2 DEF ReportFits
<1> SUFFICES ASSUME NEW q \in Protocol, NEW j \in Slots, NEW x \in Range(flStore'[q][j])
             PROVE  ReportFits(x, j, fSec, now)
  BY <1>4 DEF StoreFits
<1>7. ASSUME x \in Range(flStore[q][j]) PROVE ReportFits(x, j, fSec, now)
  BY <1>7 DEF UnInv, StoreFits
<1>8. CASE q = proto /\ j = i
  <2>1. x \in Range(flStore[q][j]) \/ x = r
    BY <1>5, <1>8
  <2> QED  BY <2>1, <1>6, <1>7, <1>8
<1>9. CASE q # proto \/ j # i
  <2>1. flStore'[q][j] = flStore[q][j]
    BY <1>4, <1>9
  <2> QED  BY <2>1, <1>7
<1> QED  BY <1>8, <1>9

LEMMA StoreSame ==
  ASSUME UnInv, flStore' = flStore, fSec' = fSec, now' \in {now, now + 1}
  PROVE  StoreFits'
<1>1. now \in Nat
  BY DEF UnInv, FlusherTimes
<1> SUFFICES ASSUME NEW q \in Protocol, NEW j \in Slots, NEW x \in Range(flStore[q][j])
             PROVE  ReportFits(x, j, fSec, now')
  BY DEF UnInv, StoreFits
<1>2. ReportFits(x, j, fSec, now) /\ x.sec \in Int
  <2>1. flStore[q][j] \in Seq(ReportRec)
    BY DEF UnInv, StoreFits
  <2>2. x \in ReportRec
    BY <2>1 DEF Range
  <2> QED  BY <2>2 DEF UnInv, StoreFits, ReportRec
<1> QED  BY <1>1, <1>2 DEF ReportFits

\* The report of a session of f can be stored.
LEMMA ReportTyped ==
  ASSUME UnInv, NEW f \in Flow, NEW s \in SessionRec, <<s.src, s.dst>> \in Along(f)
  PROVE  /\ Report(f, s) \in ReportRec /\ Report(f, s).sec = now
         /\ <<Report(f, s).src, Report(f, s).dst>> \in Along(Report(f, s).flow)
BY DEF Report, ReportRec, SessionRec, UnInv, FlusherTimes

LEMMA SliceStep ==
  ASSUME UnInv, NEW f \in Flow, NEW s \in SessionRec, <<s.src, s.dst>> \in Along(f),
         NEW proto \in Protocol, StoreSlice(proto, f, s), now' = now, fSec' = fSec
  PROVE  StoreFits'
<1>1. CASE AtPktLimit(s)
  BY <1>1, ReportTyped, StoreStep DEF StoreSlice
<1>2. CASE ~ AtPktLimit(s)
  BY <1>2, StoreSame DEF StoreSlice
<1> QED  BY <1>1, <1>2

LEMMA FlusherSame ==
  ASSUME UnInv, UNCHANGED <<now, flusherVars>>
  PROVE  FlusherTimes'
BY DEF UnInv, FlusherTimes, flusherVars

\* Whatever leaves the lines alone.
LEMMA LinesSame ==
  ASSUME UnInv, sources' = sources, out' = {}
  PROVE  SourcesFit' /\ FileFits'
BY DEF UnInv, SourcesFit, FileFits

LEMMA TcpSame == ASSUME UnInv, UNCHANGED tcpVars PROVE TcpFits'
BY DEF UnInv, TcpFits, tcpVars

LEMMA UdpSame == ASSUME UnInv, UNCHANGED udpVars PROVE UdpFits'
BY DEF UnInv, UdpFits, udpVars

-----------------------------------------------------------------------------
(* The manager.                                                            *)

LEMMA KeyInMap ==
  ASSUME NEW f, NEW flows, f \in flows, flows \subseteq Flow, NEW src \in Ends(f)
  PROVE  KeyOf(f, src) \in KeysOf(flows) /\ KeyOf(f, src)[2] = f
<1>1. src \in Nat /\ MapCount \in Nat \ {0}
  BY UnmappedAssumption DEF Ends
<1>2. src % MapCount \in 0 .. (MapCount - 1)
  BY <1>1, DivMod
<1> QED  BY <1>2 DEF KeyOf, KeysOf

\* What the actions of a packet have in common.
LEMMA ArrivalStep ==
  ASSUME UnInv, NEW f, NEW t, Arrival(f, t)
  PROVE  /\ FlusherTimes' /\ SourcesFit' /\ FileFits'
         /\ t \in Int /\ todo = {} /\ todo' = {} /\ now' = now /\ fSec' = fSec
<1>1. /\ t \in (now - MaxLag) .. (now + MaxSkew)
      /\ now \in Nat /\ MaxLag \in Nat /\ MaxSkew \in Nat
  BY UnmappedAssumption DEF UnInv, FlusherTimes, Arrival
<1>2. /\ todo = {} /\ out' = {}
      /\ UNCHANGED <<now, scanVars, flusherVars, history>>
  BY DEF Arrival
<1>3. todo' = {} /\ now' = now /\ fSec' = fSec /\ sources' = sources /\ t \in Int
  BY <1>1, <1>2 DEF scanVars, flusherVars, history
<1>4. FlusherTimes'
  BY <1>2, FlusherSame
<1>5. SourcesFit' /\ FileFits'
  BY <1>2, <1>3, LinesSame
<1> QED
  BY <1>2, <1>3, <1>4, <1>5

LEMMA TcpNewStep ==
  ASSUME UnInv, NEW f \in TcpFlow, NEW src \in Ends(f), NEW pLoad \in {0, 1}, NEW t,
         TcpNew(f, src, pLoad, t)
  PROVE  UnInv'
<1> DEFINE k == KeyOf(f, src)
           s == CountFrame(Fresh(src, OtherEnd(f, src), t), pLoad, t)
<1>1. /\ FlusherTimes' /\ SourcesFit' /\ FileFits'
      /\ t \in Int /\ todo' = {} /\ now' = now /\ fSec' = fSec
  BY ArrivalStep DEF TcpNew
<1>2. k \in KeysOf(TcpFlow) /\ k[2] = f /\ f \in Flow
  BY KeyInMap DEF Flow
<1>3. /\ s \in SessionRec /\ <<s.src, s.dst>> \in Along(f)
      /\ Updated(s) \in SessionRec /\ <<Updated(s).src, Updated(s).dst>> \in Along(f)
  <2> DEFINE x == Fresh(src, OtherEnd(f, src), t)
  <2>1. x \in SessionRec /\ <<x.src, x.dst>> \in Along(f)
    <3>1. t \in Int /\ f \in Flow
      BY <1>1, <1>2
    <3> QED  BY <3>1, FreshTyped
  <2> HIDE DEF x
  <2>2. LET c == CountFrame(x, pLoad, t)
        IN  /\ c \in SessionRec /\ c.src = x.src /\ c.dst = x.dst
            /\ Updated(c) \in SessionRec
            /\ Updated(c).src = x.src /\ Updated(c).dst = x.dst
    BY <1>1, <2>1, CountedTyped
  <2>3. s = CountFrame(x, pLoad, t)
    BY DEF x
  <2> HIDE DEF s
  <2> QED  BY <2>1, <2>2, <2>3
<1>4. PICK p \in Positions :
        /\ TcpPool!Create(k, p)
        /\ tSession' = [tSession EXCEPT ![p] = Updated(s)]
  BY DEF TcpNew
<1>5. StoreSlice("tcp", f, s) /\ UNCHANGED udpVars
  BY DEF TcpNew
<1> HIDE DEF k, s
<1>6. /\ k \notin DOMAIN tMap /\ p \notin tBits
      /\ tMap' = Added(tMap, k, p)
      /\ tBits' = tBits \cup {p} /\ tPos' = p
      /\ tKey' = [tKey EXCEPT ![p] = k] /\ tIdx' = [tIdx EXCEPT ![p] = p]
  BY <1>4 DEF TcpPool!Create, TcpPool!FreeIndex, TcpPool!Used, Added
<1>7. TcpFits'
  <2>1. /\ PoolFits(KeysOf(TcpFlow), tMap, tBits, tPos, tKey, tIdx)
        /\ SessionsFit(tMap, tSession)
    BY DEF UnInv, TcpFits
  <2> DEFINE u == Updated(s)
  <2>0. u \in SessionRec /\ <<u.src, u.dst>> \in Along(k[2])
    BY <1>2, <1>3
  <2>4. tSession' = [tSession EXCEPT ![p] = u]
    BY <1>4
  <2> HIDE DEF u
  <2>2. /\ PoolFits(KeysOf(TcpFlow), Added(tMap, k, p), tBits \cup {p}, p,
                    [tKey EXCEPT ![p] = k], [tIdx EXCEPT ![p] = p])
        /\ SessionsFit(Added(tMap, k, p), [tSession EXCEPT ![p] = u])
    BY <1>2, <1>6, <2>0, <2>1, FitsCreate
  <2>3. /\ PoolFits(KeysOf(TcpFlow), tMap', tBits', tPos', tKey', tIdx')
        /\ SessionsFit(tMap', tSession')
    BY <1>6, <2>2, <2>4
  <2> QED  BY <2>3 DEF TcpFits, PoolFits, SessionsFit
<1>8. StoreFits'
  BY <1>1, <1>2, <1>3, <1>5, SliceStep DEF Protocol
<1>9. UdpFits' /\ TodoFits'
  BY <1>1, <1>5, UdpSame DEF TodoFits
<1> QED  BY <1>1, <1>7, <1>8, <1>9 DEF UnInv

LEMMA TcpKnownStep ==
  ASSUME UnInv, NEW f \in TcpFlow, NEW src \in Ends(f), NEW pLoad \in {0, 1}, NEW t,
         TcpKnown(f, src, pLoad, t)
  PROVE  UnInv'
<1> DEFINE k == KeyOf(f, src)
           p == tMap[k]
           s == CountFrame(tSession[p], pLoad, t)
<1>1. /\ FlusherTimes' /\ SourcesFit' /\ FileFits'
      /\ t \in Int /\ todo' = {} /\ now' = now /\ fSec' = fSec
  BY ArrivalStep DEF TcpKnown
<1>2. k \in KeysOf(TcpFlow) /\ k[2] = f /\ f \in Flow
  BY KeyInMap DEF Flow
<1>3. /\ k \in DOMAIN tMap /\ tSession' = [tSession EXCEPT ![p] = Updated(s)]
      /\ StoreSlice("tcp", f, s)
      /\ UNCHANGED <<tMap, tBits, tPos, tKey, tIdx, udpVars>>
  BY DEF TcpKnown, TcpPool!Used
<1>4. /\ p \in Positions /\ tSession[p] \in SessionRec
      /\ <<tSession[p].src, tSession[p].dst>> \in Along(f)
      /\ \A g \in DOMAIN tMap : g # k => tMap[g] # p
  BY <1>2, <1>3 DEF UnInv, TcpFits, PoolFits, SessionsFit
<1>5. /\ s \in SessionRec /\ <<s.src, s.dst>> \in Along(f)
      /\ Updated(s) \in SessionRec
      /\ Updated(s).src = tSession[p].src /\ Updated(s).dst = tSession[p].dst
  BY <1>1, <1>4, CountedTyped
<1> HIDE DEF k, s
<1>6. TcpFits'
  <2>1. SessionsFit(tMap, [tSession EXCEPT ![p] = Updated(s)])
    BY <1>3, <1>4, <1>5, FitsUpdate DEF UnInv, TcpFits
  <2>2. PoolFits(KeysOf(TcpFlow), tMap, tBits, tPos, tKey, tIdx)
    BY DEF UnInv, TcpFits
  <2> QED  BY <1>3, <2>1, <2>2 DEF TcpFits, PoolFits, SessionsFit
<1>7. StoreFits'
  BY <1>1, <1>2, <1>3, <1>5, SliceStep DEF Protocol
<1>8. UdpFits' /\ TodoFits'
  BY <1>1, <1>3, UdpSame DEF TodoFits
<1> QED  BY <1>1, <1>6, <1>7, <1>8 DEF UnInv

\* Erasing the session of a key: it goes, and nothing else.
LEMMA TcpEraseStep ==
  ASSUME UnInv, NEW k \in DOMAIN tMap, TcpErase(tMap[k])
  PROVE  TcpFits' /\ DOMAIN tMap' = DOMAIN tMap \ {k}
<1> DEFINE p == tMap[k]
<1>1. /\ p \in Positions /\ tKey[p] = k /\ tIdx[p] = p
      /\ PoolFits(KeysOf(TcpFlow), Removed(tMap, k), tBits \ {p}, tPos,
                  [tKey EXCEPT ![p] = NoFlow], [tIdx EXCEPT ![p] = p])
      /\ SessionsFit(Removed(tMap, k), [tSession EXCEPT ![p] = Blank])
  BY FitsErase DEF UnInv, TcpFits
<1>2. /\ tKey' = [tKey EXCEPT ![p] = NoFlow] /\ tIdx' = [tIdx EXCEPT ![p] = p]
      /\ tBits' = tBits \ {p} /\ tPos' = tPos
      /\ tMap' = Removed(tMap, k) /\ tSession' = [tSession EXCEPT ![p] = Blank]
  BY <1>1 DEF TcpErase, TcpPool!Erase, TcpPool!Used, Removed
<1>3. DOMAIN tMap' = DOMAIN tMap \ {k}
  BY <1>2 DEF Removed
<1> HIDE DEF p
<1>4. /\ PoolFits(KeysOf(TcpFlow), tMap', tBits', tPos', tKey', tIdx')
      /\ SessionsFit(tMap', tSession')
  BY <1>1, <1>2
<1> QED  BY <1>3, <1>4 DEF TcpFits, PoolFits, SessionsFit

\* The session of a key in use can be reported.
LEMMA TcpReport ==
  ASSUME UnInv, NEW k \in DOMAIN tMap, k[2] \in Flow
  PROVE  LET r == Report(k[2], tSession[tMap[k]])
         IN  r \in ReportRec /\ r.sec = now /\ <<r.src, r.dst>> \in Along(r.flow)
<1>1. /\ tSession[tMap[k]] \in SessionRec
      /\ <<tSession[tMap[k]].src, tSession[tMap[k]].dst>> \in Along(k[2])
  BY DEF UnInv, TcpFits, PoolFits, SessionsFit
<1> QED  BY <1>1, ReportTyped

LEMMA TcpCleanStep ==
  ASSUME UnInv, NEW k \in KeysOf(TcpFlow), TcpClean(k)
  PROVE  UnInv'
<1>1. /\ <<"tcp", k>> \in todo /\ todo' = todo \ {<<"tcp", k>>} /\ out' = {}
      /\ UNCHANGED <<now, udpVars, flusherVars, history>>
  BY DEF TcpClean
<1>2. k \in DOMAIN tMap
  BY <1>1 DEF UnInv, TodoFits
<1>3. k[2] \in Flow
  BY DEF KeysOf, Flow
<1>4. fSec' = fSec /\ now' = now /\ sources' = sources
  BY <1>1 DEF flusherVars, history
<1>5. FlusherTimes' /\ SourcesFit' /\ FileFits' /\ UdpFits' /\ DOMAIN uMap' = DOMAIN uMap
  BY <1>1, <1>4, FlusherSame, LinesSame, UdpSame DEF udpVars
<1>6. StoreFits' /\ TcpFits' /\ DOMAIN tMap \ {k} \subseteq DOMAIN tMap'
  <2>1. CASE TimedOut(tSession[tMap[k]], TCP_CLEAN_UP_TIMEOUT_SEC)
    <3> DEFINE r == Report(k[2], tSession[tMap[k]])
    <3>1. Store("tcp", r) /\ TcpErase(tMap[k])
      BY <2>1 DEF TcpClean
    <3>2. r \in ReportRec /\ r.sec = now /\ <<r.src, r.dst>> \in Along(r.flow)
      BY <1>2, <1>3, TcpReport
    <3> HIDE DEF r
    <3>3. StoreFits'
      BY <3>1, <3>2, <1>4, StoreStep DEF Protocol
    <3> QED  BY <3>1, <3>3, <1>2, TcpEraseStep
  <2>2. CASE ~ TimedOut(tSession[tMap[k]], TCP_CLEAN_UP_TIMEOUT_SEC)
    <3>1. UNCHANGED <<flStore, tcpVars>>
      BY <2>2 DEF TcpClean
    <3>2. StoreFits' /\ TcpFits'
      BY <3>1, <1>4, StoreSame, TcpSame
    <3> QED  BY <3>1, <3>2 DEF tcpVars
  <2> QED  BY <2>1, <2>2
<1>7. TodoFits'
  BY <1>1, <1>5, <1>6 DEF UnInv, TodoFits
<1> QED  BY <1>5, <1>6, <1>7 DEF UnInv

LEMMA TcpFinStep ==
  ASSUME UnInv, NEW f \in TcpFlow, NEW src \in Ends(f), TcpFin(f, src)
  PROVE  UnInv'
<1> DEFINE k == KeyOf(f, src)
           r == Report(k[2], tSession[tMap[k]])
<1>1. k[2] = f /\ f \in Flow
  BY KeyInMap DEF Flow
<1>2. /\ todo = {} /\ todo' = {} /\ out' = {} /\ k \in DOMAIN tMap
      /\ Store("tcp", r) /\ TcpErase(tMap[k])
      /\ UNCHANGED <<now, udpVars, flusherVars, history>>
  BY <1>1 DEF TcpFin, TcpPool!Used, scanVars
<1>3. r \in ReportRec /\ r.sec = now /\ <<r.src, r.dst>> \in Along(r.flow)
  BY <1>1, <1>2, TcpReport
<1> HIDE DEF k, r
<1>4. fSec' = fSec /\ now' = now /\ sources' = sources
  BY <1>2 DEF flusherVars, history
<1>5. FlusherTimes' /\ SourcesFit' /\ FileFits' /\ UdpFits'
  BY <1>2, <1>4, FlusherSame, LinesSame, UdpSame
<1>6. StoreFits' /\ TcpFits'
  BY <1>2, <1>3, <1>4, StoreStep, TcpEraseStep DEF Protocol
<1>7. TodoFits'
  BY <1>2 DEF TodoFits
<1> QED  BY <1>5, <1>6, <1>7 DEF UnInv

LEMMA UdpNewStep ==
  ASSUME UnInv, NEW f \in UdpFlow, NEW src \in Ends(f), NEW pLoad \in {0, 1}, NEW t,
         UdpNew(f, src, pLoad, t)
  PROVE  UnInv'
<1> DEFINE k == KeyOf(f, src)
           s == CountFrame(Fresh(src, OtherEnd(f, src), t), pLoad, t)
<1>1. /\ FlusherTimes' /\ SourcesFit' /\ FileFits'
      /\ t \in Int /\ todo' = {} /\ now' = now /\ fSec' = fSec
  BY ArrivalStep DEF UdpNew
<1>2. k \in KeysOf(UdpFlow) /\ k[2] = f /\ f \in Flow
  BY KeyInMap DEF Flow
<1>3. /\ s \in SessionRec /\ <<s.src, s.dst>> \in Along(f)
      /\ Updated(s) \in SessionRec /\ <<Updated(s).src, Updated(s).dst>> \in Along(f)
  <2> DEFINE x == Fresh(src, OtherEnd(f, src), t)
  <2>1. x \in SessionRec /\ <<x.src, x.dst>> \in Along(f)
    <3>1. t \in Int /\ f \in Flow
      BY <1>1, <1>2
    <3> QED  BY <3>1, FreshTyped
  <2> HIDE DEF x
  <2>2. LET c == CountFrame(x, pLoad, t)
        IN  /\ c \in SessionRec /\ c.src = x.src /\ c.dst = x.dst
            /\ Updated(c) \in SessionRec
            /\ Updated(c).src = x.src /\ Updated(c).dst = x.dst
    BY <1>1, <2>1, CountedTyped
  <2>3. s = CountFrame(x, pLoad, t)
    BY DEF x
  <2> HIDE DEF s
  <2> QED  BY <2>1, <2>2, <2>3
<1>4. PICK p \in Positions :
        /\ UdpPool!Create(k, p)
        /\ uSession' = [uSession EXCEPT ![p] = Updated(s)]
  BY DEF UdpNew
<1>5. StoreSlice("udp", f, s) /\ UNCHANGED tcpVars
  BY DEF UdpNew
<1> HIDE DEF k, s
<1>6. /\ k \notin DOMAIN uMap /\ p \notin uBits
      /\ uMap' = Added(uMap, k, p)
      /\ uBits' = uBits \cup {p} /\ uPos' = p
      /\ uKey' = [uKey EXCEPT ![p] = k] /\ uIdx' = [uIdx EXCEPT ![p] = p]
  BY <1>4 DEF UdpPool!Create, UdpPool!FreeIndex, UdpPool!Used, Added
<1>7. UdpFits'
  <2>1. /\ PoolFits(KeysOf(UdpFlow), uMap, uBits, uPos, uKey, uIdx)
        /\ SessionsFit(uMap, uSession)
    BY DEF UnInv, UdpFits
  <2> DEFINE u == Updated(s)
  <2>0. u \in SessionRec /\ <<u.src, u.dst>> \in Along(k[2])
    BY <1>2, <1>3
  <2>4. uSession' = [uSession EXCEPT ![p] = u]
    BY <1>4
  <2> HIDE DEF u
  <2>2. /\ PoolFits(KeysOf(UdpFlow), Added(uMap, k, p), uBits \cup {p}, p,
                    [uKey EXCEPT ![p] = k], [uIdx EXCEPT ![p] = p])
        /\ SessionsFit(Added(uMap, k, p), [uSession EXCEPT ![p] = u])
    BY <1>2, <1>6, <2>0, <2>1, FitsCreate
  <2>3. /\ PoolFits(KeysOf(UdpFlow), uMap', uBits', uPos', uKey', uIdx')
        /\ SessionsFit(uMap', uSession')
    BY <1>6, <2>2, <2>4
  <2> QED  BY <2>3 DEF UdpFits, PoolFits, SessionsFit
<1>8. StoreFits'
  BY <1>1, <1>2, <1>3, <1>5, SliceStep DEF Protocol
<1>9. TcpFits' /\ TodoFits'
  BY <1>1, <1>5, TcpSame DEF TodoFits
<1> QED  BY <1>1, <1>7, <1>8, <1>9 DEF UnInv

LEMMA UdpKnownStep ==
  ASSUME UnInv, NEW f \in UdpFlow, NEW src \in Ends(f), NEW pLoad \in {0, 1}, NEW t,
         UdpKnown(f, src, pLoad, t)
  PROVE  UnInv'
<1> DEFINE k == KeyOf(f, src)
           p == uMap[k]
           s == CountFrame(uSession[p], pLoad, t)
<1>1. /\ FlusherTimes' /\ SourcesFit' /\ FileFits'
      /\ t \in Int /\ todo' = {} /\ now' = now /\ fSec' = fSec
  BY ArrivalStep DEF UdpKnown
<1>2. k \in KeysOf(UdpFlow) /\ k[2] = f /\ f \in Flow
  BY KeyInMap DEF Flow
<1>3. /\ k \in DOMAIN uMap /\ uSession' = [uSession EXCEPT ![p] = Updated(s)]
      /\ StoreSlice("udp", f, s)
      /\ UNCHANGED <<uMap, uBits, uPos, uKey, uIdx, tcpVars>>
  BY DEF UdpKnown, UdpPool!Used
<1>4. /\ p \in Positions /\ uSession[p] \in SessionRec
      /\ <<uSession[p].src, uSession[p].dst>> \in Along(f)
      /\ \A g \in DOMAIN uMap : g # k => uMap[g] # p
  BY <1>2, <1>3 DEF UnInv, UdpFits, PoolFits, SessionsFit
<1>5. /\ s \in SessionRec /\ <<s.src, s.dst>> \in Along(f)
      /\ Updated(s) \in SessionRec
      /\ Updated(s).src = uSession[p].src /\ Updated(s).dst = uSession[p].dst
  BY <1>1, <1>4, CountedTyped
<1> HIDE DEF k, s
<1>6. UdpFits'
  <2>1. SessionsFit(uMap, [uSession EXCEPT ![p] = Updated(s)])
    BY <1>3, <1>4, <1>5, FitsUpdate DEF UnInv, UdpFits
  <2>2. PoolFits(KeysOf(UdpFlow), uMap, uBits, uPos, uKey, uIdx)
    BY DEF UnInv, UdpFits
  <2> QED  BY <1>3, <2>1, <2>2 DEF UdpFits, PoolFits, SessionsFit
<1>7. StoreFits'
  BY <1>1, <1>2, <1>3, <1>5, SliceStep DEF Protocol
<1>8. TcpFits' /\ TodoFits'
  BY <1>1, <1>3, TcpSame DEF TodoFits
<1> QED  BY <1>1, <1>6, <1>7, <1>8 DEF UnInv

\* Erasing the session of a key: it goes, and nothing else.
LEMMA UdpEraseStep ==
  ASSUME UnInv, NEW k \in DOMAIN uMap, UdpErase(uMap[k])
  PROVE  UdpFits' /\ DOMAIN uMap' = DOMAIN uMap \ {k}
<1> DEFINE p == uMap[k]
<1>1. /\ p \in Positions /\ uKey[p] = k /\ uIdx[p] = p
      /\ PoolFits(KeysOf(UdpFlow), Removed(uMap, k), uBits \ {p}, uPos,
                  [uKey EXCEPT ![p] = NoFlow], [uIdx EXCEPT ![p] = p])
      /\ SessionsFit(Removed(uMap, k), [uSession EXCEPT ![p] = Blank])
  BY FitsErase DEF UnInv, UdpFits
<1>2. /\ uKey' = [uKey EXCEPT ![p] = NoFlow] /\ uIdx' = [uIdx EXCEPT ![p] = p]
      /\ uBits' = uBits \ {p} /\ uPos' = uPos
      /\ uMap' = Removed(uMap, k) /\ uSession' = [uSession EXCEPT ![p] = Blank]
  BY <1>1 DEF UdpErase, UdpPool!Erase, UdpPool!Used, Removed
<1>3. DOMAIN uMap' = DOMAIN uMap \ {k}
  BY <1>2 DEF Removed
<1> HIDE DEF p
<1>4. /\ PoolFits(KeysOf(UdpFlow), uMap', uBits', uPos', uKey', uIdx')
      /\ SessionsFit(uMap', uSession')
  BY <1>1, <1>2
<1> QED  BY <1>3, <1>4 DEF UdpFits, PoolFits, SessionsFit

\* The session of a key in use can be reported.
LEMMA UdpReport ==
  ASSUME UnInv, NEW k \in DOMAIN uMap, k[2] \in Flow
  PROVE  LET r == Report(k[2], uSession[uMap[k]])
         IN  r \in ReportRec /\ r.sec = now /\ <<r.src, r.dst>> \in Along(r.flow)
<1>1. /\ uSession[uMap[k]] \in SessionRec
      /\ <<uSession[uMap[k]].src, uSession[uMap[k]].dst>> \in Along(k[2])
  BY DEF UnInv, UdpFits, PoolFits, SessionsFit
<1> QED  BY <1>1, ReportTyped

LEMMA UdpCleanStep ==
  ASSUME UnInv, NEW k \in KeysOf(UdpFlow), UdpClean(k)
  PROVE  UnInv'
<1>1. /\ <<"udp", k>> \in todo /\ todo' = todo \ {<<"udp", k>>} /\ out' = {}
      /\ UNCHANGED <<now, tcpVars, flusherVars, history>>
  BY DEF UdpClean
<1>2. k \in DOMAIN uMap
  BY <1>1 DEF UnInv, TodoFits
<1>3. k[2] \in Flow
  BY DEF KeysOf, Flow
<1>4. fSec' = fSec /\ now' = now /\ sources' = sources
  BY <1>1 DEF flusherVars, history
<1>5. FlusherTimes' /\ SourcesFit' /\ FileFits' /\ TcpFits' /\ DOMAIN tMap' = DOMAIN tMap
  BY <1>1, <1>4, FlusherSame, LinesSame, TcpSame DEF tcpVars
<1>6. StoreFits' /\ UdpFits' /\ DOMAIN uMap \ {k} \subseteq DOMAIN uMap'
  <2>1. CASE TimedOut(uSession[uMap[k]], UDP_CLEAN_UP_TIMEOUT_SEC)
    <3> DEFINE r == Report(k[2], uSession[uMap[k]])
    <3>1. Store("udp", r) /\ UdpErase(uMap[k])
      BY <2>1 DEF UdpClean
    <3>2. r \in ReportRec /\ r.sec = now /\ <<r.src, r.dst>> \in Along(r.flow)
      BY <1>2, <1>3, UdpReport
    <3> HIDE DEF r
    <3>3. StoreFits'
      BY <3>1, <3>2, <1>4, StoreStep DEF Protocol
    <3> QED  BY <3>1, <3>3, <1>2, UdpEraseStep
  <2>2. CASE ~ TimedOut(uSession[uMap[k]], UDP_CLEAN_UP_TIMEOUT_SEC)
    <3>1. UNCHANGED <<flStore, udpVars>>
      BY <2>2 DEF UdpClean
    <3>2. StoreFits' /\ UdpFits'
      BY <3>1, <1>4, StoreSame, UdpSame
    <3> QED  BY <3>1, <3>2 DEF udpVars
  <2> QED  BY <2>1, <2>2
<1>7. TodoFits'
  BY <1>1, <1>5, <1>6 DEF UnInv, TodoFits
<1> QED  BY <1>5, <1>6, <1>7 DEF UnInv

LEMMA StartScanStep == UnInv /\ StartScan => UnInv'
<1> SUFFICES ASSUME UnInv, StartScan PROVE UnInv'
  OBVIOUS
<1>1. /\ todo' = ({"tcp"} \X DOMAIN tMap) \cup ({"udp"} \X DOMAIN uMap) /\ out' = {}
      /\ UNCHANGED <<now, tcpVars, udpVars, flStore, flusherVars, history>>
  BY DEF StartScan, TcpPool!Used, UdpPool!Used
<1>2. fSec' = fSec /\ now' = now /\ sources' = sources /\ tMap' = tMap /\ uMap' = uMap
  BY <1>1 DEF flusherVars, history, tcpVars, udpVars
<1>3. /\ StoreFits' /\ FlusherTimes' /\ SourcesFit' /\ FileFits'
      /\ TcpFits' /\ UdpFits'
  BY <1>1, <1>2, StoreSame, FlusherSame, LinesSame, TcpSame, UdpSame
<1>4. TodoFits'
  BY <1>1, <1>2 DEF TodoFits
<1> QED  BY <1>3, <1>4 DEF UnInv

LEMMA TickStep == UnInv /\ Tick => UnInv'
<1> SUFFICES ASSUME UnInv, Tick PROVE UnInv'
  OBVIOUS
<1>1. /\ now' = now + 1 /\ now + 1 - fSec <= MaxReadLag /\ out' = {}
      /\ UNCHANGED <<tcpVars, udpVars, scanVars, flStore, flusherVars, history>>
  BY DEF Tick
<1>2. /\ fSec' = fSec /\ sources' = sources /\ todo' = todo
      /\ tMap' = tMap /\ uMap' = uMap
      /\ UNCHANGED <<fpc, lastIndex, curIndex, file>>
  BY <1>1 DEF flusherVars, history, tcpVars, udpVars, scanVars
<1>3. FlusherTimes'
  <2>1. fpc # "poll" =>
          \E c \in Nat :
            /\ fSec <= c /\ c <= now + 1 /\ curIndex = READ_TIME_INDEX(c)
            /\ fpc = "drain" => \E t \in Nat : c <= t /\ t <= now + 1 /\ file = OpenFile(t)
    BY DEF UnInv, FlusherTimes
  <2> QED  BY <1>1, <1>2, <2>1 DEF UnInv, FlusherTimes
<1>4. StoreFits' /\ SourcesFit' /\ FileFits' /\ TcpFits' /\ UdpFits'
  BY <1>1, <1>2, StoreSame, LinesSame, TcpSame, UdpSame
<1>5. TodoFits'
  BY <1>2 DEF UnInv, TodoFits
<1> QED  BY <1>3, <1>4, <1>5 DEF UnInv

-----------------------------------------------------------------------------
(* The flusher.                                                            *)

\* What the flusher's steps leave alone.
LEMMA ManagerSame ==
  ASSUME UnInv, UNCHANGED <<tcpVars, udpVars, scanVars>>
  PROVE  TcpFits' /\ UdpFits' /\ TodoFits'
<1>1. tMap' = tMap /\ uMap' = uMap /\ todo' = todo
  BY DEF tcpVars, udpVars, scanVars
<1>2. TodoFits'
  BY <1>1 DEF UnInv, TodoFits
<1> QED  BY <1>2, TcpSame, UdpSame

LEMMA PollStep == UnInv /\ (FlIndex \/ FlMinute \/ FlSleep) => UnInv'
<1> SUFFICES ASSUME UnInv, FlIndex \/ FlMinute \/ FlSleep PROVE UnInv'
  OBVIOUS
<1>1. /\ UNCHANGED <<tcpVars, udpVars, scanVars>> /\ out' = {} /\ flStore' = flStore
      /\ now' = now /\ fSec' = fSec /\ lastIndex' = lastIndex /\ sources' = sources
  BY DEF FlIndex, FlMinute, FlSleep, history
<1>2. /\ now \in Nat /\ fSec \in Nat /\ fSec <= now /\ now - fSec <= MaxReadLag
      /\ lastIndex = READ_TIME_INDEX(fSec)
  BY DEF UnInv, FlusherTimes
<1>3. FlusherTimes'
  <2>1. CASE FlIndex
    <3>1. fpc' = "minute" /\ curIndex' = READ_TIME_INDEX(now)
      BY <2>1 DEF FlIndex
    <3> QED  BY <1>1, <1>2, <3>1 DEF FlusherTimes
  <2>2. CASE FlMinute
    <3>1. fpc = "minute" /\ fpc' = "drain" /\ curIndex' = curIndex /\ file' = OpenFile(now)
      BY <2>2 DEF FlMinute
    <3>2. PICK c \in Nat : fSec <= c /\ c <= now /\ curIndex = READ_TIME_INDEX(c)
      BY <3>1 DEF UnInv, FlusherTimes
    <3> QED  BY <1>1, <1>2, <3>1, <3>2 DEF FlusherTimes
  <2>3. CASE FlSleep
    BY <1>1, <1>2, <2>3 DEF FlSleep, FlusherTimes
  <2> QED  BY <2>1, <2>2, <2>3
<1> QED  BY <1>1, <1>3, ManagerSame, StoreSame, LinesSame DEF UnInv

LEMMA DrainStep == UnInv /\ FlDrain => UnInv'
<1> SUFFICES ASSUME UnInv, FlDrain PROVE UnInv'
  OBVIOUS
<1>1. /\ fpc = "drain" /\ fpc' = fpc /\ lastIndex # curIndex
      /\ lastIndex' = READ_NEXT_TIME_INDEX(lastIndex) /\ fSec' = fSec + 1
      /\ out' \subseteq InSlot(lastIndex)
      /\ flStore' = [proto \in Protocol |-> [flStore[proto] EXCEPT ![lastIndex] = <<>>]]
      /\ UNCHANGED <<tcpVars, udpVars, scanVars>>
      /\ now' = now /\ curIndex' = curIndex /\ file' = file
  BY DEF FlDrain, Behind, Protocol
<1>2. /\ now \in Nat /\ fSec \in Nat /\ fSec <= now /\ now - fSec <= MaxReadLag
      /\ lastIndex = READ_TIME_INDEX(fSec)
      /\ MaxReadLag \in Nat /\ TIME_INDEX \in Nat /\ MaxReadLag + 2 <= TIME_INDEX
  BY UnmappedAssumption, TimeIndexAssumption DEF UnInv, FlusherTimes
<1>3. PICK c \in Nat : \E t \in Nat :
        /\ fSec <= c /\ c <= now /\ curIndex = READ_TIME_INDEX(c)
        /\ c <= t /\ t <= now /\ file = OpenFile(t)
  BY <1>1 DEF UnInv, FlusherTimes
<1>4. PICK t \in Nat : /\ fSec <= c /\ c <= now /\ curIndex = READ_TIME_INDEX(c)
                       /\ c <= t /\ t <= now /\ file = OpenFile(t)
  BY <1>3
<1>5. fSec + 1 <= c
  <2>1. fSec # c
    BY <1>1, <1>2, <1>4
  <2> QED  BY <1>2, <1>4, <2>1
<1>6. FlusherTimes'
  <2>1. READ_NEXT_TIME_INDEX(lastIndex) = READ_TIME_INDEX(fSec + 1)
    BY <1>2, ReadNextIsSucc
  <2>2. fSec + 1 \in Nat /\ fSec + 1 <= now /\ now - (fSec + 1) <= MaxReadLag
    BY <1>2, <1>4, <1>5
  <2> QED  BY <1>1, <1>2, <1>4, <1>5, <2>1, <2>2 DEF FlusherTimes
\* A report that fits lastIndex is of the second before fSec, and only those do.
<1>7. ASSUME NEW proto \in Protocol, NEW i \in Slots, NEW r \in Range(flStore[proto][i])
      PROVE  /\ r \in ReportRec /\ ReportFits(r, i, fSec, now)
             /\ r.sec + 1 = fSec <=> i = lastIndex
  <2>1. flStore[proto][i] \in Seq(ReportRec)
    BY DEF UnInv, StoreFits
  <2>2. r \in ReportRec /\ ReportFits(r, i, fSec, now)
    BY <1>7, <2>1 DEF UnInv, StoreFits, Range
  <2> DEFINE s == r.sec + 1
  <2>3. /\ s \in Nat /\ i = READ_TIME_INDEX(s) /\ fSec <= s
        /\ s - fSec < TIME_INDEX /\ fSec - s < TIME_INDEX
    BY <1>2, <2>2 DEF ReportRec, ReportFits
  <2> HIDE DEF s
  <2>4. i = lastIndex => s = fSec
    BY <1>2, <2>3, OneSecond
  <2>5. s = fSec => i = lastIndex
    BY <1>2, <2>3
  <2> QED  BY <2>2, <2>4, <2>5 DEF s
<1>8. StoreFits'
  <2>1. flStore' \in [Protocol -> [Slots -> Seq(ReportRec)]]
    <3>1. ASSUME NEW proto \in Protocol
          PROVE  [flStore[proto] EXCEPT ![lastIndex] = <<>>] \in [Slots -> Seq(ReportRec)]
      <4>1. flStore[proto] \in [Slots -> Seq(ReportRec)] /\ <<>> \in Seq(ReportRec)
        BY DEF UnInv, StoreFits
      <4> QED  BY <4>1
    <3> QED  BY <1>1, <3>1
  <2> SUFFICES ASSUME NEW proto \in Protocol, NEW i \in Slots,
                      NEW r \in Range(flStore'[proto][i])
               PROVE  ReportFits(r, i, fSec + 1, now)
    BY <1>1, <2>1 DEF StoreFits
  <2>2. i # lastIndex /\ flStore'[proto][i] = flStore[proto][i]
    <3>1. CASE i = lastIndex
      <4>1. flStore'[proto][i] = <<>>
        BY <1>1, <3>1 DEF UnInv, StoreFits
      <4> QED  BY <4>1 DEF Range
    <3>2. CASE i # lastIndex
      BY <1>1, <3>2 DEF UnInv, StoreFits
    <3> QED  BY <3>1, <3>2
  <2>3. /\ r \in ReportRec /\ ReportFits(r, i, fSec, now) /\ r.sec + 1 # fSec
    BY <1>7, <2>2
  <2> QED  BY <1>2, <2>3 DEF ReportFits, ReportRec
<1>9. ASSUME NEW r \in out'
      PROVE  r \in ReportRec /\ r.sec + 1 = fSec /\ <<r.src, r.dst>> \in Along(r.flow)
  <2>1. lastIndex \in Slots
    BY <1>2, ReadIndexIsSlot
  <2>2. PICK proto \in Protocol : r \in Range(flStore[proto][lastIndex])
    BY <1>1, <1>9 DEF InSlot, Protocol
  <2> QED  BY <1>7, <2>1, <2>2 DEF ReportFits
<1>10. FileFits'
  <2> SUFFICES ASSUME NEW r \in out'
               PROVE  /\ (r.sec + 2) \div SecPerMin <= file
                      /\ file <= (r.sec + 1 + MaxReadLag) \div SecPerMin
    BY <1>1 DEF FileFits
  <2>1. r.sec \in Nat /\ r.sec + 1 = fSec
    BY <1>9 DEF ReportRec
  <2>2. r.sec + 2 \in Nat /\ r.sec + 2 <= t
    BY <1>4, <1>5, <2>1
  <2>3. r.sec + 1 + MaxReadLag \in Nat /\ t <= r.sec + 1 + MaxReadLag
    BY <1>2, <1>4, <2>1
  <2>4. OpenFile(r.sec + 2) <= OpenFile(t) /\ OpenFile(t) <= OpenFile(r.sec + 1 + MaxReadLag)
    BY <2>2, <2>3, MinuteMonotone
  <2> QED  BY <1>4, <2>4 DEF OpenFile
<1>11. SourcesFit'
  <2> SUFFICES ASSUME NEW f \in Flow, NEW x \in sources'[f] PROVE x \in SourcesOf(f)
    BY DEF SourcesFit
  <2>1. x \in sources[f] \cup {Oriented(r.src, r.dst)[1] : r \in {y \in out' : y.flow = f}}
    BY DEF FlDrain
  <2>2. CASE x \in sources[f]
    BY <2>2 DEF UnInv, SourcesFit
  <2>3. CASE x \in {Oriented(r.src, r.dst)[1] : r \in {y \in out' : y.flow = f}}
    <3>1. PICK r \in out' : r.flow = f /\ x = Oriented(r.src, r.dst)[1]
      BY <2>3
    <3> DEFINE e == <<r.src, r.dst>>
    <3>2. e \in Along(f) /\ e[1] = r.src /\ e[2] = r.dst
      BY <1>9, <3>1
    <3>3. x = Oriented(e[1], e[2])[1]
      BY <3>1, <3>2
    <3> HIDE DEF e
    <3> QED  BY <3>2, <3>3 DEF SourcesOf
  <2> QED  BY <2>1, <2>2, <2>3
<1> QED  BY <1>1, <1>6, <1>8, <1>10, <1>11, ManagerSame DEF UnInv

-----------------------------------------------------------------------------
LEMMA UnInvStep == UnInv /\ [Next]_vars => UnInv'
<1> SUFFICES ASSUME UnInv, [Next]_vars PROVE UnInv'
  OBVIOUS
<1>1. CASE Packet
  BY <1>1, TcpNewStep, TcpKnownStep, UdpNewStep, UdpKnownStep DEF Packet
<1>2. CASE \E f \in TcpFlow : \E src \in Ends(f) : TcpFin(f, src)
  BY <1>2, TcpFinStep
<1>3. CASE Scan
  BY <1>3, StartScanStep, TcpCleanStep, UdpCleanStep DEF Scan
<1>4. CASE Flusher
  BY <1>4, PollStep, DrainStep DEF Flusher
<1>5. CASE UNCHANGED vars
  <2>1. /\ UNCHANGED <<tcpVars, udpVars, scanVars>> /\ flStore' = flStore /\ now' = now
        /\ UNCHANGED flusherVars /\ fSec' = fSec /\ file' = file
        /\ sources' = sources /\ out' = out
    BY <1>5 DEF vars, flusherVars, history
  <2>2. SourcesFit' /\ FileFits'
    BY <2>1 DEF UnInv, SourcesFit, FileFits
  <2> QED  BY <2>1, <2>2, ManagerSame, StoreSame, FlusherSame DEF UnInv
<1> QED  BY <1>1, <1>2, <1>3, <1>4, <1>5, TickStep DEF Next

\* The invariant holds always.
LEMMA UnInvAlways == Spec => []UnInv
BY UnInvInit, UnInvStep, PTL DEF Spec

-----------------------------------------------------------------------------
(* Sets of frames.                                                         *)

LEMMA NumbersWithin ==
  ASSUME NEW x, NEW n \in Nat
  PROVE  /\ IsFiniteSet({x} \X (1 .. n)) /\ Cardinality({x} \X (1 .. n)) = n
<1>1. IsFiniteSet({x}) /\ Cardinality({x}) = 1
  BY FS_Singleton
<1>2. IsFiniteSet(1 .. n) /\ Cardinality(1 .. n) = n
  <2>1. 1 \in Int /\ n \in Int
    OBVIOUS
  <2>2. /\ IsFiniteSet(1 .. n)
        /\ Cardinality(1 .. n) = IF 1 > n THEN 0 ELSE n - 1 + 1
    BY <2>1, FS_Interval
  <2> QED  BY <2>2
<1> DEFINE T == 1 .. n
<1>3. IsFiniteSet(T) /\ Cardinality(T) = n
  BY <1>2
<1> HIDE DEF T
<1>4. IsFiniteSet({x} \X T) /\ Cardinality({x} \X T) = Cardinality({x}) * Cardinality(T)
  BY <1>1, <1>3, FS_Product
<1>5. Cardinality({x} \X T) = n
  BY <1>1, <1>3, <1>4
<1> QED  BY <1>4, <1>5 DEF T

\* Sets without a common member.
LEMMA JoinApart ==
  ASSUME NEW S, NEW T, IsFiniteSet(S), IsFiniteSet(T), S \cap T = {}
  PROVE  /\ IsFiniteSet(S \cup T)
         /\ Cardinality(S \cup T) = Cardinality(S) + Cardinality(T)
<1>1. /\ IsFiniteSet(S \cup T)
      /\ Cardinality(S \cup T) = Cardinality(S) + Cardinality(T) - Cardinality(S \cap T)
  BY FS_Union
<1>2. Cardinality(S) \in Nat /\ Cardinality(T) \in Nat /\ Cardinality(S \cap T) = 0
  BY FS_CardinalityType, FS_EmptySet
<1> QED  BY <1>1, <1>2

LEMMA TakePart ==
  ASSUME NEW S, NEW T, IsFiniteSet(S), T \subseteq S
  PROVE  /\ IsFiniteSet(T) /\ IsFiniteSet(S \ T)
         /\ Cardinality(T) \in Nat /\ Cardinality(S \ T) \in Nat
         /\ Cardinality(S \ T) = Cardinality(S) - Cardinality(T)
         /\ Cardinality(T) <= Cardinality(S)
<1>1. IsFiniteSet(T) /\ Cardinality(T) <= Cardinality(S)
  BY FS_Subset
<1>2. S \cap T = T
  OBVIOUS
<1>3. IsFiniteSet(S \ T) /\ Cardinality(S \ T) = Cardinality(S) - Cardinality(S \cap T)
  BY FS_Difference
<1>4. Cardinality(T) \in Nat /\ Cardinality(S \ T) \in Nat
  BY <1>1, <1>3, FS_CardinalityType
<1> QED  BY <1>1, <1>2, <1>3, <1>4

\* Of the frames under one name, n become m.
Renumbered(S, k, n, m) == (S \ ({k} \X (1 .. n))) \cup ({k} \X (1 .. m))

\* There are n of them.
Numbered(S, k, n) ==
  {k} \X (1 .. n) \subseteq S /\ \A z \in S : z[1] = k => z \in {k} \X (1 .. n)

LEMMA CountRenumbered ==
  ASSUME NEW S, NEW k, NEW n \in Nat, NEW m \in Nat, IsFiniteSet(S), Numbered(S, k, n)
  PROVE  /\ IsFiniteSet(Renumbered(S, k, n, m))
         /\ Cardinality(Renumbered(S, k, n, m)) = Cardinality(S) - n + m
<1> DEFINE N == {k} \X (1 .. n)
           M == {k} \X (1 .. m)
<1>1. /\ IsFiniteSet(N) /\ Cardinality(N) = n
      /\ IsFiniteSet(M) /\ Cardinality(M) = m
  BY NumbersWithin
<1>2. N \subseteq S /\ \A z \in S : z[1] = k => z \in N
  BY DEF Numbered
<1>3. \A z \in M : z[1] = k
  OBVIOUS
<1>4. Renumbered(S, k, n, m) = (S \ N) \cup M
  BY DEF Renumbered
<1> HIDE DEF N, M
<1>5. /\ IsFiniteSet(S \ N) /\ Cardinality(S \ N) = Cardinality(S) - n
  BY <1>1, <1>2, TakePart
<1>6. (S \ N) \cap M = {}
  BY <1>2, <1>3
<1>7. /\ IsFiniteSet((S \ N) \cup M)
      /\ Cardinality((S \ N) \cup M) = Cardinality(S \ N) + Cardinality(M)
  BY <1>1, <1>5, <1>6, JoinApart
<1> QED  BY <1>1, <1>4, <1>5, <1>7

-----------------------------------------------------------------------------
(* The frames in sessions.                                                 *)

LEMMA FramesInDef ==
  ASSUME NEW map, NEW session, NEW f
  PROVE  \A z : z \in FramesIn(map, session, f) <=>
           \E k \in DOMAIN map :
             k[2] = f /\ z \in {k} \X (1 .. session[map[k]].frCount)
BY DEF FramesIn

\* How many frames the session of a key has, if it has one.
CountOf(map, session, k) == IF k \in DOMAIN map THEN session[map[k]].frCount ELSE 0

\* The session of k, old or new, has m frames now, or is gone and m is 0.
OnlyChanges(map, session, map2, session2, k, m) ==
  /\ DOMAIN map \cup {k} = DOMAIN map2 \cup {k}
  /\ \A g \in DOMAIN map2 \ {k} :
       session2[map2[g]].frCount = session[map[g]].frCount
  /\ m = CountOf(map2, session2, k)

LEMMA FramesInStep ==
  ASSUME NEW map, NEW session, NEW map2, NEW session2, NEW k, NEW f, NEW n, NEW m,
         OnlyChanges(map, session, map2, session2, k, m),
         n = CountOf(map, session, k)
  PROVE  /\ FramesIn(map2, session2, f) =
              IF k[2] = f THEN Renumbered(FramesIn(map, session, f), k, n, m)
              ELSE FramesIn(map, session, f)
         /\ k[2] = f => Numbered(FramesIn(map, session, f), k, n)
<1> DEFINE S == FramesIn(map, session, f)
           S2 == FramesIn(map2, session2, f)
           Num(g) == {g} \X (1 .. session[map[g]].frCount)
           Num2(g) == {g} \X (1 .. session2[map2[g]].frCount)
           N == {k} \X (1 .. n)
           M == {k} \X (1 .. m)
<1>1. \A z : z \in S <=> \E g \in DOMAIN map : g[2] = f /\ z \in Num(g)
  BY FramesInDef
<1>2. \A z : z \in S2 <=> \E g \in DOMAIN map2 : g[2] = f /\ z \in Num2(g)
  BY FramesInDef
<1>3. \A g, z : z \in Num(g) \/ z \in Num2(g) => z[1] = g
  OBVIOUS
<1>4. \A g \in DOMAIN map2 \ {k} : Num(g) = Num2(g)
  BY DEF OnlyChanges
<1>5. \A g : g # k => (g \in DOMAIN map <=> g \in DOMAIN map2)
  BY DEF OnlyChanges
<1>6. N = IF k \in DOMAIN map THEN Num(k) ELSE {}
  BY DEF CountOf
<1>7. M = IF k \in DOMAIN map2 THEN Num2(k) ELSE {}
  BY DEF OnlyChanges, CountOf
<1>8. \A z : z \in N \/ z \in M => z[1] = k
  OBVIOUS
<1>a. Renumbered(S, k, n, m) = (S \ N) \cup M
  BY DEF Renumbered
<1> HIDE DEF S, S2, Num, Num2, N, M
<1>9. k[2] = f => N \subseteq S
  BY <1>1, <1>6
<1>10. \A z \in S : z[1] = k => z \in N
  BY <1>1, <1>3, <1>6
<1>11. ASSUME k[2] # f PROVE S2 = S
  BY <1>1, <1>2, <1>4, <1>5, <1>11
<1>12. ASSUME k[2] = f PROVE S2 = (S \ N) \cup M
  <2>1. ASSUME NEW z \in S2 PROVE z \in (S \ N) \cup M
    <3>1. PICK g \in DOMAIN map2 : g[2] = f /\ z \in Num2(g)
      BY <1>2, <2>1
    <3>2. CASE g = k
      BY <1>7, <3>1, <3>2
    <3>3. CASE g # k
      <4>1. z \in S
        BY <1>1, <1>4, <1>5, <3>1, <3>3
      <4>2. z \notin N
        BY <1>3, <1>8, <3>1, <3>3
      <4> QED  BY <4>1, <4>2
    <3> QED  BY <3>2, <3>3
  <2>2. ASSUME NEW z \in S, z \notin N PROVE z \in S2
    <3>1. PICK g \in DOMAIN map : g[2] = f /\ z \in Num(g)
      BY <1>1, <2>2
    <3>2. g # k
      BY <1>6, <2>2, <3>1
    <3> QED  BY <1>2, <1>4, <1>5, <3>1, <3>2
  <2>3. ASSUME NEW z \in M PROVE z \in S2
    BY <1>2, <1>7, <1>12, <2>3
  <2> QED  BY <2>1, <2>2, <2>3
<1>13. S2 = IF k[2] = f THEN (S \ N) \cup M ELSE S
  BY <1>11, <1>12
<1>14. k[2] = f => Numbered(S, k, n)
  BY <1>9, <1>10 DEF Numbered, N
<1> QED  BY <1>13, <1>14, <1>a DEF S, S2

\* Every frame is in a session, in the ring, in a line, or was left out.
FrameInv ==
  /\ counted \in [Flow -> Nat] /\ filed \in [Flow -> Nat] /\ leftOut \in [Flow -> Nat]
  /\ \A f \in Flow :
       /\ IsFiniteSet(OpenFrames(f)) /\ IsFiniteSet(StoredFrames(f))
       /\ counted[f] = Cardinality(OpenFrames(f)) + Cardinality(StoredFrames(f))
                         + filed[f] + leftOut[f]

\* The sessions of flow g have d more frames, those of other flows as many.
OpenGains(g, d) ==
  \A f \in Flow :
    /\ IsFiniteSet(OpenFrames(f)')
    /\ Cardinality(OpenFrames(f)') =
         Cardinality(OpenFrames(f)) + IF f = g THEN d ELSE 0

StoreGains(g, d) ==
  \A f \in Flow :
    /\ IsFiniteSet(StoredFrames(f)')
    /\ Cardinality(StoredFrames(f)') =
         Cardinality(StoredFrames(f)) + IF f = g THEN d ELSE 0

LEMMA CardsTyped ==
  ASSUME FrameInv, NEW f \in Flow
  PROVE  Cardinality(OpenFrames(f)) \in Nat /\ Cardinality(StoredFrames(f)) \in Nat
BY FS_CardinalityType DEF FrameInv

LEMMA OpenSame ==
  ASSUME FrameInv, UNCHANGED <<tMap, tSession, uMap, uSession>>, NEW g
  PROVE  OpenGains(g, 0)
<1> SUFFICES ASSUME NEW f \in Flow
             PROVE  /\ IsFiniteSet(OpenFrames(f)')
                    /\ Cardinality(OpenFrames(f)') =
                         Cardinality(OpenFrames(f)) + IF f = g THEN 0 ELSE 0
  BY DEF OpenGains
<1>1. OpenFrames(f)' = OpenFrames(f)
  BY DEF OpenFrames, FramesIn
<1> QED  BY <1>1, CardsTyped DEF FrameInv

LEMMA StoredSame ==
  ASSUME FrameInv, flStore' = flStore, NEW g
  PROVE  StoreGains(g, 0)
<1> SUFFICES ASSUME NEW f \in Flow
             PROVE  /\ IsFiniteSet(StoredFrames(f)')
                    /\ Cardinality(StoredFrames(f)') =
                         Cardinality(StoredFrames(f)) + IF f = g THEN 0 ELSE 0
  BY DEF StoreGains
<1>1. StoredFrames(f)' = StoredFrames(f)
  BY DEF StoredFrames, FramesAt, OfFlow, PlacesOf, At
<1> QED  BY <1>1, CardsTyped DEF FrameInv

\* What sessions and ring gain was counted now.
LEMMA GainsAreCounted ==
  ASSUME FrameInv, NEW g \in Flow, NEW d \in Int, NEW e \in Int, NEW c \in Nat,
         OpenGains(g, d), StoreGains(g, e), d + e = c,
         counted' = [counted EXCEPT ![g] = counted[g] + c],
         filed' = filed, leftOut' = leftOut
  PROVE  FrameInv'
<1>1. /\ counted \in [Flow -> Nat] /\ filed \in [Flow -> Nat]
      /\ leftOut \in [Flow -> Nat]
  BY DEF FrameInv
<1>2. counted' \in [Flow -> Nat]
  BY <1>1
<1> SUFFICES ASSUME NEW f \in Flow
             PROVE  /\ IsFiniteSet(OpenFrames(f)') /\ IsFiniteSet(StoredFrames(f)')
                    /\ counted'[f] = Cardinality(OpenFrames(f)')
                         + Cardinality(StoredFrames(f)') + filed[f] + leftOut[f]
  BY <1>1, <1>2 DEF FrameInv
<1>3. /\ Cardinality(OpenFrames(f)) \in Nat /\ Cardinality(StoredFrames(f)) \in Nat
      /\ counted[f] = Cardinality(OpenFrames(f)) + Cardinality(StoredFrames(f))
                        + filed[f] + leftOut[f]
  BY CardsTyped DEF FrameInv
<1>4. /\ IsFiniteSet(OpenFrames(f)')
      /\ Cardinality(OpenFrames(f)') =
           Cardinality(OpenFrames(f)) + IF f = g THEN d ELSE 0
  BY DEF OpenGains
<1>5. /\ IsFiniteSet(StoredFrames(f)')
      /\ Cardinality(StoredFrames(f)') =
           Cardinality(StoredFrames(f)) + IF f = g THEN e ELSE 0
  BY DEF StoreGains
<1>6. counted'[f] = counted[f] + IF f = g THEN c ELSE 0
  BY <1>1
<1>7. filed[f] \in Nat /\ leftOut[f] \in Nat /\ counted[f] \in Nat
  BY <1>1
<1> DEFINE a == Cardinality(OpenFrames(f))
           b == Cardinality(StoredFrames(f))
           a2 == Cardinality(OpenFrames(f)')
           b2 == Cardinality(StoredFrames(f)')
<1>8. /\ a \in Nat /\ b \in Nat /\ counted[f] = a + b + filed[f] + leftOut[f]
      /\ a2 = a + (IF f = g THEN d ELSE 0) /\ b2 = b + (IF f = g THEN e ELSE 0)
  BY <1>3, <1>4, <1>5
<1> HIDE DEF a, b, a2, b2
<1>9. counted'[f] = a2 + b2 + filed[f] + leftOut[f]
  BY <1>6, <1>7, <1>8
<1> QED  BY <1>4, <1>5, <1>9 DEF a2, b2

LEMMA TcpGains ==
  ASSUME FrameInv, NEW k \in KeysOf(TcpFlow), NEW n \in Nat, NEW m \in Nat,
         OnlyChanges(tMap, tSession, tMap', tSession', k, m),
         n = CountOf(tMap, tSession, k), UNCHANGED udpVars
  PROVE  OpenGains(k[2], m - n)
<1> SUFFICES ASSUME NEW f \in Flow
             PROVE  /\ IsFiniteSet(OpenFrames(f)')
                    /\ Cardinality(OpenFrames(f)') =
                         Cardinality(OpenFrames(f)) + IF f = k[2] THEN m - n ELSE 0
  BY DEF OpenGains
<1>1. k[2] \in TcpFlow
  BY DEF KeysOf
<1>2. IsFiniteSet(OpenFrames(f)) /\ Cardinality(OpenFrames(f)) \in Nat
  BY CardsTyped DEF FrameInv
<1>3. CASE f \in TcpFlow
  <2> DEFINE S == FramesIn(tMap, tSession, f)
  <2>1. OpenFrames(f) = S /\ OpenFrames(f)' = FramesIn(tMap', tSession', f)
    BY <1>3 DEF OpenFrames, FramesIn
  <2>2. /\ FramesIn(tMap', tSession', f) =
             IF k[2] = f THEN Renumbered(S, k, n, m) ELSE S
        /\ k[2] = f => Numbered(S, k, n)
    BY FramesInStep
  <2> HIDE DEF S
  <2>3. CASE k[2] = f
    <3>1. /\ IsFiniteSet(Renumbered(S, k, n, m))
          /\ Cardinality(Renumbered(S, k, n, m)) = Cardinality(S) - n + m
      BY <1>2, <2>1, <2>2, <2>3, CountRenumbered
    <3> QED  BY <1>2, <2>1, <2>2, <2>3, <3>1
  <2>4. CASE k[2] # f
    BY <1>2, <2>1, <2>2, <2>4
  <2> QED  BY <2>3, <2>4
<1>4. CASE f \notin TcpFlow
  <2>1. OpenFrames(f)' = OpenFrames(f)
    BY <1>4 DEF OpenFrames, FramesIn, udpVars
  <2> QED  BY <1>1, <1>2, <1>4, <2>1
<1> QED  BY <1>3, <1>4

LEMMA UdpGains ==
  ASSUME FrameInv, NEW k \in KeysOf(UdpFlow), NEW n \in Nat, NEW m \in Nat,
         OnlyChanges(uMap, uSession, uMap', uSession', k, m),
         n = CountOf(uMap, uSession, k), UNCHANGED tcpVars
  PROVE  OpenGains(k[2], m - n)
<1> SUFFICES ASSUME NEW f \in Flow
             PROVE  /\ IsFiniteSet(OpenFrames(f)')
                    /\ Cardinality(OpenFrames(f)') =
                         Cardinality(OpenFrames(f)) + IF f = k[2] THEN m - n ELSE 0
  BY DEF OpenGains
<1>1. k[2] \in UdpFlow /\ k[2] \notin TcpFlow
  BY UnmappedAssumption DEF KeysOf
<1>2. IsFiniteSet(OpenFrames(f)) /\ Cardinality(OpenFrames(f)) \in Nat
  BY CardsTyped DEF FrameInv
<1>3. CASE f \notin TcpFlow
  <2> DEFINE S == FramesIn(uMap, uSession, f)
  <2>1. OpenFrames(f) = S /\ OpenFrames(f)' = FramesIn(uMap', uSession', f)
    BY <1>3 DEF OpenFrames, FramesIn
  <2>2. /\ FramesIn(uMap', uSession', f) =
             IF k[2] = f THEN Renumbered(S, k, n, m) ELSE S
        /\ k[2] = f => Numbered(S, k, n)
    BY FramesInStep
  <2> HIDE DEF S
  <2>3. CASE k[2] = f
    <3>1. /\ IsFiniteSet(Renumbered(S, k, n, m))
          /\ Cardinality(Renumbered(S, k, n, m)) = Cardinality(S) - n + m
      BY <1>2, <2>1, <2>2, <2>3, CountRenumbered
    <3> QED  BY <1>2, <2>1, <2>2, <2>3, <3>1
  <2>4. CASE k[2] # f
    BY <1>2, <2>1, <2>2, <2>4
  <2> QED  BY <2>3, <2>4
<1>4. CASE f \in TcpFlow
  <2>1. OpenFrames(f)' = OpenFrames(f)
    BY <1>4 DEF OpenFrames, FramesIn, tcpVars
  <2> QED  BY <1>1, <1>2, <1>4, <2>1
<1> QED  BY <1>3, <1>4

-----------------------------------------------------------------------------
(* The frames in the ring.                                                 *)

\* A frame of f is at a place of the ring.
HasFrame(store, f, z) ==
  \E proto \in Protocol : \E i \in Slots : \E k \in DOMAIN store[proto][i] :
    /\ store[proto][i][k].flow = f
    /\ z \in {<<proto, i, k>>} \X (1 .. store[proto][i][k].frames)

LEMMA PlacesDef ==
  \A i, x : x \in PlacesOf(i) <=>
    \E proto \in Protocol : \E k \in DOMAIN flStore[proto][i] : x = <<proto, i, k>>
<1> SUFFICES ASSUME NEW i, NEW x
             PROVE  x \in PlacesOf(i) <=>
                      \E proto \in Protocol : \E k \in DOMAIN flStore[proto][i] :
                        x = <<proto, i, k>>
  OBVIOUS
<1>1. x \in PlacesOf(i) <=>
        \E proto \in Protocol : x \in {proto} \X {i} \X DOMAIN flStore[proto][i]
  BY DEF PlacesOf, Protocol
<1>2. ASSUME NEW proto, NEW D
      PROVE  x \in {proto} \X {i} \X D <=> \E k \in D : x = <<proto, i, k>>
  OBVIOUS
<1> QED  BY <1>1, <1>2

LEMMA StoredDef == \A f, z : z \in StoredFrames(f) <=> HasFrame(flStore, f, z)
<1> SUFFICES ASSUME NEW f, NEW z
             PROVE  z \in StoredFrames(f) <=> HasFrame(flStore, f, z)
  OBVIOUS
<1>1. z \in StoredFrames(f) <=>
        \E i \in Slots : \E x \in PlacesOf(i) :
          At(x).flow = f /\ z \in {x} \X (1 .. At(x).frames)
  BY DEF StoredFrames, FramesAt, OfFlow
<1>2. \A proto, i, k : At(<<proto, i, k>>) = flStore[proto][i][k]
  BY DEF At
<1>3. ASSUME z \in StoredFrames(f) PROVE HasFrame(flStore, f, z)
  <2>1. PICK i \in Slots : \E x \in PlacesOf(i) :
               At(x).flow = f /\ z \in {x} \X (1 .. At(x).frames)
    BY <1>1, <1>3
  <2>2. PICK x \in PlacesOf(i) : At(x).flow = f /\ z \in {x} \X (1 .. At(x).frames)
    BY <2>1
  <2>3. PICK proto, k : proto \in Protocol /\ k \in DOMAIN flStore[proto][i] /\ x = <<proto, i, k>>
    BY PlacesDef
  <2> QED  BY <1>2, <2>2, <2>3 DEF HasFrame
<1>4. ASSUME HasFrame(flStore, f, z) PROVE z \in StoredFrames(f)
  <2>1. PICK proto, i, k :
          /\ proto \in Protocol /\ i \in Slots /\ k \in DOMAIN flStore[proto][i]
          /\ flStore[proto][i][k].flow = f
          /\ z \in {<<proto, i, k>>} \X (1 .. flStore[proto][i][k].frames)
    BY <1>4 DEF HasFrame
  <2> DEFINE x == <<proto, i, k>>
  <2>2. i \in Slots /\ x \in PlacesOf(i)
    BY <2>1, PlacesDef
  <2>3. At(x).flow = f /\ z \in {x} \X (1 .. At(x).frames)
    BY <1>2, <2>1
  <2> HIDE DEF x
  <2> QED  BY <1>1, <2>2, <2>3
<1> QED  BY <1>3, <1>4


LEMMA StoredDefNext == \A f, z : z \in StoredFrames(f)' <=> HasFrame(flStore', f, z)
<1>1. (\A f, z : z \in StoredFrames(f) <=> HasFrame(flStore, f, z))'
  BY StoredDef, PTL
<1> QED  BY <1>1 DEF HasFrame

\* A report of d frames goes to the end of a slot.
LEMMA StoreGain ==
  ASSUME UnInv, FrameInv, NEW proto \in Protocol, NEW r \in ReportRec, Store(proto, r)
  PROVE  StoreGains(r.flow, r.frames)
<1> DEFINE i == PKT_WRITE_TIME_INDEX(now)
           s == flStore[proto][i]
           n == Len(s) + 1
           x == <<proto, i, n>>
           M == {x} \X (1 .. r.frames)
<1>1. i \in Slots
  <2>1. now \in Nat
    BY DEF UnInv, FlusherTimes
  <2>2. i = READ_TIME_INDEX(now + 1) /\ now + 1 \in Nat
    BY <2>1, WriteIsSucc
  <2> QED  BY <2>2, ReadIndexIsSlot
<1>2. /\ flStore \in [Protocol -> [Slots -> Seq(ReportRec)]]
      /\ flStore' = [flStore EXCEPT ![proto][i] = Append(s, r)]
  BY DEF UnInv, StoreFits, Store
<1> HIDE DEF i
<1>3. s \in Seq(ReportRec)
  BY <1>1, <1>2
<1>4. /\ flStore'[proto][i] = Append(s, r)
      /\ \A q \in Protocol : \A j \in Slots :
           q # proto \/ j # i => flStore'[q][j] = flStore[q][j]
  BY <1>1, <1>2
<1>5. /\ DOMAIN s = 1 .. Len(s) /\ Len(s) \in Nat
      /\ DOMAIN Append(s, r) = 1 .. n /\ Append(s, r)[n] = r
      /\ \A k \in DOMAIN s : Append(s, r)[k] = s[k]
  BY <1>3
<1>6. DOMAIN Append(s, r) = DOMAIN s \cup {n} /\ n \notin DOMAIN s
  BY <1>5
<1> DEFINE t == Append(s, r)
<1>7. /\ flStore[proto][i] = s /\ flStore'[proto][i] = t
      /\ DOMAIN t = DOMAIN s \cup {n} /\ n \notin DOMAIN s /\ t[n] = r
      /\ \A k \in DOMAIN s : t[k] = s[k]
  BY <1>4, <1>5, <1>6
<1> HIDE DEF s, t, n
<1> SUFFICES ASSUME NEW f \in Flow
             PROVE  /\ IsFiniteSet(StoredFrames(f)')
                    /\ Cardinality(StoredFrames(f)') = Cardinality(StoredFrames(f))
                         + IF f = r.flow THEN r.frames ELSE 0
  BY DEF StoreGains
<1> DEFINE S == StoredFrames(f)
           S2 == StoredFrames(f)'
<1>8. \A z : z \in S <=> HasFrame(flStore, f, z)
  BY StoredDef
<1>9. \A z : z \in S2 <=> HasFrame(flStore', f, z)
  BY StoredDefNext
<1>10. IsFiniteSet(S) /\ Cardinality(S) \in Nat
  BY CardsTyped DEF FrameInv
<1>11. r.frames \in Nat
  BY DEF ReportRec
<1> HIDE DEF S, S2
<1>12. \A z \in S : z \in S2
  <2> SUFFICES ASSUME NEW z, HasFrame(flStore, f, z) PROVE HasFrame(flStore', f, z)
    BY <1>8, <1>9
  <2>1. PICK q, j, k :
          /\ q \in Protocol /\ j \in Slots /\ k \in DOMAIN flStore[q][j]
          /\ flStore[q][j][k].flow = f
          /\ z \in {<<q, j, k>>} \X (1 .. flStore[q][j][k].frames)
    BY DEF HasFrame
  <2>2. k \in DOMAIN flStore'[q][j] /\ flStore'[q][j][k] = flStore[q][j][k]
    <3>1. CASE q = proto /\ j = i
      BY <1>7, <2>1, <3>1
    <3>2. CASE q # proto \/ j # i
      BY <1>4, <2>1, <3>2
    <3> QED  BY <3>1, <3>2
  <2> QED  BY <2>1, <2>2 DEF HasFrame
<1>13. ASSUME NEW z \in S2 PROVE z \in S \/ (f = r.flow /\ z \in M)
  <2>1. PICK q, j, k :
          /\ q \in Protocol /\ j \in Slots /\ k \in DOMAIN flStore'[q][j]
          /\ flStore'[q][j][k].flow = f
          /\ z \in {<<q, j, k>>} \X (1 .. flStore'[q][j][k].frames)
    BY <1>9, <1>13 DEF HasFrame
  <2>2. CASE q = proto /\ j = i /\ k = n
    BY <1>7, <2>1, <2>2
  <2>3. CASE ~ (q = proto /\ j = i /\ k = n)
    <3>1. k \in DOMAIN flStore[q][j] /\ flStore'[q][j][k] = flStore[q][j][k]
      <4>1. CASE q = proto /\ j = i
        BY <1>7, <2>1, <2>3, <4>1
      <4>2. CASE q # proto \/ j # i
        BY <1>4, <2>1, <4>2
      <4> QED  BY <4>1, <4>2
    <3> QED  BY <1>8, <2>1, <3>1 DEF HasFrame
  <2> QED  BY <2>2, <2>3
<1>14. ASSUME NEW z \in M, f = r.flow PROVE z \in S2
  <2>1. n \in DOMAIN flStore'[proto][i] /\ flStore'[proto][i][n] = r
    BY <1>7
  <2>2. z \in {<<proto, i, n>>} \X (1 .. flStore'[proto][i][n].frames)
    BY <1>14, <2>1
  <2>3. HasFrame(flStore', f, z)
    BY <1>1, <1>14, <2>1, <2>2 DEF HasFrame
  <2> QED  BY <1>9, <2>3
<1>15. S \cap M = {}
  <2> SUFFICES ASSUME NEW z \in S, z \in M PROVE FALSE
    OBVIOUS
  <2>1. PICK q, j, k :
          /\ q \in Protocol /\ j \in Slots /\ k \in DOMAIN flStore[q][j]
          /\ z \in {<<q, j, k>>} \X (1 .. flStore[q][j][k].frames)
    BY <1>8 DEF HasFrame
  <2>2. z[1] = <<q, j, k>> /\ z[1] = <<proto, i, n>>
    BY <2>1
  <2>3. q = proto /\ j = i /\ k = n
    BY <2>2
  <2> QED  BY <1>7, <2>1, <2>3
<1>16. IsFiniteSet(M) /\ Cardinality(M) = r.frames
  BY <1>11, NumbersWithin
<1> HIDE DEF M
<1>17. CASE f = r.flow
  <2>1. S2 = S \cup M
    BY <1>12, <1>13, <1>14, <1>17
  <2> QED  BY <1>10, <1>15, <1>16, <1>17, <2>1, JoinApart DEF S, S2
<1>18. CASE f # r.flow
  <2>1. S2 = S
    BY <1>12, <1>13, <1>18
  <2> QED  BY <1>10, <1>18, <2>1 DEF S, S2
<1> QED  BY <1>17, <1>18

\* A slice is reported whole or kept.
LEMMA SliceGain ==
  ASSUME UnInv, FrameInv, NEW proto \in Protocol, NEW f \in Flow, NEW s \in SessionRec,
         <<s.src, s.dst>> \in Along(f), StoreSlice(proto, f, s)
  PROVE  StoreGains(f, IF AtPktLimit(s) THEN s.frCount ELSE 0)
<1>1. CASE AtPktLimit(s)
  <2> DEFINE r == Report(f, s)
  <2>1. r \in ReportRec /\ r.flow = f /\ r.frames = s.frCount
    BY ReportTyped DEF Report
  <2>2. Store(proto, r)
    BY <1>1 DEF StoreSlice
  <2> HIDE DEF r
  <2>3. StoreGains(r.flow, r.frames)
    BY <2>1, <2>2, StoreGain
  <2> QED  BY <1>1, <2>1, <2>3
<1>2. CASE ~ AtPktLimit(s)
  BY <1>2, StoredSame DEF StoreSlice
<1> QED  BY <1>1, <1>2

-----------------------------------------------------------------------------
(* No step loses a frame.                                                  *)

\* Counts of a session before and after a packet.
LEMMA PacketCounts ==
  ASSUME NEW s \in SessionRec, NEW pLoad \in {0, 1}, NEW t \in Int
  PROVE  LET c == CountFrame(s, pLoad, t)
         IN  /\ c.frCount = s.frCount + 1 /\ s.frCount \in Nat
             /\ Updated(c).frCount = IF AtPktLimit(c) THEN 0 ELSE c.frCount
<1> DEFINE c == CountFrame(s, pLoad, t)
<1>1. c.frCount = s.frCount + 1 /\ s.frCount \in Nat
  BY DEF CountFrame, SessionRec
<1>2. c \in SessionRec
  BY CountedTyped
<1> HIDE DEF c
<1>3. reuse(c).frCount = 0
  BY <1>2 DEF reuse, SessionRec
<1> QED  BY <1>1, <1>3 DEF Updated, c

LEMMA ArrivalFrames ==
  ASSUME UnInv, FrameInv, NEW f \in Flow, NEW t, Arrival(f, t)
  PROVE  /\ counted' = [counted EXCEPT ![f] = counted[f] + 1]
         /\ filed' = filed /\ leftOut' = leftOut
BY DEF Arrival, history

LEMMA TcpNewFrames ==
  ASSUME UnInv, FrameInv, NEW f \in TcpFlow, NEW src \in Ends(f), NEW pLoad \in {0, 1},
         NEW t, TcpNew(f, src, pLoad, t)
  PROVE  FrameInv'
<1> DEFINE k == KeyOf(f, src)
           x == Fresh(src, OtherEnd(f, src), t)
           s == CountFrame(x, pLoad, t)
<1>1. t \in Int /\ Arrival(f, t)
  BY ArrivalStep DEF TcpNew
<1>2. k \in KeysOf(TcpFlow) /\ k[2] = f /\ f \in Flow
  BY KeyInMap DEF Flow
<1>3. x \in SessionRec /\ x.frCount = 0 /\ <<x.src, x.dst>> \in Along(f)
  <2>1. x \in SessionRec /\ <<x.src, x.dst>> \in Along(f)
    BY <1>1, <1>2, FreshTyped
  <2> QED  BY <2>1 DEF Fresh
<1>4. PICK p \in Positions :
        /\ TcpPool!Create(k, p)
        /\ tSession' = [tSession EXCEPT ![p] = Updated(s)]
  BY DEF TcpNew
<1>5. StoreSlice("tcp", f, s) /\ UNCHANGED udpVars
  BY DEF TcpNew
<1> HIDE DEF k, x
<1>6. /\ s \in SessionRec /\ s.src = x.src /\ s.dst = x.dst
      /\ s.frCount = 1
      /\ Updated(s).frCount = IF AtPktLimit(s) THEN 0 ELSE 1
  <2>1. s \in SessionRec /\ s.src = x.src /\ s.dst = x.dst
    BY <1>1, <1>3, CountedTyped
  <2>2. s.frCount = 1 /\ Updated(s).frCount = IF AtPktLimit(s) THEN 0 ELSE s.frCount
    BY <1>1, <1>3, PacketCounts
  <2> QED  BY <2>1, <2>2
<1> DEFINE m == Updated(s).frCount
           u == Updated(s)
<1>7. /\ k \notin DOMAIN tMap /\ p \notin tBits
      /\ tMap' = Added(tMap, k, p)
  BY <1>4 DEF TcpPool!Create, TcpPool!FreeIndex, TcpPool!Used, Added
<1> HIDE DEF s
<1>8. OnlyChanges(tMap, tSession, tMap', tSession', k, m)
  <2>1. /\ DOMAIN tMap' = DOMAIN tMap \cup {k} /\ tMap'[k] = p
        /\ \A g \in DOMAIN tMap : tMap'[g] = tMap[g] /\ g # k
    BY <1>7 DEF Added
  <2>2. \A g \in DOMAIN tMap : tMap[g] # p /\ tMap[g] \in Positions
    BY <1>7 DEF UnInv, TcpFits, PoolFits
  <2>3. /\ tSession \in [Positions -> SessionRec]
        /\ tSession' = [tSession EXCEPT ![p] = u]
    BY <1>4 DEF UnInv, TcpFits, SessionsFit
  <2> HIDE DEF u
  <2>4. tSession'[p] = u /\ \A g \in DOMAIN tMap : tSession'[tMap[g]] = tSession[tMap[g]]
    BY <2>2, <2>3
  <2>5. m = CountOf(tMap', tSession', k)
    BY <2>1, <2>4 DEF CountOf, u
  <2> QED  BY <2>1, <2>4, <2>5 DEF OnlyChanges
<1>9. OpenGains(f, m - 0)
  <2>1. 0 = CountOf(tMap, tSession, k)
    BY <1>7 DEF CountOf
  <2>2. m \in Nat /\ 0 \in Nat
    BY <1>6
  <2> HIDE DEF m
  <2> QED  BY <1>2, <1>5, <1>8, <2>1, <2>2, TcpGains
<1>10. StoreGains(f, IF AtPktLimit(s) THEN 1 ELSE 0)
  <2>1. StoreGains(f, IF AtPktLimit(s) THEN s.frCount ELSE 0)
    BY <1>2, <1>3, <1>5, <1>6, SliceGain DEF Protocol
  <2> QED  BY <1>6, <2>1
<1> DEFINE e == IF AtPktLimit(s) THEN 1 ELSE 0
<1>11. /\ m - 0 \in Int /\ e \in Int /\ (m - 0) + e = 1
  BY <1>6
<1>12. /\ counted' = [counted EXCEPT ![f] = counted[f] + 1]
       /\ filed' = filed /\ leftOut' = leftOut
  BY <1>1, <1>2, ArrivalFrames
<1>13. StoreGains(f, e)
  BY <1>10
<1> HIDE DEF m, e
<1> QED  BY <1>2, <1>9, <1>11, <1>12, <1>13, GainsAreCounted

LEMMA TcpKnownFrames ==
  ASSUME UnInv, FrameInv, NEW f \in TcpFlow, NEW src \in Ends(f), NEW pLoad \in {0, 1},
         NEW t, TcpKnown(f, src, pLoad, t)
  PROVE  FrameInv'
<1> DEFINE k == KeyOf(f, src)
           p == tMap[k]
           x == tSession[p]
           s == CountFrame(x, pLoad, t)
<1>1. t \in Int /\ Arrival(f, t)
  BY ArrivalStep DEF TcpKnown
<1>2. k \in KeysOf(TcpFlow) /\ k[2] = f /\ f \in Flow
  BY KeyInMap DEF Flow
<1>3. /\ k \in DOMAIN tMap /\ tSession' = [tSession EXCEPT ![p] = Updated(s)]
      /\ StoreSlice("tcp", f, s)
      /\ tMap' = tMap /\ UNCHANGED udpVars
  BY DEF TcpKnown, TcpPool!Used
<1>4. /\ p \in Positions /\ x \in SessionRec /\ <<x.src, x.dst>> \in Along(f)
      /\ \A g \in DOMAIN tMap : g # k => tMap[g] # p
      /\ \A g \in DOMAIN tMap : tMap[g] \in Positions
      /\ tSession \in [Positions -> SessionRec]
  BY <1>2, <1>3 DEF UnInv, TcpFits, PoolFits, SessionsFit
<1> DEFINE n == x.frCount
           u == Updated(s)
           m == Updated(s).frCount
           e == IF AtPktLimit(s) THEN s.frCount ELSE 0
<1>5. n = CountOf(tMap, tSession, k)
  BY <1>3 DEF CountOf
<1> HIDE DEF k, p, x
<1>6. /\ s \in SessionRec /\ s.src = x.src /\ s.dst = x.dst
      /\ s.frCount = n + 1 /\ n \in Nat
      /\ m = IF AtPktLimit(s) THEN 0 ELSE s.frCount
  BY <1>1, <1>4, CountedTyped, PacketCounts
<1> HIDE DEF s
<1>7. OnlyChanges(tMap, tSession, tMap', tSession', k, m)
  <2>1. tSession' = [tSession EXCEPT ![p] = u]
    BY <1>3
  <2> HIDE DEF u
  <2>2. /\ tSession'[p] = u
        /\ \A g \in DOMAIN tMap \ {k} : tSession'[tMap[g]] = tSession[tMap[g]]
    BY <1>4, <2>1
  <2>3. m = CountOf(tMap', tSession', k)
    BY <1>3, <2>2 DEF CountOf, u, p
  <2> QED  BY <1>3, <2>2, <2>3 DEF OnlyChanges
<1>8. m \in Nat /\ m - n \in Int /\ e \in Int /\ (m - n) + e = 1
  BY <1>6
<1>9. StoreGains(f, e)
  BY <1>2, <1>3, <1>4, <1>6, SliceGain DEF Protocol
<1> HIDE DEF m, n, e
<1>10. OpenGains(f, m - n)
  BY <1>2, <1>3, <1>5, <1>6, <1>7, <1>8, TcpGains
<1>11. /\ counted' = [counted EXCEPT ![f] = counted[f] + 1]
       /\ filed' = filed /\ leftOut' = leftOut
  BY <1>1, <1>2, ArrivalFrames
<1> QED  BY <1>2, <1>8, <1>9, <1>10, <1>11, GainsAreCounted

\* A session that is reported and erased moves into the ring.
LEMMA TcpEndFrames ==
  ASSUME UnInv, FrameInv, NEW k \in KeysOf(TcpFlow), k \in DOMAIN tMap,
         Store("tcp", Report(k[2], tSession[tMap[k]])), TcpErase(tMap[k]),
         UNCHANGED udpVars, counted' = counted, filed' = filed, leftOut' = leftOut
  PROVE  FrameInv'
<1> DEFINE p == tMap[k]
           x == tSession[p]
           r == Report(k[2], x)
           n == x.frCount
<1>1. k[2] \in Flow
  BY DEF KeysOf, Flow
<1>2. x \in SessionRec /\ <<x.src, x.dst>> \in Along(k[2])
  BY DEF UnInv, TcpFits, PoolFits, SessionsFit
<1>3. r \in ReportRec /\ r.flow = k[2] /\ r.frames = n
  BY <1>1, <1>2, ReportTyped DEF Report
<1>4. n = CountOf(tMap, tSession, k) /\ n \in Nat
  BY <1>2 DEF CountOf, SessionRec
<1>5. Store("tcp", r)
  OBVIOUS
<1>6. /\ p \in Positions /\ tIdx[p] = p /\ tKey[p] = k
      /\ \A g \in DOMAIN tMap : g # k => tMap[g] # p
      /\ \A g \in DOMAIN tMap : tMap[g] \in Positions
      /\ tSession \in [Positions -> SessionRec]
  BY DEF UnInv, TcpFits, PoolFits, SessionsFit
<1>7. tMap' = Removed(tMap, k) /\ tSession' = [tSession EXCEPT ![p] = Blank]
  BY <1>6 DEF TcpErase, TcpPool!Erase, TcpPool!Used, Removed
<1> HIDE DEF r, n, x, p
<1>8. OnlyChanges(tMap, tSession, tMap', tSession', k, 0)
  <2>1. /\ DOMAIN tMap' = DOMAIN tMap \ {k}
        /\ \A g \in DOMAIN tMap' : tMap'[g] = tMap[g]
    BY <1>7 DEF Removed
  <2>2. \A g \in DOMAIN tMap \ {k} : tSession'[tMap[g]] = tSession[tMap[g]]
    BY <1>6, <1>7
  <2> QED  BY <2>1, <2>2 DEF OnlyChanges, CountOf
<1>9. OpenGains(k[2], 0 - n)
  BY <1>4, <1>8, TcpGains
<1>10. StoreGains(k[2], n)
  <2>1. StoreGains(r.flow, r.frames)
    BY <1>3, <1>5, StoreGain DEF Protocol
  <2> QED  BY <1>3, <2>1
<1>11. 0 - n \in Int /\ n \in Int /\ (0 - n) + n = 0 /\ 0 \in Nat
  BY <1>4
<1>12. counted' = [counted EXCEPT ![k[2]] = counted[k[2]] + 0]
  BY <1>1 DEF FrameInv
<1> QED  BY <1>1, <1>9, <1>10, <1>11, <1>12, GainsAreCounted

LEMMA UdpNewFrames ==
  ASSUME UnInv, FrameInv, NEW f \in UdpFlow, NEW src \in Ends(f), NEW pLoad \in {0, 1},
         NEW t, UdpNew(f, src, pLoad, t)
  PROVE  FrameInv'
<1> DEFINE k == KeyOf(f, src)
           x == Fresh(src, OtherEnd(f, src), t)
           s == CountFrame(x, pLoad, t)
<1>1. t \in Int /\ Arrival(f, t)
  BY ArrivalStep DEF UdpNew
<1>2. k \in KeysOf(UdpFlow) /\ k[2] = f /\ f \in Flow
  BY KeyInMap DEF Flow
<1>3. x \in SessionRec /\ x.frCount = 0 /\ <<x.src, x.dst>> \in Along(f)
  <2>1. x \in SessionRec /\ <<x.src, x.dst>> \in Along(f)
    BY <1>1, <1>2, FreshTyped
  <2> QED  BY <2>1 DEF Fresh
<1>4. PICK p \in Positions :
        /\ UdpPool!Create(k, p)
        /\ uSession' = [uSession EXCEPT ![p] = Updated(s)]
  BY DEF UdpNew
<1>5. StoreSlice("udp", f, s) /\ UNCHANGED tcpVars
  BY DEF UdpNew
<1> HIDE DEF k, x
<1>6. /\ s \in SessionRec /\ s.src = x.src /\ s.dst = x.dst
      /\ s.frCount = 1
      /\ Updated(s).frCount = IF AtPktLimit(s) THEN 0 ELSE 1
  <2>1. s \in SessionRec /\ s.src = x.src /\ s.dst = x.dst
    BY <1>1, <1>3, CountedTyped
  <2>2. s.frCount = 1 /\ Updated(s).frCount = IF AtPktLimit(s) THEN 0 ELSE s.frCount
    BY <1>1, <1>3, PacketCounts
  <2> QED  BY <2>1, <2>2
<1> DEFINE m == Updated(s).frCount
           u == Updated(s)
<1>7. /\ k \notin DOMAIN uMap /\ p \notin uBits
      /\ uMap' = Added(uMap, k, p)
  BY <1>4 DEF UdpPool!Create, UdpPool!FreeIndex, UdpPool!Used, Added
<1> HIDE DEF s
<1>8. OnlyChanges(uMap, uSession, uMap', uSession', k, m)
  <2>1. /\ DOMAIN uMap' = DOMAIN uMap \cup {k} /\ uMap'[k] = p
        /\ \A g \in DOMAIN uMap : uMap'[g] = uMap[g] /\ g # k
    BY <1>7 DEF Added
  <2>2. \A g \in DOMAIN uMap : uMap[g] # p /\ uMap[g] \in Positions
    BY <1>7 DEF UnInv, UdpFits, PoolFits
  <2>3. /\ uSession \in [Positions -> SessionRec]
        /\ uSession' = [uSession EXCEPT ![p] = u]
    BY <1>4 DEF UnInv, UdpFits, SessionsFit
  <2> HIDE DEF u
  <2>4. uSession'[p] = u /\ \A g \in DOMAIN uMap : uSession'[uMap[g]] = uSession[uMap[g]]
    BY <2>2, <2>3
  <2>5. m = CountOf(uMap', uSession', k)
    BY <2>1, <2>4 DEF CountOf, u
  <2> QED  BY <2>1, <2>4, <2>5 DEF OnlyChanges
<1>9. OpenGains(f, m - 0)
  <2>1. 0 = CountOf(uMap, uSession, k)
    BY <1>7 DEF CountOf
  <2>2. m \in Nat /\ 0 \in Nat
    BY <1>6
  <2> HIDE DEF m
  <2> QED  BY <1>2, <1>5, <1>8, <2>1, <2>2, UdpGains
<1>10. StoreGains(f, IF AtPktLimit(s) THEN 1 ELSE 0)
  <2>1. StoreGains(f, IF AtPktLimit(s) THEN s.frCount ELSE 0)
    BY <1>2, <1>3, <1>5, <1>6, SliceGain DEF Protocol
  <2> QED  BY <1>6, <2>1
<1> DEFINE e == IF AtPktLimit(s) THEN 1 ELSE 0
<1>11. /\ m - 0 \in Int /\ e \in Int /\ (m - 0) + e = 1
  BY <1>6
<1>12. /\ counted' = [counted EXCEPT ![f] = counted[f] + 1]
       /\ filed' = filed /\ leftOut' = leftOut
  BY <1>1, <1>2, ArrivalFrames
<1>13. StoreGains(f, e)
  BY <1>10
<1> HIDE DEF m, e
<1> QED  BY <1>2, <1>9, <1>11, <1>12, <1>13, GainsAreCounted

LEMMA UdpKnownFrames ==
  ASSUME UnInv, FrameInv, NEW f \in UdpFlow, NEW src \in Ends(f), NEW pLoad \in {0, 1},
         NEW t, UdpKnown(f, src, pLoad, t)
  PROVE  FrameInv'
<1> DEFINE k == KeyOf(f, src)
           p == uMap[k]
           x == uSession[p]
           s == CountFrame(x, pLoad, t)
<1>1. t \in Int /\ Arrival(f, t)
  BY ArrivalStep DEF UdpKnown
<1>2. k \in KeysOf(UdpFlow) /\ k[2] = f /\ f \in Flow
  BY KeyInMap DEF Flow
<1>3. /\ k \in DOMAIN uMap /\ uSession' = [uSession EXCEPT ![p] = Updated(s)]
      /\ StoreSlice("udp", f, s)
      /\ uMap' = uMap /\ UNCHANGED tcpVars
  BY DEF UdpKnown, UdpPool!Used
<1>4. /\ p \in Positions /\ x \in SessionRec /\ <<x.src, x.dst>> \in Along(f)
      /\ \A g \in DOMAIN uMap : g # k => uMap[g] # p
      /\ \A g \in DOMAIN uMap : uMap[g] \in Positions
      /\ uSession \in [Positions -> SessionRec]
  BY <1>2, <1>3 DEF UnInv, UdpFits, PoolFits, SessionsFit
<1> DEFINE n == x.frCount
           u == Updated(s)
           m == Updated(s).frCount
           e == IF AtPktLimit(s) THEN s.frCount ELSE 0
<1>5. n = CountOf(uMap, uSession, k)
  BY <1>3 DEF CountOf
<1> HIDE DEF k, p, x
<1>6. /\ s \in SessionRec /\ s.src = x.src /\ s.dst = x.dst
      /\ s.frCount = n + 1 /\ n \in Nat
      /\ m = IF AtPktLimit(s) THEN 0 ELSE s.frCount
  BY <1>1, <1>4, CountedTyped, PacketCounts
<1> HIDE DEF s
<1>7. OnlyChanges(uMap, uSession, uMap', uSession', k, m)
  <2>1. uSession' = [uSession EXCEPT ![p] = u]
    BY <1>3
  <2> HIDE DEF u
  <2>2. /\ uSession'[p] = u
        /\ \A g \in DOMAIN uMap \ {k} : uSession'[uMap[g]] = uSession[uMap[g]]
    BY <1>4, <2>1
  <2>3. m = CountOf(uMap', uSession', k)
    BY <1>3, <2>2 DEF CountOf, u, p
  <2> QED  BY <1>3, <2>2, <2>3 DEF OnlyChanges
<1>8. m \in Nat /\ m - n \in Int /\ e \in Int /\ (m - n) + e = 1
  BY <1>6
<1>9. StoreGains(f, e)
  BY <1>2, <1>3, <1>4, <1>6, SliceGain DEF Protocol
<1> HIDE DEF m, n, e
<1>10. OpenGains(f, m - n)
  BY <1>2, <1>3, <1>5, <1>6, <1>7, <1>8, UdpGains
<1>11. /\ counted' = [counted EXCEPT ![f] = counted[f] + 1]
       /\ filed' = filed /\ leftOut' = leftOut
  BY <1>1, <1>2, ArrivalFrames
<1> QED  BY <1>2, <1>8, <1>9, <1>10, <1>11, GainsAreCounted

LEMMA UdpEndFrames ==
  ASSUME UnInv, FrameInv, NEW k \in KeysOf(UdpFlow), k \in DOMAIN uMap,
         Store("udp", Report(k[2], uSession[uMap[k]])), UdpErase(uMap[k]),
         UNCHANGED tcpVars, counted' = counted, filed' = filed, leftOut' = leftOut
  PROVE  FrameInv'
<1> DEFINE p == uMap[k]
           x == uSession[p]
           r == Report(k[2], x)
           n == x.frCount
<1>1. k[2] \in Flow
  BY DEF KeysOf, Flow
<1>2. x \in SessionRec /\ <<x.src, x.dst>> \in Along(k[2])
  BY DEF UnInv, UdpFits, PoolFits, SessionsFit
<1>3. r \in ReportRec /\ r.flow = k[2] /\ r.frames = n
  BY <1>1, <1>2, ReportTyped DEF Report
<1>4. n = CountOf(uMap, uSession, k) /\ n \in Nat
  BY <1>2 DEF CountOf, SessionRec
<1>5. Store("udp", r)
  OBVIOUS
<1>6. /\ p \in Positions /\ uIdx[p] = p /\ uKey[p] = k
      /\ \A g \in DOMAIN uMap : g # k => uMap[g] # p
      /\ \A g \in DOMAIN uMap : uMap[g] \in Positions
      /\ uSession \in [Positions -> SessionRec]
  BY DEF UnInv, UdpFits, PoolFits, SessionsFit
<1>7. uMap' = Removed(uMap, k) /\ uSession' = [uSession EXCEPT ![p] = Blank]
  BY <1>6 DEF UdpErase, UdpPool!Erase, UdpPool!Used, Removed
<1> HIDE DEF r, n, x, p
<1>8. OnlyChanges(uMap, uSession, uMap', uSession', k, 0)
  <2>1. /\ DOMAIN uMap' = DOMAIN uMap \ {k}
        /\ \A g \in DOMAIN uMap' : uMap'[g] = uMap[g]
    BY <1>7 DEF Removed
  <2>2. \A g \in DOMAIN uMap \ {k} : uSession'[uMap[g]] = uSession[uMap[g]]
    BY <1>6, <1>7
  <2> QED  BY <2>1, <2>2 DEF OnlyChanges, CountOf
<1>9. OpenGains(k[2], 0 - n)
  BY <1>4, <1>8, UdpGains
<1>10. StoreGains(k[2], n)
  <2>1. StoreGains(r.flow, r.frames)
    BY <1>3, <1>5, StoreGain DEF Protocol
  <2> QED  BY <1>3, <2>1
<1>11. 0 - n \in Int /\ n \in Int /\ (0 - n) + n = 0 /\ 0 \in Nat
  BY <1>4
<1>12. counted' = [counted EXCEPT ![k[2]] = counted[k[2]] + 0]
  BY <1>1 DEF FrameInv
<1> QED  BY <1>1, <1>9, <1>10, <1>11, <1>12, GainsAreCounted

LEMMA FrameSame ==
  ASSUME FrameInv, UNCHANGED <<tcpVars, udpVars, flStore, counted, filed, leftOut>>
  PROVE  FrameInv'
<1>1. UNCHANGED <<tMap, tSession, uMap, uSession>> /\ flStore' = flStore
  BY DEF tcpVars, udpVars
<1>2. \A f : OpenFrames(f)' = OpenFrames(f) /\ StoredFrames(f)' = StoredFrames(f)
  BY <1>1 DEF OpenFrames, FramesIn, StoredFrames, FramesAt, OfFlow, PlacesOf, At
<1> QED  BY <1>2 DEF FrameInv

\* What the flusher takes out of a slot it files or leaves out.
LEMMA DrainFrames ==
  ASSUME UnInv, FrameInv, FlDrain
  PROVE  FrameInv'
<1>1. /\ flStore \in [Protocol -> [Slots -> Seq(ReportRec)]] /\ lastIndex \in Slots
      /\ flStore' = [proto \in Protocol |-> [flStore[proto] EXCEPT ![lastIndex] = <<>>]]
      /\ UNCHANGED <<tcpVars, udpVars>> /\ counted' = counted
  BY ReadIndexIsSlot DEF UnInv, StoreFits, FlusherTimes, FlDrain, Protocol
<1>2. \A q \in Protocol : \A i \in Slots :
        flStore'[q][i] = IF i = lastIndex THEN <<>> ELSE flStore[q][i]
  BY <1>1
<1>3. \A f : OpenFrames(f)' = OpenFrames(f)
  BY <1>1 DEF OpenFrames, FramesIn, tcpVars, udpVars
<1>4. ASSUME NEW f \in Flow
      PROVE  LET d == Frames(OfFlow(f, lastIndex))
                 w == Frames(Kept(OfFlow(f, lastIndex)))
             IN  /\ d \in Nat /\ w \in Nat /\ d - w \in Nat
                 /\ IsFiniteSet(StoredFrames(f)')
                 /\ Cardinality(StoredFrames(f)') = Cardinality(StoredFrames(f)) - d
  <2> DEFINE S == StoredFrames(f)
             S2 == StoredFrames(f)'
             D == FramesAt(OfFlow(f, lastIndex))
             W == FramesAt(Kept(OfFlow(f, lastIndex)))
  <2>1. IsFiniteSet(S)
    BY DEF FrameInv
  <2>2. D \subseteq S
    BY <1>1 DEF StoredFrames, FramesAt
  <2>3. W \subseteq D
    BY DEF FramesAt, Kept
  <2>4. \A z : z \in S <=> HasFrame(flStore, f, z)
    BY StoredDef
  <2>5. \A z : z \in S2 <=> HasFrame(flStore', f, z)
    BY StoredDefNext
  <2>6. ASSUME NEW z \in D
        PROVE  \E x : z[1] = x /\ x[2] = lastIndex
    <3>1. PICK x \in OfFlow(f, lastIndex) : z \in {x} \X (1 .. At(x).frames)
      BY <2>6 DEF FramesAt
    <3>2. PICK q, k : q \in Protocol /\ k \in DOMAIN flStore[q][lastIndex] /\ x = <<q, lastIndex, k>>
      BY PlacesDef DEF OfFlow
    <3> QED  BY <3>1, <3>2
  <2>7. ASSUME NEW z \in S, z \notin D PROVE z \in S2
    <3>1. PICK q, i, k :
            /\ q \in Protocol /\ i \in Slots /\ k \in DOMAIN flStore[q][i]
            /\ flStore[q][i][k].flow = f
            /\ z \in {<<q, i, k>>} \X (1 .. flStore[q][i][k].frames)
      BY <2>4, <2>7 DEF HasFrame
    <3> DEFINE x == <<q, i, k>>
    <3>2. x \in PlacesOf(i) /\ At(x) = flStore[q][i][k]
      BY <3>1, PlacesDef DEF At
    <3>3. i # lastIndex
      <4> SUFFICES ASSUME i = lastIndex PROVE FALSE
        OBVIOUS
      <4>1. x \in OfFlow(f, lastIndex)
        BY <3>1, <3>2 DEF OfFlow
      <4>2. z \in {x} \X (1 .. At(x).frames)
        BY <3>1, <3>2
      <4> HIDE DEF x
      <4>3. z \in FramesAt(OfFlow(f, lastIndex))
        BY <4>1, <4>2 DEF FramesAt
      <4> QED  BY <2>7, <4>3
    <3>4. flStore'[q][i] = flStore[q][i]
      BY <1>2, <3>1, <3>3
    <3>5. HasFrame(flStore', f, z)
      BY <3>1, <3>4 DEF HasFrame
    <3> QED  BY <2>5, <3>5
  <2>8. ASSUME NEW z \in S2 PROVE z \in S /\ z \notin D
    <3>1. PICK q, i, k :
            /\ q \in Protocol /\ i \in Slots /\ k \in DOMAIN flStore'[q][i]
            /\ flStore'[q][i][k].flow = f
            /\ z \in {<<q, i, k>>} \X (1 .. flStore'[q][i][k].frames)
      BY <2>5, <2>8 DEF HasFrame
    <3>2. i # lastIndex
      <4> SUFFICES ASSUME i = lastIndex PROVE FALSE
        OBVIOUS
      <4>1. flStore'[q][i] = <<>>
        BY <1>2, <3>1
      <4> QED  BY <3>1, <4>1
    <3>3. flStore'[q][i] = flStore[q][i]
      BY <1>2, <3>1, <3>2
    <3>4. HasFrame(flStore, f, z)
      BY <3>1, <3>3 DEF HasFrame
    <3>5. z[1] = <<q, i, k>>
      BY <3>1
    <3>6. z \notin D
      BY <2>6, <3>2, <3>5
    <3> QED  BY <2>4, <3>4, <3>6
  <2> HIDE DEF S, S2, D, W
  <2>9. S2 = S \ D
    BY <2>7, <2>8
  <2>10. /\ IsFiniteSet(D) /\ IsFiniteSet(S \ D) /\ Cardinality(D) \in Nat
         /\ Cardinality(S \ D) = Cardinality(S) - Cardinality(D)
    BY <2>1, <2>2, TakePart
  <2>11. Cardinality(W) \in Nat /\ Cardinality(W) <= Cardinality(D)
    BY <2>3, <2>10, TakePart
  <2>12. Cardinality(D) - Cardinality(W) \in Nat
    BY <2>10, <2>11
  <2>13. /\ Frames(OfFlow(f, lastIndex)) = Cardinality(D)
         /\ Frames(Kept(OfFlow(f, lastIndex))) = Cardinality(W)
    BY DEF Frames, D, W
  <2> QED  BY <2>9, <2>10, <2>11, <2>12, <2>13 DEF S, S2
<1> DEFINE d(f) == Frames(OfFlow(f, lastIndex))
           w(f) == Frames(Kept(OfFlow(f, lastIndex)))
           v(f) == d(f) - w(f)
<1>5. /\ filed' = [f \in Flow |-> filed[f] + w(f)]
      /\ leftOut' = [f \in Flow |-> leftOut[f] + d(f) - w(f)]
  BY DEF FlDrain
<1>6. \A f \in Flow :
        /\ d(f) \in Nat /\ w(f) \in Nat /\ d(f) - w(f) \in Nat
        /\ IsFiniteSet(StoredFrames(f)')
        /\ Cardinality(StoredFrames(f)') = Cardinality(StoredFrames(f)) - d(f)
  BY <1>4
<1> HIDE DEF d, w
<1>7. /\ counted \in [Flow -> Nat] /\ filed \in [Flow -> Nat]
      /\ leftOut \in [Flow -> Nat]
  BY DEF FrameInv
<1>8. \A f \in Flow : filed[f] + w(f) \in Nat /\ leftOut[f] + d(f) - w(f) \in Nat
  <2> TAKE f \in Flow
  <2>1. filed[f] \in Nat /\ leftOut[f] \in Nat
    BY <1>7
  <2> QED  BY <1>6, <2>1
<1>9. counted' \in [Flow -> Nat] /\ filed' \in [Flow -> Nat] /\ leftOut' \in [Flow -> Nat]
  BY <1>1, <1>5, <1>7, <1>8
<1>10. ASSUME NEW f \in Flow
       PROVE  /\ IsFiniteSet(OpenFrames(f)') /\ IsFiniteSet(StoredFrames(f)')
              /\ counted'[f] = Cardinality(OpenFrames(f)')
                   + Cardinality(StoredFrames(f)') + filed'[f] + leftOut'[f]
  <2>1. IsFiniteSet(OpenFrames(f)') /\ IsFiniteSet(StoredFrames(f)')
    BY <1>3, <1>6 DEF FrameInv
  <2> DEFINE a == Cardinality(OpenFrames(f))
             b == Cardinality(StoredFrames(f))
             b2 == Cardinality(StoredFrames(f)')
  <2>2. a \in Nat /\ b \in Nat /\ counted[f] = a + b + filed[f] + leftOut[f]
    BY CardsTyped DEF FrameInv
  <2>3. b2 = b - d(f) /\ d(f) \in Nat /\ w(f) \in Nat
    BY <1>6
  <2>4. /\ filed'[f] = filed[f] + w(f) /\ leftOut'[f] = leftOut[f] + d(f) - w(f)
        /\ filed[f] \in Nat /\ leftOut[f] \in Nat
    BY <1>5, <1>7
  <2>5. Cardinality(OpenFrames(f)') = a
    BY <1>3
  <2> HIDE DEF a, b, b2
  <2>6. counted[f] = a + b2 + filed'[f] + leftOut'[f]
    BY <2>2, <2>3, <2>4
  <2> QED  BY <1>1, <2>1, <2>5, <2>6 DEF b2
<1> QED  BY <1>9, <1>10 DEF FrameInv

LEMMA FrameInvInit == Init => FrameInv
<1> SUFFICES ASSUME Init PROVE FrameInv
  OBVIOUS
<1>1. DOMAIN tMap = {} /\ DOMAIN uMap = {}
  BY DEF Init, TcpPool!PoolInit, UdpPool!PoolInit
<1>2. \A f : OpenFrames(f) = {}
  BY <1>1 DEF OpenFrames, FramesIn
<1>3. \A f : StoredFrames(f) = {}
  <2>1. \A f, z : ~ HasFrame(flStore, f, z)
    <3>1. \A q \in Protocol : \A i \in Slots : DOMAIN flStore[q][i] = {}
      BY DEF Init, Protocol
    <3> QED  BY <3>1 DEF HasFrame
  <2> QED  BY <2>1, StoredDef
<1>4. IsFiniteSet({}) /\ Cardinality({}) = 0
  BY FS_EmptySet
<1>5. /\ counted = [f \in Flow |-> 0] /\ filed = [f \in Flow |-> 0]
      /\ leftOut = [f \in Flow |-> 0]
  BY DEF Init
<1> QED  BY <1>2, <1>3, <1>4, <1>5 DEF FrameInv

LEMMA FrameInvStep == UnInv /\ FrameInv /\ [Next]_vars => FrameInv'
<1> SUFFICES ASSUME UnInv, FrameInv, [Next]_vars PROVE FrameInv'
  OBVIOUS
<1>1. CASE Packet
  BY <1>1, TcpNewFrames, TcpKnownFrames, UdpNewFrames, UdpKnownFrames DEF Packet
<1>2. CASE \E f \in TcpFlow : \E src \in Ends(f) : TcpFin(f, src)
  <2>1. PICK f, src : f \in TcpFlow /\ src \in Ends(f) /\ TcpFin(f, src)
    BY <1>2
  <2> DEFINE k == KeyOf(f, src)
  <2>2. k \in KeysOf(TcpFlow) /\ k[2] = f
    BY <2>1, KeyInMap DEF Flow
  <2>3. /\ k \in DOMAIN tMap /\ Store("tcp", Report(f, tSession[tMap[k]]))
        /\ TcpErase(tMap[k]) /\ UNCHANGED udpVars
        /\ counted' = counted /\ filed' = filed /\ leftOut' = leftOut
    BY <2>1 DEF TcpFin, TcpPool!Used, history
  <2> HIDE DEF k
  <2> QED  BY <2>2, <2>3, TcpEndFrames
<1>3. ASSUME NEW k \in KeysOf(TcpFlow), TcpClean(k) PROVE FrameInv'
  <2>1. /\ k \in DOMAIN tMap /\ UNCHANGED udpVars
        /\ counted' = counted /\ filed' = filed /\ leftOut' = leftOut
    BY <1>3 DEF TcpClean, UnInv, TodoFits, history
  <2>2. CASE TimedOut(tSession[tMap[k]], TCP_CLEAN_UP_TIMEOUT_SEC)
    BY <1>3, <2>1, <2>2, TcpEndFrames DEF TcpClean
  <2>3. CASE ~ TimedOut(tSession[tMap[k]], TCP_CLEAN_UP_TIMEOUT_SEC)
    BY <1>3, <2>1, <2>3, FrameSame DEF TcpClean
  <2> QED  BY <2>2, <2>3
<1>4. ASSUME NEW k \in KeysOf(UdpFlow), UdpClean(k) PROVE FrameInv'
  <2>1. /\ k \in DOMAIN uMap /\ UNCHANGED tcpVars
        /\ counted' = counted /\ filed' = filed /\ leftOut' = leftOut
    BY <1>4 DEF UdpClean, UnInv, TodoFits, history
  <2>2. CASE TimedOut(uSession[uMap[k]], UDP_CLEAN_UP_TIMEOUT_SEC)
    BY <1>4, <2>1, <2>2, UdpEndFrames DEF UdpClean
  <2>3. CASE ~ TimedOut(uSession[uMap[k]], UDP_CLEAN_UP_TIMEOUT_SEC)
    BY <1>4, <2>1, <2>3, FrameSame DEF UdpClean
  <2> QED  BY <2>2, <2>3
<1>5. CASE StartScan \/ Tick \/ FlIndex \/ FlMinute \/ FlSleep
  BY <1>5, FrameSame DEF StartScan, Tick, FlIndex, FlMinute, FlSleep, history
<1>6. CASE FlDrain
  BY <1>6, DrainFrames
<1>7. CASE UNCHANGED vars
  BY <1>7, FrameSame DEF vars, history
<1> QED  BY <1>1, <1>2, <1>3, <1>4, <1>5, <1>6, <1>7 DEF Next, Scan, Flusher

(* From session to file no frame of unknown traffic is lost or written     *)
(* twice, for any flows, pools, limits and time-outs, however FINs, slices,*)
(* scans and the flusher's rounds follow each other, and the pools stay in *)
(* order (UnTcpInterface, UnUdpInterface, UnFlusher::run).                 *)
THEOREM UnmappedLosesNoFrame == Spec => []FramesInPipeline
<1>1. Spec => [](UnInv /\ FrameInv)
  BY UnInvInit, UnInvStep, FrameInvInit, FrameInvStep, PTL DEF Spec
<1>2. UnInv /\ FrameInv => FramesInPipeline
  BY DEF FrameInv, FramesInPipeline, UnInv, TcpFits, UdpFits, PoolFits, Positions,
         TcpPool!PoolConsistent, TcpPool!Used, TcpPool!Pos,
         UdpPool!PoolConsistent, UdpPool!Used, UdpPool!Pos
<1> QED  BY <1>1, <1>2, PTL

-----------------------------------------------------------------------------
(* The pools of addresses.                                                 *)

LEMMA SwapEnds ==
  ASSUME NEW a, NEW b
  PROVE  Swap(<<a, b>>) = <<b, a>> /\ <<a, b>>[1] = a /\ <<a, b>>[2] = b
BY DEF Swap

\* If one end is in a pool and the other in none, the line has the same
\* source whichever of them sent the packet.
LEMMA OrientedAlike ==
  ASSUME NEW a, NEW b, Classified(a), ~ Classified(b)
  PROVE  Oriented(a, b)[1] = Oriented(b, a)[1]
<1> DEFINE P(x) == checkPeeringDestIp(x)
           U(x) == check_UnknownSourceIP(x)
           C(x) == check_CacheIpPool(x)
<1>1. ~ P(b) /\ ~ U(b) /\ ~ C(b)
  BY DEF Classified
<1>2. Oriented(b, a)[1] = IF U(a) /\ ~ C(a) THEN a ELSE b
  BY <1>1, SwapEnds DEF Oriented
<1>3. Oriented(a, b)[1] = IF U(a) /\ ~ C(a) THEN a ELSE b
  BY <1>1, SwapEnds DEF Oriented, Classified
<1> QED  BY <1>2, <1>3

LEMMA OneSourceOf ==
  ASSUME NEW f, Classified(f[2]) # Classified(f[3])
  PROVE  SourcesOf(f) = {Oriented(f[2], f[3])[1]}
<1>1. Oriented(f[2], f[3])[1] = Oriented(f[3], f[2])[1]
  <2>1. CASE Classified(f[2]) /\ ~ Classified(f[3])
    BY <2>1, OrientedAlike
  <2>2. CASE Classified(f[3]) /\ ~ Classified(f[2])
    BY <2>2, OrientedAlike
  <2> QED  BY <2>1, <2>2 DEF Classified
<1> DEFINE d == <<f[2], f[3]>>
           e == <<f[3], f[2]>>
<1>2. d[1] = f[2] /\ d[2] = f[3] /\ e[1] = f[3] /\ e[2] = f[2] /\ Along(f) = {d, e}
  BY DEF Along
<1> HIDE DEF d, e
<1> QED  BY <1>1, <1>2 DEF SourcesOf

(* All lines of a flow name the same end as the source, whichever way its  *)
(* packets went, if just one of its ends is in a pool of addresses         *)
(* (UnFlusher::buildTcpXdr and buildUdpXdr).                               *)
THEOREM LinesAgreeOnSource == Spec => []OrientationAgrees
<1>1. UnInv => OrientationAgrees
  <2> SUFFICES ASSUME UnInv, NEW f \in Flow, Classified(f[2]) # Classified(f[3])
               PROVE  Cardinality(sources[f]) <= 1
    BY DEF OrientationAgrees
  <2> DEFINE o == {Oriented(f[2], f[3])[1]}
  <2>1. sources[f] \subseteq o
    BY OneSourceOf DEF UnInv, SourcesFit
  <2>2. IsFiniteSet(o) /\ Cardinality(o) = 1
    BY FS_Singleton
  <2> HIDE DEF o
  <2>3. Cardinality(sources[f]) <= Cardinality(o)
    BY <2>1, <2>2, FS_Subset
  <2> QED  BY <2>2, <2>3
<1> QED  BY <1>1, UnInvAlways, PTL

(* A report never goes to the file of a minute that was over when it was   *)
(* flushed, nor further ahead than the flusher may lag, however its        *)
(* reading of index and minute falls between the ticks of the clock        *)
(* (UnFlusher::run).                                                       *)
THEOREM ReportsNearTheirMinute == Spec => []FileFits
<1>1. UnInv => FileFits
  BY DEF UnInv
<1> QED  BY <1>1, UnInvAlways, PTL

(* Map, bits and objects of both pools always agree, though TCP and UDP    *)
(* share the thread and the scan (UnTcpInterface and UnUdpInterface).      *)
THEOREM UnmappedPoolsConsistent ==
  Spec => [](TcpPool!PoolConsistent /\ UdpPool!PoolConsistent)
<1>1. UnInv => TcpPool!PoolConsistent /\ UdpPool!PoolConsistent
  BY DEF UnInv, TcpFits, UdpFits, PoolFits, Positions,
         TcpPool!PoolConsistent, TcpPool!Used, TcpPool!Pos,
         UdpPool!PoolConsistent, UdpPool!Used, UdpPool!Pos
<1> QED  BY <1>1, UnInvAlways, PTL
=============================================================================
