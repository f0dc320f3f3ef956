--------------------------- MODULE DnsSessionProofs ---------------------------
(***************************************************************************)
(* The DNS session manager, for any transactions and keys, any pool, any   *)
(* time-outs and any lag: it joins halves the way HalfJoin does, keeps no  *)
(* half longer than the time-out and one scan period, and reports every    *)
(* transaction of its own key whose halves come in time.                   *)
(***************************************************************************)
EXTENDS DnsSession, SessionPoolProofs

\* A session holds a half.
Holds(s) ==
  \/ s.state = "QUERY" /\ s.query \in Tx
  \/ s.state = "RESPONSE" /\ s.response \in Tx

\* The last scan would have taken what was due then.
Timely(s, scan) == Stamp(s) > 0 /\ scan - Stamp(s) <= DNS_CLEAN_UP_TIMEOUT_SEC

SessionsInv ==
  \A f \in Used : /\ Holds(session[sessionMap[f]])
                  /\ Timely(session[sessionMap[f]], lastScan)

ClockInv ==
  /\ now >= FirstSec
  /\ now >= lastScan /\ now - lastScan <= SESSION_SCAN_FREQ_SEC

\* What was handled was handled before now, and not long after its stamp.
OccasionsInv ==
  \A x \in Tx :
    /\ asked[x] # Never => asked[x].at <= now /\ asked[x].at - asked[x].stamp <= MaxLag
    /\ answered[x] # Never =>
         answered[x].at <= now /\ answered[x].at - answered[x].stamp <= MaxLag

\* A half of that occasion may be gone.
Expired(o) == o.stamp > o.at \/ now - o.stamp > DNS_CLEAN_UP_TIMEOUT_SEC

QueryKept(x) ==
  /\ KeyOf[x] \in Used
  /\ session[sessionMap[KeyOf[x]]].state = "QUERY"
  /\ session[sessionMap[KeyOf[x]]].query = x
  /\ session[sessionMap[KeyOf[x]]].queryStart = asked[x].stamp

ResponseKept(x) ==
  /\ KeyOf[x] \in Used
  /\ session[sessionMap[KeyOf[x]]].state = "RESPONSE"
  /\ session[sessionMap[KeyOf[x]]].response = x
  /\ session[sessionMap[KeyOf[x]]].queryEnd = answered[x].stamp

\* Where a transaction with a key of its own is.
Traced(x) ==
  /\ asked[x] = Never /\ answered[x] = Never => KeyOf[x] \notin Used
  /\ asked[x] # Never /\ answered[x] = Never /\ x \notin refused =>
       QueryKept(x) \/ Expired(asked[x])
  /\ asked[x] = Never /\ answered[x] # Never /\ x \notin refused =>
       ResponseKept(x) \/ Expired(answered[x])
  /\ /\ x \notin refused
     /\ asked[x] # Never /\ answered[x] # Never
     /\ InTime(asked[x], answered[x]) \/ InTime(answered[x], asked[x])
     => <<x, x>> \in paired

TracedInv == \A x \in Tx : Alone(x) => Traced(x)

Inv ==
  /\ PoolInv /\ TypeOK
  /\ SessionsInv /\ ClockInv /\ OccasionsInv /\ TracedInv

-----------------------------------------------------------------------------
(* The constants.                                                          *)
LEMMA Constants ==
  /\ DNS_CLEAN_UP_TIMEOUT_SEC \in Nat /\ MaxLag \in Nat /\ MaxSkew \in Nat
  /\ FirstSec \in Nat /\ FirstSec > DNS_CLEAN_UP_TIMEOUT_SEC + MaxLag
  /\ MaxLag <= DNS_CLEAN_UP_TIMEOUT_SEC
  /\ SESSION_SCAN_FREQ_SEC \in Nat /\ SESSION_SCAN_FREQ_SEC > 0
BY DnsSessionAssumption

(* A transaction has a key.                                                *)
LEMMA KeyType == ASSUME NEW x \in Tx PROVE KeyOf[x] \in Flow /\ x # NoTx
BY DnsSessionAssumption

(* A time stamp is a number, and tells "handled" from "never".             *)
LEMMA StampOfArrival ==
  ASSUME Inv, NEW t \in (now - MaxLag) .. (now + MaxSkew)
  PROVE  /\ t \in Nat /\ t > 0
         /\ [at |-> now, stamp |-> t] \in Occasion
         /\ [at |-> now, stamp |-> t] # Never
         /\ now - t <= MaxLag
         /\ lastScan - t <= DNS_CLEAN_UP_TIMEOUT_SEC
<1>1. now \in Nat /\ lastScan \in Nat /\ now >= FirstSec /\ now >= lastScan
  BY DEF Inv, TypeOK, ClockInv
<1>2. t \in Nat /\ t > 0 /\ now # 0 /\ now - t <= MaxLag
      /\ lastScan - t <= DNS_CLEAN_UP_TIMEOUT_SEC
  BY <1>1, Constants
<1> QED
  BY <1>1, <1>2 DEF Occasion, Never

-----------------------------------------------------------------------------
(* What happens to pool and sessions.                                      *)

(* A session is opened.                                                    *)
LEMMA OpenEffect ==
  ASSUME Inv, NEW k \in Flow, NEW s \in Session, NEW p \in Pos,
         Create(k, p), session' = [session EXCEPT ![p] = s]
  PROVE  /\ PoolInv'
         /\ session' \in [Pos -> Session]
         /\ k \notin Used /\ Used' = Used \cup {k}
         /\ session'[sessionMap'[k]] = s
         /\ \A f \in Used : session'[sessionMap'[f]] = session[sessionMap[f]]
         /\ Waiting' = [Waiting EXCEPT ![k] = HalfOf(s)]
<1>1. PoolInv'
  BY CreateKeepsInv DEF Inv
<1>2. /\ k \notin Used /\ p \notin bitFlags
      /\ sessionMap' = [g \in Used \cup {k} |-> IF g = k THEN p ELSE sessionMap[g]]
  BY DEF Create, FreeIndex
<1>3. Used' = Used \cup {k}
  BY <1>2 DEF Used
<1>4. session \in [Pos -> Session]
  BY DEF Inv, TypeOK
<1>5. sessionMap'[k] = p /\ \A f \in Used : sessionMap'[f] = sessionMap[f]
  BY <1>2
<1>6. \A f \in Used : sessionMap[f] \in bitFlags /\ sessionMap[f] \in Pos
  BY DEF Inv, PoolInv, PoolConsistent, PoolTypeOK
<1>7. session'[p] = s
  BY <1>4
<1>8. \A f \in Used : session'[sessionMap[f]] = session[sessionMap[f]]
  BY <1>2, <1>4, <1>6
<1>9. session'[sessionMap'[k]] = s
  BY <1>5, <1>7
<1>10. \A f \in Used : session'[sessionMap'[f]] = session[sessionMap[f]]
  BY <1>5, <1>8
<1>11. session' \in [Pos -> Session]
  BY <1>4
<1>12. Waiting' = [Waiting EXCEPT ![k] = HalfOf(s)]
  <2>1. \A f \in Flow : Waiting'[f] = IF f = k THEN HalfOf(s) ELSE Waiting[f]
    <3> SUFFICES ASSUME NEW f \in Flow
                 PROVE  Waiting'[f] = IF f = k THEN HalfOf(s) ELSE Waiting[f]
      OBVIOUS
    <3>1. CASE f = k
      BY <1>3, <1>9, <3>1 DEF Waiting, HalfOf
    <3>2. CASE f # k /\ f \in Used
      BY <1>3, <1>10, <3>2 DEF Waiting, HalfOf
    <3>3. CASE f # k /\ f \notin Used
      BY <1>3, <3>3 DEF Waiting
    <3> QED
      BY <3>1, <3>2, <3>3
  <2>2. /\ Waiting = [f \in Flow |-> Waiting[f]]
        /\ Waiting' = [f \in Flow |-> Waiting'[f]]
    BY DEF Waiting
  <2> QED
    BY <2>1, <2>2
<1> QED
  BY <1>1, <1>2, <1>3, <1>9, <1>10, <1>11, <1>12

(* Sessions are released.                                                  *)
LEMMA ReleaseEffect ==
  ASSUME Inv, NEW F \in SUBSET Used, Release(F)
  PROVE  /\ PoolInv'
         /\ session' \in [Pos -> Session]
         /\ Used' = Used \ F
         /\ \A f \in Used \ F : session'[sessionMap'[f]] = session[sessionMap[f]]
         /\ Waiting' = [f \in Flow |-> IF f \in F THEN NoTx ELSE Waiting[f]]
<1> DEFINE P == {sessionMap[f] : f \in F}
<1>1. /\ session' = [p \in Pos |-> IF p \in P THEN Fresh ELSE session[p]]
      /\ key' = [p \in Pos |-> IF p \in P THEN NoFlow ELSE key[p]]
      /\ bitFlags' = bitFlags \ P
      /\ sessionMap' = [f \in Used \ F |-> sessionMap[f]]
      /\ freeBitPos' = freeBitPos /\ poolIndex' = poolIndex
  BY DEF Release
<1>2. PoolTypeOK /\ PoolConsistent
  BY DEF Inv, PoolInv
<1>3. Used' = Used \ F /\ \A f \in Used \ F : sessionMap'[f] = sessionMap[f]
  BY <1>1 DEF Used
<1>4. \A f \in Used : sessionMap[f] \in P <=> f \in F
  BY <1>2 DEF PoolConsistent
<1>5. Fresh \in Session
  BY DEF Fresh, Session
<1>6. session' \in [Pos -> Session]
  BY <1>1, <1>5 DEF Inv, TypeOK
<1>7. \A f \in Used \ F : session'[sessionMap'[f]] = session[sessionMap[f]]
  BY <1>1, <1>2, <1>3, <1>4 DEF PoolTypeOK
<1>8. PoolTypeOK'
  <2>1. sessionMap' \in [Used' -> Pos]
    BY <1>1, <1>2, <1>3 DEF PoolTypeOK
  <2> QED
    BY <1>1, <1>2, <1>3, <2>1 DEF PoolTypeOK
<1>9. PoolConsistent'
  <2>1. \A f \in Used' : sessionMap'[f] \in bitFlags' /\ key'[sessionMap'[f]] = f
    BY <1>1, <1>2, <1>3, <1>4 DEF PoolConsistent, PoolTypeOK
  <2>2. ASSUME NEW p \in bitFlags'
        PROVE  key'[p] \in Used' /\ sessionMap'[key'[p]] = p
    <3>1. p \in bitFlags /\ p \notin P /\ p \in Pos
      BY <1>1, <1>2 DEF PoolTypeOK
    <3>2. key'[p] = key[p]
      BY <1>1, <3>1
    <3>3. key[p] \in Used /\ sessionMap[key[p]] = p
      BY <1>2, <3>1 DEF PoolConsistent
    <3>4. key[p] \notin F
      BY <3>1, <3>3
    <3> QED
      BY <1>3, <3>2, <3>3, <3>4
  <2>3. \A p \in Pos : poolIndex'[p] = p
    BY <1>1, <1>2 DEF PoolConsistent
  <2> QED
    BY <2>1, <2>2, <2>3 DEF PoolConsistent
<1>10. Waiting' = [f \in Flow |-> IF f \in F THEN NoTx ELSE Waiting[f]]
  BY <1>3, <1>7 DEF Waiting, HalfOf
<1> QED
  BY <1>3, <1>6, <1>7, <1>8, <1>9, <1>10 DEF PoolInv

-----------------------------------------------------------------------------
(* Where transactions are.                                                 *)

(* A half that may be gone is not in time for one that comes now.          *)
LEMMA ExpiredIsLate ==
  ASSUME Inv, NEW a \in Occasion, NEW o \in Occasion, Expired(a), o.at = now,
         a.at <= now, a.at - a.stamp <= MaxLag
  PROVE  ~ InTime(a, o) /\ ~ InTime(o, a)
<1>1. now \in Nat /\ a.at \in Nat /\ a.stamp \in Nat /\ o.stamp \in Nat
  BY DEF Inv, TypeOK, Occasion
<1> QED
  BY <1>1, Constants DEF Expired, InTime

(* A step that leaves a transaction alone, and its session too unless that *)
(* has timed out, leaves it traced.                                        *)
LEMMA TracedElsewhere ==
  ASSUME Inv, NEW x \in Tx, Alone(x),
         now' \in Nat, now' >= now,
         asked'[x] = asked[x], answered'[x] = answered[x],
         x \in refused' <=> x \in refused, paired \subseteq paired',
         KeyOf[x] \in Used' => KeyOf[x] \in Used,
         KeyOf[x] \in Used =>
           \/ /\ KeyOf[x] \in Used'
              /\ session'[sessionMap'[KeyOf[x]]] = session[sessionMap[KeyOf[x]]]
           \/ TimedOut(session[sessionMap[KeyOf[x]]])
  PROVE  Traced(x)'
<1> DEFINE s == session[sessionMap[KeyOf[x]]]
<1>1. Traced(x)
  BY DEF Inv, TracedInv
<1>2. now \in Nat /\ asked[x] \in Occasion /\ answered[x] \in Occasion
  BY DEF Inv, TypeOK
<1>3. /\ asked[x] # Never => asked[x].at <= now
      /\ answered[x] # Never => answered[x].at <= now
  BY DEF Inv, OccasionsInv
<1>5. ASSUME asked[x] # Never, QueryKept(x) PROVE QueryKept(x)' \/ Expired(asked[x])'
  <2>1. CASE /\ KeyOf[x] \in Used'
             /\ session'[sessionMap'[KeyOf[x]]] = session[sessionMap[KeyOf[x]]]
    BY <2>1, <1>5 DEF QueryKept
  <2>2. CASE TimedOut(session[sessionMap[KeyOf[x]]])
    <3>1. Stamp(s) = asked[x].stamp
      BY <1>5 DEF QueryKept, Stamp
    <3>2. Expired(asked[x])
      BY <1>2, <1>3, <1>5, <2>2, <3>1, Constants DEF TimedOut, Expired, Occasion
    <3>3. Expired(asked[x])'
      BY <1>2, <3>2, Constants DEF Expired, Occasion
    <3> QED
      BY <3>3
  <2> QED
    BY <1>5, <2>1, <2>2 DEF QueryKept
<1>6. ASSUME answered[x] # Never, ResponseKept(x)
      PROVE  ResponseKept(x)' \/ Expired(answered[x])'
  <2>1. CASE /\ KeyOf[x] \in Used'
             /\ session'[sessionMap'[KeyOf[x]]] = session[sessionMap[KeyOf[x]]]
    BY <2>1, <1>6 DEF ResponseKept
  <2>2. CASE TimedOut(session[sessionMap[KeyOf[x]]])
    <3>1. Stamp(s) = answered[x].stamp
      BY <1>6 DEF ResponseKept, Stamp
    <3>2. Expired(answered[x])
      BY <1>2, <1>3, <1>6, <2>2, <3>1, Constants DEF TimedOut, Expired, Occasion
    <3>3. Expired(answered[x])'
      BY <1>2, <3>2, Constants DEF Expired, Occasion
    <3> QED
      BY <3>3
  <2> QED
    BY <1>6, <2>1, <2>2 DEF ResponseKept
<1>7. /\ Expired(asked[x]) => Expired(asked[x])'
      /\ Expired(answered[x]) => Expired(answered[x])'
  BY <1>2, Constants DEF Expired, Occasion
<1> QED
  BY <1>1, <1>5, <1>6, <1>7 DEF Traced, InTime

(* A half of x is handled now: everything but the session of its key, and  *)
(* what is known of x, stays as it is.                                     *)
LEMMA TracedOthers ==
  ASSUME Inv, NEW x \in Tx, now' = now, refused' \in {refused, refused \cup {x}},
         paired \subseteq paired',
         \A y \in Tx \ {x} : asked'[y] = asked[y] /\ answered'[y] = answered[y],
         \A f \in Flow \ {KeyOf[x]} :
           /\ f \in Used' <=> f \in Used
           /\ f \in Used => session'[sessionMap'[f]] = session[sessionMap[f]],
         Alone(x) => Traced(x)'
  PROVE  TracedInv'
<1> SUFFICES ASSUME NEW y \in Tx, Alone(y) PROVE Traced(y)'
  BY DEF TracedInv, Alone
<1>1. CASE y = x
  BY <1>1
<1>2. CASE y # x
  <2>1. KeyOf[y] \in Flow \ {KeyOf[x]}
    BY <1>2, KeyType DEF Alone
  <2>2. now' \in Nat /\ now' >= now
    BY DEF Inv, TypeOK
  <2>3. y \in refused' <=> y \in refused
    BY <1>2
  <2>4. asked'[y] = asked[y] /\ answered'[y] = answered[y]
    BY <1>2
  <2>5. /\ KeyOf[y] \in Used' <=> KeyOf[y] \in Used
        /\ KeyOf[y] \in Used =>
             session'[sessionMap'[KeyOf[y]]] = session[sessionMap[KeyOf[y]]]
    BY <2>1
  <2> QED
    BY <2>2, <2>3, <2>4, <2>5, TracedElsewhere
<1> QED
  BY <1>1, <1>2

(* A query is seen.                                                        *)
LEMMA QuerySeen ==
  ASSUME Inv, NEW x \in Tx, NEW o \in Occasion, o # Never, asked[x] = Never,
         asked' = [asked EXCEPT ![x] = o], answered' = answered
  PROVE  /\ Halves!See("request", x)
         /\ asked' \in [Tx -> Occasion]
         /\ \A y \in Tx : asked'[y] = IF y = x THEN o ELSE asked[y]
<1>1. asked \in [Tx -> Occasion]
  BY DEF Inv, TypeOK
<1>2. \A y \in Tx : asked'[y] = IF y = x THEN o ELSE asked[y]
  BY <1>1
<1>3. <<"request", x>> \notin Seen
  BY DEF Seen
<1>4. ASSUME NEW h \in {"request", "response"} \X Tx
      PROVE  h \in Seen' <=> (h \in Seen \/ h = <<"request", x>>)
  <2>1. PICK d \in {"request", "response"}, y \in Tx : h = <<d, y>>
    OBVIOUS
  <2>2. (h \in Seen' <=> \/ d = "request" /\ asked'[y] # Never
                         \/ d = "response" /\ answered'[y] # Never)
    BY <2>1 DEF Seen
  <2>3. (h \in Seen <=> \/ d = "request" /\ asked[y] # Never
                        \/ d = "response" /\ answered[y] # Never)
    BY <2>1 DEF Seen
  <2> QED
    BY <1>2, <2>1, <2>2, <2>3
<1>5. /\ <<"request", x>> \in {"request", "response"} \X Tx
      /\ Seen \subseteq {"request", "response"} \X Tx
      /\ Seen' \subseteq {"request", "response"} \X Tx
  BY DEF Seen
<1>6. Seen' = Seen \cup {<<"request", x>>}
  BY <1>4, <1>5
<1> QED
  BY <1>1, <1>2, <1>3, <1>6 DEF Halves!See

(* A response is seen.                                                     *)
LEMMA AnswerSeen ==
  ASSUME Inv, NEW x \in Tx, NEW o \in Occasion, o # Never, answered[x] = Never,
         answered' = [answered EXCEPT ![x] = o], asked' = asked
  PROVE  /\ Halves!See("response", x)
         /\ answered' \in [Tx -> Occasion]
         /\ \A y \in Tx : answered'[y] = IF y = x THEN o ELSE answered[y]
<1>1. answered \in [Tx -> Occasion]
  BY DEF Inv, TypeOK
<1>2. \A y \in Tx : answered'[y] = IF y = x THEN o ELSE answered[y]
  BY <1>1
<1>3. <<"response", x>> \notin Seen
  BY DEF Seen
<1>4. ASSUME NEW h \in {"request", "response"} \X Tx
      PROVE  h \in Seen' <=> (h \in Seen \/ h = <<"response", x>>)
  <2>1. PICK d \in {"request", "response"}, y \in Tx : h = <<d, y>>
    OBVIOUS
  <2>2. (h \in Seen' <=> \/ d = "response" /\ answered'[y] # Never
                         \/ d = "request" /\ asked'[y] # Never)
    BY <2>1 DEF Seen
  <2>3. (h \in Seen <=> \/ d = "response" /\ answered[y] # Never
                        \/ d = "request" /\ asked[y] # Never)
    BY <2>1 DEF Seen
  <2> QED
    BY <1>2, <2>1, <2>2, <2>3
<1>5. /\ <<"response", x>> \in {"request", "response"} \X Tx
      /\ Seen \subseteq {"request", "response"} \X Tx
      /\ Seen' \subseteq {"request", "response"} \X Tx
  BY DEF Seen
<1>6. Seen' = Seen \cup {<<"response", x>>}
  BY <1>4, <1>5
<1> QED
  BY <1>1, <1>2, <1>3, <1>6 DEF Halves!See

-----------------------------------------------------------------------------
(* Each action keeps the invariant and is a step of HalfJoin.              *)

(* A query.                                                                *)
LEMMA QueryStep ==
  ASSUME Inv, NEW x \in Tx, NEW t \in (now - MaxLag) .. (now + MaxSkew), Query(x, t)
  PROVE  Inv' /\ Halves!Come("request", x)
<1> DEFINE o == [at |-> now, stamp |-> t]
           k == KeyOf[x]
           s == session[sessionMap[k]]
           n == Request(Fresh, x, t)
<1>1. /\ t \in Nat /\ t > 0 /\ o \in Occasion /\ o # Never /\ now - t <= MaxLag
      /\ lastScan - t <= DNS_CLEAN_UP_TIMEOUT_SEC
  BY StampOfArrival
<1>2. k \in Flow /\ x # NoTx
  BY KeyType
<1>3. /\ asked[x] = Never /\ asked' = [asked EXCEPT ![x] = o]
      /\ answered' = answered /\ now' = now /\ lastScan' = lastScan
      /\ unanswered' = unanswered
  BY DEF Query, Arrival
<1>4. /\ PoolInv /\ PoolTypeOK /\ session \in [Pos -> Session]
      /\ now \in Nat /\ lastScan \in Nat
      /\ answered \in [Tx -> Occasion] /\ refused \subseteq Tx
      /\ paired \subseteq Tx \X Tx /\ unanswered \subseteq Tx
  BY DEF Inv, TypeOK, PoolInv
<1>5. /\ Halves!See("request", x)
      /\ asked' \in [Tx -> Occasion]
      /\ \A y \in Tx : asked'[y] = IF y = x THEN o ELSE asked[y]
  BY <1>1, <1>3, QuerySeen
<1>6. ClockInv'
  BY <1>3 DEF Inv, ClockInv
<1>7. OccasionsInv'
  <2>1. o.at = now /\ o.stamp = t
    OBVIOUS
  <2>2. o.at <= now
    BY <1>4, <2>1
  <2> HIDE DEF o
  <2> QED
    BY <1>1, <1>3, <1>5, <2>1, <2>2 DEF Inv, OccasionsInv
\* A response that is there has not had its chance, or is still here.
<1>8. ASSUME Alone(x), answered[x] # Never, x \notin refused
      PROVE  \/ ResponseKept(x)
             \/ ~ InTime(o, answered[x]) /\ ~ InTime(answered[x], o)
  <2>1. ResponseKept(x) \/ Expired(answered[x])
    BY <1>3, <1>8 DEF Inv, TracedInv, Traced
  <2>2. answered[x].at <= now /\ answered[x].at - answered[x].stamp <= MaxLag
    BY <1>8 DEF Inv, OccasionsInv
  <2>3. o.at = now
    OBVIOUS
  <2> HIDE DEF o
  <2> QED
    BY <1>1, <1>4, <2>1, <2>2, <2>3, ExpiredIsLate
<1>9. Alone(x) /\ answered[x] = Never => k \notin Used
  BY <1>3 DEF Inv, TracedInv, Traced
<1>10. asked'[x] = o /\ asked'[x] # Never
  BY <1>1, <1>5
<1>11. \A y \in Tx \ {x} : asked'[y] = asked[y] /\ answered'[y] = answered[y]
  BY <1>3, <1>5
<1>12. n \in Session /\ Holds(n) /\ Timely(n, lastScan) /\ HalfOf(n) = <<"request", x>>
       /\ n.state = "QUERY" /\ n.query = x /\ n.queryStart = o.stamp
  <2>1. /\ n \in Session
        /\ n.state = "QUERY" /\ n.query = x /\ n.queryStart = t
    BY <1>1 DEF Request, Fresh, Session
  <2>2. o.stamp = t
    OBVIOUS
  <2> HIDE DEF n, o
  <2> QED
    BY <1>1, <2>1, <2>2 DEF Session, Holds, Timely, Stamp, HalfOf
<1> HIDE DEF n
\* It opens a session.
<1>13. CASE /\ \E p \in Pos : Create(k, p) /\ session' = [session EXCEPT ![p] = n]
            /\ refused' = refused /\ paired' = paired
  <2>1. PICK p \in Pos : Create(k, p) /\ session' = [session EXCEPT ![p] = n]
    BY <1>13
  <2>2. /\ PoolInv' /\ session' \in [Pos -> Session]
        /\ k \notin Used /\ Used' = Used \cup {k}
        /\ session'[sessionMap'[k]] = n
        /\ \A f \in Used : session'[sessionMap'[f]] = session[sessionMap[f]]
        /\ Waiting' = [Waiting EXCEPT ![k] = HalfOf(n)]
    BY <1>2, <1>12, <2>1, OpenEffect
  <2>3. SessionsInv'
    BY <1>3, <1>12, <2>2 DEF Inv, SessionsInv
  <2>4. Alone(x) => Traced(x)'
    <3> SUFFICES ASSUME Alone(x) PROVE Traced(x)'
      OBVIOUS
    <3>1. QueryKept(x)'
      BY <1>10, <1>12, <2>2 DEF QueryKept
    <3>2. ~ ResponseKept(x)
      BY <2>2 DEF ResponseKept
    <3> HIDE DEF o
    <3> QED
      BY <1>3, <1>8, <1>10, <1>13, <3>1, <3>2 DEF Traced
  <2>5. TracedInv'
    BY <1>3, <1>11, <1>13, <2>2, <2>4, TracedOthers
  <2>6. Inv'
    BY <1>3, <1>4, <1>5, <1>6, <1>7, <1>13, <2>2, <2>3, <2>5
    DEF Inv, TypeOK, PoolInv
  <2>7. Waiting[k] = NoTx
    BY <1>2, <2>2 DEF Waiting
  <2>8. Halves!Await("request", x)
    BY <1>5, <1>12, <1>13, <2>2, <2>7 DEF Halves!Await
  <2> QED
    BY <2>6, <2>8 DEF Halves!Come
\* There is no room for it, or it is a repeated one.
<1>14. CASE /\ UNCHANGED <<poolVars, session>> /\ paired' = paired
            /\ \/ k \notin Used /\ refused' = refused \cup {x}
               \/ k \in Used /\ s.state # "RESPONSE" /\ refused' = refused
  <2>1. /\ sessionMap' = sessionMap /\ session' = session /\ Used' = Used
        /\ PoolInv'
    BY <1>4, <1>14 DEF poolVars, Used, PoolInv, PoolTypeOK, PoolConsistent
  <2>2. SessionsInv'
    BY <1>3, <2>1 DEF Inv, SessionsInv
  <2>3. Alone(x) => Traced(x)'
    <3> SUFFICES ASSUME Alone(x) PROVE Traced(x)'
      OBVIOUS
    <3>1. CASE x \in refused'
      BY <1>10, <3>1 DEF Traced
    <3>2. CASE k \in Used /\ s.state # "RESPONSE" /\ refused' = refused
      <4>1. ~ ResponseKept(x) /\ answered[x] # Never
        BY <1>9, <3>2 DEF ResponseKept
      <4> HIDE DEF o
      <4> QED
        BY <1>3, <1>8, <1>10, <3>2, <4>1 DEF Traced
    <3> QED
      BY <1>14, <3>1, <3>2
  <2>4. TracedInv'
    <3>1. refused' \in {refused, refused \cup {x}} /\ paired \subseteq paired'
      BY <1>14
    <3> QED
      BY <1>3, <1>11, <2>1, <2>3, <3>1, TracedOthers
  <2>5. Inv'
    BY <1>3, <1>4, <1>5, <1>6, <1>7, <1>14, <2>1, <2>2, <2>4
    DEF Inv, TypeOK, PoolInv
  <2>6. Waiting' = Waiting
    BY <2>1 DEF Waiting, HalfOf
  <2>7. Halves!Ignore("request", x)
    BY <1>5, <1>14, <2>6 DEF Halves!Ignore
  <2> QED
    BY <2>5, <2>7 DEF Halves!Come
\* It meets a response.
<1>15. CASE /\ k \in Used /\ s.state = "RESPONSE"
            /\ paired' = paired \cup {<<x, s.response>>}
            /\ Release({k}) /\ refused' = refused
  <2> DEFINE y == s.response
  <2>1. y \in Tx
    BY <1>15 DEF Inv, SessionsInv, Holds
  <2>2. Waiting[k] = <<"response", y>>
    BY <1>2, <1>15 DEF Waiting, HalfOf
  <2>3. /\ PoolInv' /\ session' \in [Pos -> Session]
        /\ Used' = Used \ {k}
        /\ \A f \in Used \ {k} : session'[sessionMap'[f]] = session[sessionMap[f]]
        /\ Waiting' = [f \in Flow |-> IF f \in {k} THEN NoTx ELSE Waiting[f]]
    BY <1>15, ReleaseEffect
  <2>4. SessionsInv'
    BY <1>3, <2>3 DEF Inv, SessionsInv
  <2>5. Alone(x) => Traced(x)'
    <3> SUFFICES ASSUME Alone(x) PROVE Traced(x)'
      OBVIOUS
    <3>1. answered[x] # Never
      BY <1>9, <1>15
    <3>2. ResponseKept(x) => <<x, x>> \in paired'
      BY <1>15 DEF ResponseKept
    <3> HIDE DEF o
    <3> QED
      BY <1>3, <1>8, <1>10, <1>15, <3>1, <3>2 DEF Traced
  <2>6. TracedInv'
    BY <1>3, <1>11, <1>15, <2>3, <2>5, TracedOthers
  <2>7. Waiting' = [Waiting EXCEPT ![k] = NoTx]
    BY <2>3 DEF Waiting
  <2>8. paired' = paired \cup {<<x, y>>}
    BY <1>15
  <2> HIDE DEF y
  <2>9. paired' \subseteq Tx \X Tx
    BY <1>4, <2>1, <2>8
  <2>10. Inv'
    BY <1>3, <1>4, <1>5, <1>6, <1>7, <1>15, <2>3, <2>4, <2>6, <2>9
    DEF Inv, TypeOK, PoolInv
  <2>11. Halves!Join("request", x, y)
    BY <1>5, <2>2, <2>7, <2>8 DEF Halves!Join, Halves!Other, Halves!Pair
  <2> QED
    BY <2>1, <2>10, <2>11 DEF Halves!Come
<1> QED
  BY <1>13, <1>14, <1>15 DEF Query, Open, n

(* A response.                                                             *)
LEMMA AnswerStep ==
  ASSUME Inv, NEW x \in Tx, NEW t \in (now - MaxLag) .. (now + MaxSkew), Answer(x, t)
  PROVE  Inv' /\ Halves!Come("response", x)
<1> DEFINE o == [at |-> now, stamp |-> t]
           k == KeyOf[x]
           s == session[sessionMap[k]]
           n == Response(Fresh, x, t)
<1>1. /\ t \in Nat /\ t > 0 /\ o \in Occasion /\ o # Never /\ now - t <= MaxLag
      /\ lastScan - t <= DNS_CLEAN_UP_TIMEOUT_SEC
  BY StampOfArrival
<1>2. k \in Flow /\ x # NoTx
  BY KeyType
<1>3. /\ answered[x] = Never /\ answered' = [answered EXCEPT ![x] = o]
      /\ asked' = asked /\ now' = now /\ lastScan' = lastScan
      /\ unanswered' = unanswered
  BY DEF Answer, Arrival
<1>4. /\ PoolInv /\ PoolTypeOK /\ session \in [Pos -> Session]
      /\ now \in Nat /\ lastScan \in Nat
      /\ asked \in [Tx -> Occasion] /\ refused \subseteq Tx
      /\ paired \subseteq Tx \X Tx /\ unanswered \subseteq Tx
  BY DEF Inv, TypeOK, PoolInv
<1>5. /\ Halves!See("response", x)
      /\ answered' \in [Tx -> Occasion]
      /\ \A y \in Tx : answered'[y] = IF y = x THEN o ELSE answered[y]
  BY <1>1, <1>3, AnswerSeen
<1>6. ClockInv'
  BY <1>3 DEF Inv, ClockInv
<1>7. OccasionsInv'
  <2>1. o.at = now /\ o.stamp = t
    OBVIOUS
  <2>2. o.at <= now
    BY <1>4, <2>1
  <2> HIDE DEF o
  <2> QED
    BY <1>1, <1>3, <1>5, <2>1, <2>2 DEF Inv, OccasionsInv
\* A query that is there has not had its chance, or is still here.
<1>8. ASSUME Alone(x), asked[x] # Never, x \notin refused
      PROVE  \/ QueryKept(x)
             \/ ~ InTime(o, asked[x]) /\ ~ InTime(asked[x], o)
  <2>1. QueryKept(x) \/ Expired(asked[x])
    BY <1>3, <1>8 DEF Inv, TracedInv, Traced
  <2>2. asked[x].at <= now /\ asked[x].at - asked[x].stamp <= MaxLag
    BY <1>8 DEF Inv, OccasionsInv
  <2>3. o.at = now
    OBVIOUS
  <2> HIDE DEF o
  <2> QED
    BY <1>1, <1>4, <2>1, <2>2, <2>3, ExpiredIsLate
<1>9. Alone(x) /\ asked[x] = Never => k \notin Used
  BY <1>3 DEF Inv, TracedInv, Traced
<1>10. answered'[x] = o /\ answered'[x] # Never
  BY <1>1, <1>5
<1>11. \A y \in Tx \ {x} : answered'[y] = answered[y] /\ asked'[y] = asked[y]
  BY <1>3, <1>5
<1>12. n \in Session /\ Holds(n) /\ Timely(n, lastScan) /\ HalfOf(n) = <<"response", x>>
       /\ n.state = "RESPONSE" /\ n.response = x /\ n.queryEnd = o.stamp
  <2>1. /\ n \in Session
        /\ n.state = "RESPONSE" /\ n.response = x /\ n.queryEnd = t
    BY <1>1 DEF Response, Fresh, Session
  <2>2. o.stamp = t
    OBVIOUS
  <2> HIDE DEF n, o
  <2> QED
    BY <1>1, <2>1, <2>2 DEF Session, Holds, Timely, Stamp, HalfOf
<1> HIDE DEF n
\* It opens a session.
<1>13. CASE /\ \E p \in Pos : Create(k, p) /\ session' = [session EXCEPT ![p] = n]
            /\ refused' = refused /\ paired' = paired
  <2>1. PICK p \in Pos : Create(k, p) /\ session' = [session EXCEPT ![p] = n]
    BY <1>13
  <2>2. /\ PoolInv' /\ session' \in [Pos -> Session]
        /\ k \notin Used /\ Used' = Used \cup {k}
        /\ session'[sessionMap'[k]] = n
        /\ \A f \in Used : session'[sessionMap'[f]] = session[sessionMap[f]]
        /\ Waiting' = [Waiting EXCEPT ![k] = HalfOf(n)]
    BY <1>2, <1>12, <2>1, OpenEffect
  <2>3. SessionsInv'
    BY <1>3, <1>12, <2>2 DEF Inv, SessionsInv
  <2>4. Alone(x) => Traced(x)'
    <3> SUFFICES ASSUME Alone(x) PROVE Traced(x)'
      OBVIOUS
    <3>1. ResponseKept(x)'
      BY <1>10, <1>12, <2>2 DEF ResponseKept
    <3>2. ~ QueryKept(x)
      BY <2>2 DEF QueryKept
    <3> HIDE DEF o
    <3> QED
      BY <1>3, <1>8, <1>10, <1>13, <3>1, <3>2 DEF Traced
  <2>5. TracedInv'
    BY <1>3, <1>11, <1>13, <2>2, <2>4, TracedOthers
  <2>6. Inv'
    BY <1>3, <1>4, <1>5, <1>6, <1>7, <1>13, <2>2, <2>3, <2>5
    DEF Inv, TypeOK, PoolInv
  <2>7. Waiting[k] = NoTx
    BY <1>2, <2>2 DEF Waiting
  <2>8. Halves!Await("response", x)
    BY <1>5, <1>12, <1>13, <2>2, <2>7 DEF Halves!Await
  <2> QED
    BY <2>6, <2>8 DEF Halves!Come
\* There is no room for it, or it is a repeated one.
<1>14. CASE /\ UNCHANGED <<poolVars, session>> /\ paired' = paired
            /\ \/ k \notin Used /\ refused' = refused \cup {x}
               \/ k \in Used /\ s.state # "QUERY" /\ refused' = refused
  <2>1. /\ sessionMap' = sessionMap /\ session' = session /\ Used' = Used
        /\ PoolInv'
    BY <1>4, <1>14 DEF poolVars, Used, PoolInv, PoolTypeOK, PoolConsistent
  <2>2. SessionsInv'
    BY <1>3, <2>1 DEF Inv, SessionsInv
  <2>3. Alone(x) => Traced(x)'
    <3> SUFFICES ASSUME Alone(x) PROVE Traced(x)'
      OBVIOUS
    <3>1. CASE x \in refused'
      BY <1>10, <3>1 DEF Traced
    <3>2. CASE k \in Used /\ s.state # "QUERY" /\ refused' = refused
      <4>1. ~ QueryKept(x) /\ asked[x] # Never
        BY <1>9, <3>2 DEF QueryKept
      <4> HIDE DEF o
      <4> QED
        BY <1>3, <1>8, <1>10, <3>2, <4>1 DEF Traced
    <3> QED
      BY <1>14, <3>1, <3>2
  <2>4. TracedInv'
    <3>1. refused' \in {refused, refused \cup {x}} /\ paired \subseteq paired'
      BY <1>14
    <3> QED
      BY <1>3, <1>11, <2>1, <2>3, <3>1, TracedOthers
  <2>5. Inv'
    BY <1>3, <1>4, <1>5, <1>6, <1>7, <1>14, <2>1, <2>2, <2>4
    DEF Inv, TypeOK, PoolInv
  <2>6. Waiting' = Waiting
    BY <2>1 DEF Waiting, HalfOf
  <2>7. Halves!Ignore("response", x)
    BY <1>5, <1>14, <2>6 DEF Halves!Ignore
  <2> QED
    BY <2>5, <2>7 DEF Halves!Come
\* It meets a query.
<1>15. CASE /\ k \in Used /\ s.state = "QUERY"
            /\ paired' = paired \cup {<<s.query, x>>}
            /\ Release({k}) /\ refused' = refused
  <2> DEFINE y == s.query
  <2>1. y \in Tx
    BY <1>15 DEF Inv, SessionsInv, Holds
  <2>2. Waiting[k] = <<"request", y>>
    BY <1>2, <1>15 DEF Waiting, HalfOf
  <2>3. /\ PoolInv' /\ session' \in [Pos -> Session]
        /\ Used' = Used \ {k}
        /\ \A f \in Used \ {k} : session'[sessionMap'[f]] = session[sessionMap[f]]
        /\ Waiting' = [f \in Flow |-> IF f \in {k} THEN NoTx ELSE Waiting[f]]
    BY <1>15, ReleaseEffect
  <2>4. SessionsInv'
    BY <1>3, <2>3 DEF Inv, SessionsInv
  <2>5. Alone(x) => Traced(x)'
    <3> SUFFICES ASSUME Alone(x) PROVE Traced(x)'
      OBVIOUS
    <3>1. asked[x] # Never
      BY <1>9, <1>15
    <3>2. QueryKept(x) => <<x, x>> \in paired'
      BY <1>15 DEF QueryKept
    <3> HIDE DEF o
    <3> QED
      BY <1>3, <1>8, <1>10, <1>15, <3>1, <3>2 DEF Traced
  <2>6. TracedInv'
    BY <1>3, <1>11, <1>15, <2>3, <2>5, TracedOthers
  <2>7. Waiting' = [Waiting EXCEPT ![k] = NoTx]
    BY <2>3 DEF Waiting
  <2>8. paired' = paired \cup {<<y, x>>}
    BY <1>15
  <2> HIDE DEF y
  <2>9. paired' \subseteq Tx \X Tx
    BY <1>4, <2>1, <2>8
  <2>10. Inv'
    BY <1>3, <1>4, <1>5, <1>6, <1>7, <1>15, <2>3, <2>4, <2>6, <2>9
    DEF Inv, TypeOK, PoolInv
  <2>11. Halves!Join("response", x, y)
    BY <1>5, <2>2, <2>7, <2>8 DEF Halves!Join, Halves!Other, Halves!Pair
  <2> QED
    BY <2>1, <2>10, <2>11 DEF Halves!Come
<1> QED
  BY <1>13, <1>14, <1>15 DEF Answer, Open, n

(* The clock: the scan that is due comes first.                            *)
LEMMA TickStep ==
  ASSUME Inv, Tick
  PROVE  Inv' /\ UNCHANGED <<Waiting, Seen, paired>>
<1>1. /\ now \in Nat /\ lastScan \in Nat /\ now - lastScan < SESSION_SCAN_FREQ_SEC
      /\ now' = now + 1 /\ now >= FirstSec /\ now >= lastScan
  BY DEF Tick, Inv, TypeOK, ClockInv
<1>2. UNCHANGED <<poolVars, session, lastScan, ghosts>>
  BY DEF Tick
<1>3. /\ sessionMap' = sessionMap /\ session' = session /\ Used' = Used
      /\ asked' = asked /\ answered' = answered /\ refused' = refused
      /\ paired' = paired /\ unanswered' = unanswered /\ lastScan' = lastScan
  BY <1>2 DEF poolVars, ghosts, Used
<1>4. UNCHANGED <<Waiting, Seen, paired>>
  BY <1>3 DEF Waiting, Seen, HalfOf
<1>5. PoolInv' /\ TypeOK'
  <2>1. PoolInv'
    BY <1>2 DEF Inv, PoolInv, PoolTypeOK, PoolConsistent, poolVars, Used
  <2> QED
    BY <1>1, <1>3, <2>1 DEF Inv, TypeOK, PoolInv
<1>6. ClockInv'
  BY <1>1, <1>3, Constants DEF ClockInv
<1>7. SessionsInv'
  BY <1>3 DEF Inv, SessionsInv
<1>8. OccasionsInv'
  <2>1. \A x \in Tx : asked[x] \in Occasion /\ answered[x] \in Occasion
    BY DEF Inv, TypeOK
  <2> QED
    BY <1>1, <1>3, <2>1 DEF Inv, OccasionsInv, Occasion
<1>9. TracedInv'
  <2> SUFFICES ASSUME NEW x \in Tx, Alone(x) PROVE Traced(x)'
    BY DEF TracedInv, Alone
  <2>1. now' \in Nat /\ now' >= now
    BY <1>1
  <2> QED
    BY <1>3, <2>1, TracedElsewhere
<1> QED
  BY <1>4, <1>5, <1>6, <1>7, <1>8, <1>9 DEF Inv

(* The scan.                                                               *)
LEMMA ScanStep ==
  ASSUME Inv, Scan
  PROVE  Inv' /\ \E K \in SUBSET Flow : Halves!GiveUp(K)
<1> DEFINE K == {f \in Used : TimedOut(session[sessionMap[f]])}
           Q == {session[sessionMap[f]].query : f \in K} \ {NoTx}
<1>1. /\ lastScan' = now /\ now' = now /\ Release(K)
      /\ unanswered' = unanswered \cup (Q \ NoUrl)
      /\ asked' = asked /\ answered' = answered /\ refused' = refused
      /\ paired' = paired
  BY DEF Scan
<1>2. /\ PoolInv /\ PoolTypeOK /\ session \in [Pos -> Session]
      /\ now \in Nat /\ lastScan \in Nat
  BY DEF Inv, TypeOK, PoolInv
<1>3. K \in SUBSET Used /\ K \in SUBSET Flow
  BY <1>2 DEF PoolTypeOK
<1>4. \A f \in Used : sessionMap[f] \in Pos /\ session[sessionMap[f]] \in Session
  BY <1>2 DEF PoolTypeOK
<1>5. Q \subseteq Tx
  BY <1>3, <1>4 DEF Session
<1>6. \A f \in Used : f \notin K => ~ TimedOut(session[sessionMap[f]])
  OBVIOUS
<1>7. \A f \in K : TimedOut(session[sessionMap[f]])
  OBVIOUS
<1> HIDE DEF K, Q
<1>8. /\ PoolInv' /\ session' \in [Pos -> Session]
      /\ Used' = Used \ K
      /\ \A f \in Used \ K : session'[sessionMap'[f]] = session[sessionMap[f]]
      /\ Waiting' = [f \in Flow |-> IF f \in K THEN NoTx ELSE Waiting[f]]
  BY <1>1, <1>3, ReleaseEffect
<1>9. SessionsInv'
  <2> SUFFICES ASSUME NEW f \in Used \ K
               PROVE  /\ Holds(session[sessionMap[f]])
                      /\ Timely(session[sessionMap[f]], now)
    BY <1>1, <1>8 DEF SessionsInv
  <2>1. /\ Holds(session[sessionMap[f]])
        /\ Stamp(session[sessionMap[f]]) > 0
    BY DEF Inv, SessionsInv, Timely
  <2>2. Stamp(session[sessionMap[f]]) \in Nat
    BY <1>4 DEF Session, Stamp
  <2> QED
    BY <1>2, <1>6, <2>1, <2>2, Constants DEF TimedOut, Timely
<1>10. ClockInv'
  BY <1>1, <1>2, Constants DEF Inv, ClockInv
<1>11. OccasionsInv'
  BY <1>1 DEF Inv, OccasionsInv
<1>12. TracedInv'
  <2> SUFFICES ASSUME NEW x \in Tx, Alone(x) PROVE Traced(x)'
    BY DEF TracedInv, Alone
  <2>1. now' \in Nat /\ now' >= now
    BY <1>1, <1>2
  <2>2. KeyOf[x] \in Used =>
          \/ /\ KeyOf[x] \in Used'
             /\ session'[sessionMap'[KeyOf[x]]] = session[sessionMap[KeyOf[x]]]
          \/ TimedOut(session[sessionMap[KeyOf[x]]])
    BY <1>7, <1>8
  <2>3. KeyOf[x] \in Used' => KeyOf[x] \in Used
    BY <1>8
  <2> QED
    BY <1>1, <2>1, <2>2, <2>3, TracedElsewhere
<1>13. Inv'
  BY <1>1, <1>2, <1>5, <1>8, <1>9, <1>10, <1>11, <1>12 DEF Inv, TypeOK, PoolInv
<1>14. Seen' = Seen
  BY <1>1 DEF Seen
<1>15. Halves!GiveUp(K)
  BY <1>1, <1>8, <1>14 DEF Halves!GiveUp
<1> QED
  BY <1>3, <1>13, <1>15

(* The initial states.                                                     *)
LEMMA InitStep == Init => Inv /\ Halves!HalfInit
<1> SUFFICES ASSUME Init PROVE Inv /\ Halves!HalfInit
  OBVIOUS
<1>1. PoolInv /\ PoolTypeOK
  BY PoolInvInit DEF Init, PoolInv
<1>2. Used = {}
  BY DEF Init, PoolInit, Used
<1>3. session \in [Pos -> Session]
  BY DEF Init, Fresh, Session
<1>4. /\ asked \in [Tx -> Occasion] /\ answered \in [Tx -> Occasion]
      /\ \A x \in Tx : asked[x] = Never /\ answered[x] = Never
  BY DEF Init, Occasion, Never
<1>5. TypeOK
  BY <1>1, <1>3, <1>4, Constants DEF Init, TypeOK
<1>6. SessionsInv /\ OccasionsInv
  BY <1>2, <1>4 DEF SessionsInv, OccasionsInv
<1>7. ClockInv
  BY Constants DEF Init, ClockInv
<1>8. TracedInv
  BY <1>2, <1>4 DEF TracedInv, Traced
<1>9. Waiting = [k \in Flow |-> NoTx] /\ Seen = {}
  BY <1>2, <1>4 DEF Waiting, Seen
<1>10. Halves!HalfInit
  BY <1>9 DEF Init, Halves!HalfInit
<1> QED
  BY <1>1, <1>5, <1>6, <1>7, <1>8, <1>10 DEF Inv

(* Every step keeps the invariant and is a step of HalfJoin or none.       *)
LEMMA NextStep == Inv /\ [Next]_vars => Inv' /\ [Halves!HalfNext]_(Halves!halfVars)
<1> SUFFICES ASSUME Inv, [Next]_vars PROVE Inv' /\ [Halves!HalfNext]_(Halves!halfVars)
  OBVIOUS
<1>1. ASSUME NEW x \in Tx, NEW t \in (now - MaxLag) .. (now + MaxSkew), Query(x, t)
      PROVE  Inv' /\ Halves!HalfNext
  BY <1>1, QueryStep DEF Halves!HalfNext, Halves!Side
<1>2. ASSUME NEW x \in Tx, NEW t \in (now - MaxLag) .. (now + MaxSkew), Answer(x, t)
      PROVE  Inv' /\ Halves!HalfNext
  BY <1>2, AnswerStep DEF Halves!HalfNext, Halves!Side
<1>3. CASE Scan
  BY <1>3, ScanStep DEF Halves!HalfNext
<1>4. CASE Tick
  BY <1>4, TickStep DEF Halves!halfVars
<1>5. CASE UNCHANGED vars
  <2>1. /\ UNCHANGED <<poolVars, now, session, lastScan>>
        /\ asked' = asked /\ answered' = answered /\ refused' = refused
        /\ paired' = paired /\ unanswered' = unanswered
    BY <1>5 DEF vars, ghosts
  <2>2. UNCHANGED <<Waiting, Seen, paired, Used>>
    BY <2>1 DEF Waiting, Seen, Used, HalfOf, poolVars
  <2>3. PoolInv' /\ TypeOK'
    <3>1. PoolInv'
      BY <2>1 DEF Inv, PoolInv, PoolTypeOK, PoolConsistent, poolVars, Used
    <3> QED
      BY <2>1, <3>1 DEF Inv, TypeOK, PoolInv
  <2>4. SessionsInv' /\ ClockInv' /\ OccasionsInv'
    BY <2>1, <2>2 DEF Inv, SessionsInv, ClockInv, OccasionsInv, poolVars
  <2>5. TracedInv'
    BY <2>1, <2>2 DEF Inv, TracedInv, Alone, Traced, QueryKept, ResponseKept,
       Expired, InTime, poolVars
  <2> QED
    BY <2>2, <2>3, <2>4, <2>5 DEF Inv, Halves!halfVars
<1> QED
  BY <1>1, <1>2, <1>3, <1>4, <1>5 DEF Next

LEMMA AlwaysInv == Spec => []Inv
  BY InitStep, NextStep, PTL DEF Spec

-----------------------------------------------------------------------------
(* Pool, sessions and time stamps keep their types, and the pool of DNS    *)
(* sessions never gets out of order, scans included.                       *)
THEOREM DnsTypeCorrect == Spec => [](TypeOK /\ PoolConsistent)
<1>1. Inv => TypeOK /\ PoolConsistent
  BY DEF Inv, PoolInv
<1> QED
  BY AlwaysInv, <1>1, PTL

(* The manager joins halves as HalfJoin says, with any keys in common, any *)
(* pool, and whenever scans run.                                           *)
THEOREM DnsImplementsHalfJoin == Spec => ImplementsHalfJoin
BY InitStep, NextStep, PTL DEF Spec, ImplementsHalfJoin, Halves!HalfSpec

(* A half is gone after the time-out and one scan period, so that a number *)
(* used again later is never joined with it.                               *)
THEOREM DnsHalvesGoAway == Spec => []NoStaleHalf
<1>1. Inv => NoStaleHalf
  <2> SUFFICES ASSUME Inv, NEW f \in Used
               PROVE  now - Stamp(session[sessionMap[f]])
                        <= DNS_CLEAN_UP_TIMEOUT_SEC + SESSION_SCAN_FREQ_SEC
    BY DEF NoStaleHalf
  <2>1. session[sessionMap[f]] \in Session
    BY DEF Inv, TypeOK, PoolTypeOK
  <2>2. Stamp(session[sessionMap[f]]) \in Nat
    BY <2>1 DEF Session, Stamp
  <2>3. now \in Nat /\ lastScan \in Nat /\ now - lastScan <= SESSION_SCAN_FREQ_SEC
    BY DEF Inv, TypeOK, ClockInv
  <2>4. lastScan - Stamp(session[sessionMap[f]]) <= DNS_CLEAN_UP_TIMEOUT_SEC
    BY DEF Inv, SessionsInv, Timely
  <2> QED
    BY <2>2, <2>3, <2>4, Constants
<1> QED
  BY AlwaysInv, <1>1, PTL

(* A transaction with a key of its own that found room, and whose halves   *)
(* come within the time-out, is reported as answered.                      *)
THEOREM DnsAnswersReported == Spec => []AnswersReported
<1>1. Inv => AnswersReported
  BY DEF Inv, TracedInv, Traced, AnswersReported
<1> QED
  BY AlwaysInv, <1>1, PTL
===============================================================================
