-------------------------- MODULE AaaSessionProofs ---------------------------
(***************************************************************************)
(* The AAA session manager joins halves the way HalfJoin does, for any     *)
(* exchanges, identifiers and hashes, any time-outs and any lag.           *)
(***************************************************************************)
EXTENDS AaaSession, TLAPS

Session == [request : Tx \cup {NoTx}, response : Tx \cup {NoTx},
            start : Nat, end : Nat]

\* A session holds exactly one half.
OneHalf ==
  \A k \in Open : session[k].request = NoTx <=> session[k].response # NoTx

Inv == TypeOK /\ OneHalf /\ now >= FirstSec

-----------------------------------------------------------------------------
(* A time stamp is a number, and tells "handled" from "never".             *)
LEMMA StampOfArrival ==
  ASSUME Inv, NEW t \in (now - MaxLag) .. (now + MaxSkew)
  PROVE  /\ t \in Nat
         /\ [at |-> now, stamp |-> t] \in Occasion
         /\ [at |-> now, stamp |-> t] # Never
<1>1. /\ AAA_CLEAN_UP_TIMEOUT_SEC \in Nat /\ MaxLag \in Nat /\ MaxSkew \in Nat
      /\ FirstSec \in Nat /\ FirstSec > AAA_CLEAN_UP_TIMEOUT_SEC + MaxLag
  BY AaaSessionAssumption
<1>2. now \in Nat /\ now >= FirstSec
  BY DEF Inv, TypeOK
<1>3. t \in Nat /\ now # 0
  BY <1>1, <1>2
<1> QED
  BY <1>2, <1>3 DEF Occasion, Never

(* An exchange has a key, and no half is nobody.                           *)
LEMMA KeyType ==
  ASSUME NEW x \in Tx
  PROVE  KeyOf[x] \in Key /\ x # NoTx
BY AaaSessionAssumption

(* A session that is added to the maps.                                    *)
LEMMA PutStep ==
  ASSUME Inv, NEW k \in Key, NEW s \in Session,
         s.request = NoTx <=> s.response # NoTx,
         session' = Put(k, s)
  PROVE  /\ Open' \subseteq Key
         /\ session' \in [Open' -> Session]
         /\ OneHalf'
         /\ Waiting' = [Waiting EXCEPT ![k] = HalfOf(s)]
<1>1. Open \subseteq Key /\ session \in [Open -> Session]
  BY DEF Inv, TypeOK, Session
<1>2. /\ Open' = Open \cup {k}
      /\ session'[k] = s
      /\ \A j \in Open : j # k => session'[j] = session[j]
  BY DEF Put, Open
<1>3. session' \in [Open' -> Session]
  <2>1. session' = [j \in Open' |-> session'[j]]
    BY DEF Put, Open
  <2> QED
    BY <1>1, <1>2, <2>1
<1>4. OneHalf'
  BY <1>2 DEF OneHalf, Inv
<1>5. Waiting' = [Waiting EXCEPT ![k] = HalfOf(s)]
  BY <1>1, <1>2 DEF Waiting, HalfOf
<1> QED
  BY <1>1, <1>2, <1>3, <1>4, <1>5

(* Sessions that leave the maps.                                           *)
LEMMA WithoutStep ==
  ASSUME Inv, NEW K, session' = Without(K)
  PROVE  /\ Open' \subseteq Key
         /\ session' \in [Open' -> Session]
         /\ OneHalf'
         /\ Waiting' = [k \in Key |-> IF k \in K THEN NoTx ELSE Waiting[k]]
<1>1. Open \subseteq Key /\ session \in [Open -> Session]
  BY DEF Inv, TypeOK, Session
<1>2. /\ Open' = Open \ K
      /\ \A j \in Open \ K : session'[j] = session[j]
  BY DEF Without, Open
<1>3. session' \in [Open' -> Session]
  BY <1>1, <1>2 DEF Without
<1>4. OneHalf'
  BY <1>2 DEF OneHalf, Inv
<1>5. Waiting' = [k \in Key |-> IF k \in K THEN NoTx ELSE Waiting[k]]
  BY <1>1, <1>2 DEF Waiting, HalfOf
<1> QED
  BY <1>1, <1>2, <1>3, <1>4, <1>5

(* A request is seen.                                                      *)
LEMMA RequestSeen ==
  ASSUME asked \in [Tx -> Occasion], NEW x \in Tx, NEW o, o # Never,
         asked[x] = Never, asked' = [asked EXCEPT ![x] = o],
         UNCHANGED answered
  PROVE  <<"request", x>> \notin Seen /\ Seen' = Seen \cup {<<"request", x>>}
<1>1. \A y \in Tx : asked'[y] # Never <=> (asked[y] # Never \/ y = x)
  OBVIOUS
<1>2. <<"request", x>> \notin Seen
  BY DEF Seen
<1>3. ASSUME NEW h \in Side \X Tx
      PROVE  h \in Seen' <=> (h \in Seen \/ h = <<"request", x>>)
  <2>1. PICK d \in Side, y \in Tx : h = <<d, y>>
    OBVIOUS
  <2> QED
    BY <1>1, <2>1 DEF Seen, Side
<1>4. <<"request", x>> \in Side \X Tx /\ Seen \subseteq Side \X Tx
  BY DEF Seen, Side
<1>5. Seen' \subseteq Side \X Tx
  BY DEF Seen
<1> QED
  BY <1>2, <1>3, <1>4, <1>5

(* A response is seen.                                                     *)
LEMMA ResponseSeen ==
  ASSUME answered \in [Tx -> Occasion], NEW x \in Tx, NEW o, o # Never,
         answered[x] = Never, answered' = [answered EXCEPT ![x] = o],
         UNCHANGED asked
  PROVE  <<"response", x>> \notin Seen /\ Seen' = Seen \cup {<<"response", x>>}
<1>1. \A y \in Tx : answered'[y] # Never <=> (answered[y] # Never \/ y = x)
  OBVIOUS
<1>2. <<"response", x>> \notin Seen
  BY DEF Seen
<1>3. ASSUME NEW h \in Side \X Tx
      PROVE  h \in Seen' <=> (h \in Seen \/ h = <<"response", x>>)
  <2>1. PICK d \in Side, y \in Tx : h = <<d, y>>
    OBVIOUS
  <2> QED
    BY <1>1, <2>1 DEF Seen, Side
<1>4. <<"response", x>> \in Side \X Tx /\ Seen \subseteq Side \X Tx
  BY DEF Seen, Side
<1>5. Seen' \subseteq Side \X Tx
  BY DEF Seen
<1> QED
  BY <1>2, <1>3, <1>4, <1>5

-----------------------------------------------------------------------------
(* Each action keeps the invariant and is a step of HalfJoin.              *)

(* The request of an exchange.                                             *)
LEMMA RequestStep ==
  ASSUME Inv, NEW x \in Tx, NEW t \in (now - MaxLag) .. (now + MaxSkew),
         Request(x, t)
  PROVE  Inv' /\ Halves!Come("request", x)
<1> DEFINE o == [at |-> now, stamp |-> t]
           k == KeyOf[x]
<1>1. t \in Nat /\ o \in Occasion /\ o # Never
  BY StampOfArrival
<1>2. k \in Key /\ x # NoTx
  BY KeyType
<1>3. /\ asked \in [Tx -> Occasion] /\ answered \in [Tx -> Occasion]
      /\ Open \subseteq Key /\ session \in [Open -> Session]
      /\ paired \subseteq Tx \X Tx /\ overdue \subseteq Key
  BY DEF Inv, TypeOK, Session
<1>4. /\ asked[x] = Never /\ asked' = [asked EXCEPT ![x] = o]
      /\ answered' = answered /\ now' = now /\ lastScan' = lastScan
      /\ overdue' = overdue
  BY DEF Request, Arrival
<1>5. Halves!See("request", x)
  <2>1. <<"request", x>> \notin Seen /\ Seen' = Seen \cup {<<"request", x>>}
    BY <1>1, <1>3, <1>4, RequestSeen
  <2> QED
    BY <2>1 DEF Halves!See
<1>6. asked' \in [Tx -> Occasion]
  BY <1>1, <1>3, <1>4
<1>7. CASE k \notin Open /\ session' = Put(k, WithRequest(Fresh, x, t)) /\ UNCHANGED paired
  <2> DEFINE s == WithRequest(Fresh, x, t)
  <2>1. s \in Session /\ s.request = x /\ s.response = NoTx
    BY <1>1 DEF WithRequest, Fresh, Session
  <2>2. HalfOf(s) = <<"request", x>>
    BY <1>2, <2>1 DEF HalfOf
  <2> HIDE DEF s
  <2>3. /\ Open' \subseteq Key /\ session' \in [Open' -> Session] /\ OneHalf'
        /\ Waiting' = [Waiting EXCEPT ![k] = HalfOf(s)]
    BY <1>2, <1>7, <2>1, PutStep DEF s
  <2>4. Waiting[k] = NoTx
    BY <1>2, <1>7 DEF Waiting
  <2>5. Halves!Await("request", x)
    BY <1>5, <1>7, <2>2, <2>3, <2>4 DEF Halves!Await
  <2>6. Inv'
    BY <1>3, <1>4, <1>6, <1>7, <2>3 DEF Inv, TypeOK, Session
  <2> QED
    BY <2>5, <2>6 DEF Halves!Come
<1>8. CASE /\ k \in Open /\ session[k].response # NoTx
           /\ paired' = paired \cup {<<x, session[k].response>>}
           /\ session' = Without({k})
  <2> DEFINE y == session[k].response
  <2>1. y \in Tx /\ session[k].request = NoTx
    BY <1>3, <1>8 DEF Inv, OneHalf, Session
  <2>2. Waiting[k] = <<"response", y>>
    BY <1>2, <1>8, <2>1 DEF Waiting, HalfOf
  <2>3. /\ Open' \subseteq Key /\ session' \in [Open' -> Session] /\ OneHalf'
        /\ Waiting' = [j \in Key |-> IF j \in {k} THEN NoTx ELSE Waiting[j]]
    BY <1>8, WithoutStep
  <2>4. Waiting' = [Waiting EXCEPT ![k] = NoTx]
    BY <2>3 DEF Waiting
  <2>5. paired' = paired \cup {<<x, y>>}
    BY <1>8
  <2> HIDE DEF y
  <2>6. Halves!Join("request", x, y)
    BY <1>5, <2>2, <2>4, <2>5 DEF Halves!Join, Halves!Other, Halves!Pair
  <2>7. paired' \subseteq Tx \X Tx
    BY <1>3, <2>1, <2>5
  <2>8. Inv'
    BY <1>3, <1>4, <1>6, <2>3, <2>7 DEF Inv, TypeOK, Session
  <2> QED
    BY <2>1, <2>6, <2>8 DEF Halves!Come
<1>9. CASE UNCHANGED <<session, paired>>
  <2>1. Waiting' = Waiting /\ Open' = Open
    BY <1>9 DEF Waiting, Open, HalfOf
  <2>2. Halves!Ignore("request", x)
    BY <1>5, <1>9, <2>1 DEF Halves!Ignore
  <2>3. Inv'
    BY <1>3, <1>4, <1>6, <1>9, <2>1 DEF Inv, TypeOK, Session, OneHalf
  <2> QED
    BY <2>2, <2>3 DEF Halves!Come
<1> QED
  BY <1>7, <1>8, <1>9 DEF Request

(* The response of an exchange.                                            *)
LEMMA ResponseStep ==
  ASSUME Inv, NEW x \in Tx, NEW t \in (now - MaxLag) .. (now + MaxSkew),
         Response(x, t)
  PROVE  Inv' /\ Halves!Come("response", x)
<1> DEFINE o == [at |-> now, stamp |-> t]
           k == KeyOf[x]
<1>1. t \in Nat /\ o \in Occasion /\ o # Never
  BY StampOfArrival
<1>2. k \in Key /\ x # NoTx
  BY KeyType
<1>3. /\ asked \in [Tx -> Occasion] /\ answered \in [Tx -> Occasion]
      /\ Open \subseteq Key /\ session \in [Open -> Session]
      /\ paired \subseteq Tx \X Tx /\ overdue \subseteq Key
  BY DEF Inv, TypeOK, Session
<1>4. /\ answered[x] = Never /\ answered' = [answered EXCEPT ![x] = o]
      /\ asked' = asked /\ now' = now /\ lastScan' = lastScan
      /\ overdue' = overdue
  BY DEF Response, Arrival
<1>5. Halves!See("response", x)
  <2>1. <<"response", x>> \notin Seen /\ Seen' = Seen \cup {<<"response", x>>}
    BY <1>1, <1>3, <1>4, ResponseSeen
  <2> QED
    BY <2>1 DEF Halves!See
<1>6. answered' \in [Tx -> Occasion]
  BY <1>1, <1>3, <1>4
<1>7. CASE k \notin Open /\ session' = Put(k, WithResponse(Fresh, x, t)) /\ UNCHANGED paired
  <2> DEFINE s == WithResponse(Fresh, x, t)
  <2>1. s \in Session /\ s.response = x /\ s.request = NoTx
    BY <1>1 DEF WithResponse, Fresh, Session
  <2>2. HalfOf(s) = <<"response", x>>
    BY <1>2, <2>1 DEF HalfOf
  <2> HIDE DEF s
  <2>3. /\ Open' \subseteq Key /\ session' \in [Open' -> Session] /\ OneHalf'
        /\ Waiting' = [Waiting EXCEPT ![k] = HalfOf(s)]
    BY <1>2, <1>7, <2>1, PutStep DEF s
  <2>4. Waiting[k] = NoTx
    BY <1>2, <1>7 DEF Waiting
  <2>5. Halves!Await("response", x)
    BY <1>5, <1>7, <2>2, <2>3, <2>4 DEF Halves!Await
  <2>6. Inv'
    BY <1>3, <1>4, <1>6, <1>7, <2>3 DEF Inv, TypeOK, Session
  <2> QED
    BY <2>5, <2>6 DEF Halves!Come
<1>8. CASE /\ k \in Open /\ session[k].request # NoTx
           /\ paired' = paired \cup {<<session[k].request, x>>}
           /\ session' = Without({k})
  <2> DEFINE y == session[k].request
  <2>1. y \in Tx
    BY <1>3, <1>8 DEF Session
  <2>2. Waiting[k] = <<"request", y>>
    BY <1>2, <1>8 DEF Waiting, HalfOf
  <2>3. /\ Open' \subseteq Key /\ session' \in [Open' -> Session] /\ OneHalf'
        /\ Waiting' = [j \in Key |-> IF j \in {k} THEN NoTx ELSE Waiting[j]]
    BY <1>8, WithoutStep
  <2>4. Waiting' = [Waiting EXCEPT ![k] = NoTx]
    BY <2>3 DEF Waiting
  <2>5. paired' = paired \cup {<<y, x>>}
    BY <1>8
  <2> HIDE DEF y
  <2>6. Halves!Join("response", x, y)
    BY <1>5, <2>2, <2>4, <2>5 DEF Halves!Join, Halves!Other, Halves!Pair
  <2>7. paired' \subseteq Tx \X Tx
    BY <1>3, <2>1, <2>5
  <2>8. Inv'
    BY <1>3, <1>4, <1>6, <2>3, <2>7 DEF Inv, TypeOK, Session
  <2> QED
    BY <2>1, <2>6, <2>8 DEF Halves!Come
<1>9. CASE UNCHANGED <<session, paired>>
  <2>1. Waiting' = Waiting /\ Open' = Open
    BY <1>9 DEF Waiting, Open, HalfOf
  <2>2. Halves!Ignore("response", x)
    BY <1>5, <1>9, <2>1 DEF Halves!Ignore
  <2>3. Inv'
    BY <1>3, <1>4, <1>6, <1>9, <2>1 DEF Inv, TypeOK, Session, OneHalf
  <2> QED
    BY <2>2, <2>3 DEF Halves!Come
<1> QED
  BY <1>7, <1>8, <1>9 DEF Response

(* The scan.                                                               *)
LEMMA ScanStep ==
  ASSUME Inv, Scan
  PROVE  Inv' /\ \E K \in SUBSET Key : Halves!GiveUp(K)
<1>1. PICK clock \in [Open -> {now, now + 1}] :
        /\ lastScan' = now
        /\ now' = IF \E k \in Open : clock[k] > now THEN now + 1 ELSE now
        /\ overdue' = {k \in Open : TimedOut(session[k], clock[k])}
        /\ session' = Without(Erased(overdue'))
        /\ UNCHANGED <<asked, answered, paired>>
  BY DEF Scan
<1> DEFINE K == Erased(overdue')
<1>2. K \in SUBSET Key /\ overdue' \subseteq Key
  BY <1>1 DEF Erased, Inv, TypeOK
<1>3. session' = Without(K)
  BY <1>1
<1> HIDE DEF K
<1>4. /\ Open' \subseteq Key /\ session' \in [Open' -> Session] /\ OneHalf'
      /\ Waiting' = [k \in Key |-> IF k \in K THEN NoTx ELSE Waiting[k]]
  BY <1>3, WithoutStep
<1>5. Seen' = Seen
  BY <1>1 DEF Seen
<1>6. Halves!GiveUp(K)
  BY <1>1, <1>4, <1>5 DEF Halves!GiveUp
<1>7. FirstSec \in Nat /\ now \in Nat /\ now >= FirstSec
  BY AaaSessionAssumption DEF Inv, TypeOK
<1>8. now' \in Nat /\ now' >= FirstSec
  BY <1>1, <1>7
<1>9. Inv'
  BY <1>1, <1>2, <1>4, <1>7, <1>8 DEF Inv, TypeOK, Session
<1> QED
  BY <1>2, <1>6, <1>9

(* The clock.                                                              *)
LEMMA TickStep ==
  ASSUME Inv, Tick
  PROVE  Inv' /\ UNCHANGED <<Waiting, Seen, paired>>
<1>1. FirstSec \in Nat /\ now \in Nat /\ now >= FirstSec
  BY AaaSessionAssumption DEF Inv, TypeOK
<1>2. now' \in Nat /\ now' >= FirstSec
  BY <1>1 DEF Tick
<1>3. UNCHANGED <<session, lastScan, asked, answered, paired, overdue>>
  BY DEF Tick
<1>4. UNCHANGED <<Waiting, Seen, paired, Open>>
  BY <1>3 DEF Waiting, Seen, Open, HalfOf
<1>5. Inv'
  BY <1>2, <1>3, <1>4 DEF Inv, TypeOK, OneHalf
<1> QED
  BY <1>4, <1>5

(* The initial states.                                                     *)
LEMMA InitStep == Init => Inv /\ Halves!HalfInit
<1> SUFFICES ASSUME Init PROVE Inv /\ Halves!HalfInit
  OBVIOUS
<1>1. FirstSec \in Nat
  BY AaaSessionAssumption
<1>2. Open = {} /\ session \in [Open -> Session]
  BY DEF Init, Open
<1>3. asked \in [Tx -> Occasion] /\ answered \in [Tx -> Occasion]
  BY DEF Init, Occasion, Never
<1>4. Waiting = [k \in Key |-> NoTx]
  BY <1>2 DEF Waiting
<1>5. Seen = {}
  BY DEF Init, Seen
<1>6. Inv
  BY <1>1, <1>2, <1>3 DEF Init, Inv, TypeOK, OneHalf, Session
<1>7. Halves!HalfInit
  BY <1>4, <1>5 DEF Init, Halves!HalfInit
<1> QED
  BY <1>6, <1>7

(* Every step keeps the invariant and is a step of HalfJoin or none.       *)
LEMMA NextStep == Inv /\ [Next]_vars => Inv' /\ [Halves!HalfNext]_(Halves!halfVars)
<1> SUFFICES ASSUME Inv, [Next]_vars PROVE Inv' /\ [Halves!HalfNext]_(Halves!halfVars)
  OBVIOUS
<1>1. ASSUME NEW x \in Tx, NEW t \in (now - MaxLag) .. (now + MaxSkew), Request(x, t)
      PROVE  Inv' /\ Halves!HalfNext
  BY <1>1, RequestStep DEF Halves!HalfNext, Halves!Side
<1>2. ASSUME NEW x \in Tx, NEW t \in (now - MaxLag) .. (now + MaxSkew), Response(x, t)
      PROVE  Inv' /\ Halves!HalfNext
  BY <1>2, ResponseStep DEF Halves!HalfNext, Halves!Side
<1>3. CASE Scan
  BY <1>3, ScanStep DEF Halves!HalfNext
<1>4. CASE Tick
  BY <1>4, TickStep DEF Halves!halfVars
<1>5. CASE UNCHANGED vars
  <2>1. UNCHANGED <<Waiting, Seen, paired, Open>>
    BY <1>5 DEF vars, Waiting, Seen, Open, HalfOf
  <2>2. Inv'
    BY <1>5, <2>1 DEF vars, Inv, TypeOK, OneHalf
  <2> QED
    BY <2>1, <2>2 DEF Halves!halfVars
<1> QED
  BY <1>1, <1>2, <1>3, <1>4, <1>5 DEF Next

(* The maps hold sessions of the right keys, and all stamps are numbers.   *)
THEOREM AaaSessionTypeCorrect == Spec => []TypeOK
<1>1. Inv => TypeOK
  BY DEF Inv
<1> QED
  BY InitStep, NextStep, <1>1, PTL DEF Spec

(* The manager joins halves as HalfJoin says, whatever the order they come *)
(* in, whenever scans run, and whichever sessions share a hash.            *)
THEOREM AaaSessionImplementsHalfJoin == Spec => ImplementsHalfJoin
BY InitStep, NextStep, PTL DEF Spec, ImplementsHalfJoin, Halves!HalfSpec

-----------------------------------------------------------------------------
(* Exchanges that share their key with no other.                           *)

\* What was handled was handled before now, and not long after its stamp.
OccasionsInv ==
  \A x \in Tx :
    /\ asked[x] # Never => asked[x].at <= now /\ asked[x].at - asked[x].stamp <= MaxLag
    /\ answered[x] # Never =>
         answered[x].at <= now /\ answered[x].at - answered[x].stamp <= MaxLag

\* A half of that occasion may be gone.
Expired(o) == o.stamp > o.at \/ now - o.stamp > AAA_CLEAN_UP_TIMEOUT_SEC

RequestKept(x) ==
  /\ KeyOf[x] \in Open
  /\ session[KeyOf[x]] = WithRequest(Fresh, x, asked[x].stamp)

ResponseKept(x) ==
  /\ KeyOf[x] \in Open
  /\ session[KeyOf[x]] = WithResponse(Fresh, x, answered[x].stamp)

\* Where such an exchange is.
Traced(x) ==
  /\ asked[x] = Never /\ answered[x] = Never => KeyOf[x] \notin Open
  /\ asked[x] # Never /\ answered[x] = Never =>
       RequestKept(x) \/ Expired(asked[x])
  /\ asked[x] = Never /\ answered[x] # Never =>
       ResponseKept(x) \/ Expired(answered[x])
  /\ /\ asked[x] # Never /\ answered[x] # Never
     /\ InTime(asked[x], answered[x]) \/ InTime(answered[x], asked[x])
     => <<x, x>> \in paired

TracedInv == OccasionsInv /\ \A x \in Tx : Alone(x) => Traced(x)

(* The constants.                                                          *)
LEMMA Constants ==
  /\ AAA_CLEAN_UP_TIMEOUT_SEC \in Nat /\ MaxLag \in Nat /\ MaxSkew \in Nat
  /\ FirstSec \in Nat /\ FirstSec > AAA_CLEAN_UP_TIMEOUT_SEC + MaxLag
  /\ MaxLag <= AAA_CLEAN_UP_TIMEOUT_SEC
<1>1. /\ AAA_CLEAN_UP_TIMEOUT_SEC \in Nat /\ MaxLag \in Nat /\ MaxSkew \in Nat
      /\ SESSION_SCAN_FREQ_SEC \in Nat /\ FirstSec \in Nat
      /\ SESSION_SCAN_FREQ_SEC + MaxLag < AAA_CLEAN_UP_TIMEOUT_SEC
      /\ FirstSec > AAA_CLEAN_UP_TIMEOUT_SEC + MaxLag
  BY AaaSessionAssumption
<1> QED
  BY <1>1

(* A session that holds one half only.                                     *)
LEMMA OneHalfOnly ==
  ASSUME NEW x \in Tx, NEW t
  PROVE  /\ WithRequest(Fresh, x, t).request = x
         /\ WithRequest(Fresh, x, t).response = NoTx
         /\ WithRequest(Fresh, x, t).start = t /\ WithRequest(Fresh, x, t).end = 0
         /\ WithResponse(Fresh, x, t).request = NoTx
         /\ WithResponse(Fresh, x, t).response = x
         /\ WithResponse(Fresh, x, t).start = 0 /\ WithResponse(Fresh, x, t).end = t
BY DEF WithRequest, WithResponse, Fresh

(* A half that may be gone is not in time for one that comes now.          *)
LEMMA ExpiredIsLate ==
  ASSUME Inv, NEW a \in Occasion, NEW o \in Occasion, Expired(a), o.at = now,
         a.at <= now, a.at - a.stamp <= MaxLag
  PROVE  ~ InTime(a, o) /\ ~ InTime(o, a)
<1>1. now \in Nat /\ a.at \in Nat /\ a.stamp \in Nat /\ o.stamp \in Nat
  BY DEF Inv, TypeOK, Occasion
<1> QED
  BY <1>1, Constants DEF Expired, InTime

(* A step that leaves an exchange alone, and its session too unless that   *)
(* has timed out, leaves it traced.                                        *)
LEMMA TracedElsewhere ==
  ASSUME Inv, TracedInv, NEW x \in Tx, Alone(x),
         now' \in Nat, now' >= now,
         asked'[x] = asked[x], answered'[x] = answered[x], paired \subseteq paired',
         KeyOf[x] \in Open' => KeyOf[x] \in Open,
         KeyOf[x] \in Open =>
           \/ KeyOf[x] \in Open' /\ session'[KeyOf[x]] = session[KeyOf[x]]
           \/ \E c \in now .. now' : TimedOut(session[KeyOf[x]], c)
  PROVE  Traced(x)'
<1>1. Traced(x)
  BY DEF TracedInv
<1>2. now \in Nat /\ asked[x] \in Occasion /\ answered[x] \in Occasion
  BY DEF Inv, TypeOK
<1>3. /\ asked[x] # Never => asked[x].at <= now
      /\ answered[x] # Never => answered[x].at <= now
  BY DEF TracedInv, OccasionsInv
<1>4. \A c \in Nat : ~ Overdue(0, c)
  BY DEF Overdue
<1>5. ASSUME asked[x] # Never, RequestKept(x)
      PROVE  RequestKept(x)' \/ Expired(asked[x])'
  <2>1. CASE KeyOf[x] \in Open' /\ session'[KeyOf[x]] = session[KeyOf[x]]
    BY <2>1, <1>5 DEF RequestKept, WithRequest, Fresh
  <2>2. ASSUME NEW c \in now .. now', TimedOut(session[KeyOf[x]], c)
        PROVE  Expired(asked[x])'
    <3>1. c \in Nat /\ c >= now /\ c <= now'
      BY <1>2
    <3>2. Overdue(asked[x].stamp, c)
      BY <1>4, <1>5, <2>2, <3>1, OneHalfOnly DEF RequestKept, TimedOut
    <3>3. \/ asked[x].stamp > asked[x].at
          \/ now' - asked[x].stamp > AAA_CLEAN_UP_TIMEOUT_SEC
      BY <1>2, <1>3, <1>5, <3>1, <3>2, Constants DEF Overdue, Occasion
    <3> QED
      BY <3>3 DEF Expired
  <2> QED
    BY <1>5, <2>1, <2>2 DEF RequestKept
<1>6. ASSUME answered[x] # Never, ResponseKept(x)
      PROVE  ResponseKept(x)' \/ Expired(answered[x])'
  <2>1. CASE KeyOf[x] \in Open' /\ session'[KeyOf[x]] = session[KeyOf[x]]
    BY <2>1, <1>6 DEF ResponseKept, WithResponse, Fresh
  <2>2. ASSUME NEW c \in now .. now', TimedOut(session[KeyOf[x]], c)
        PROVE  Expired(answered[x])'
    <3>1. c \in Nat /\ c >= now /\ c <= now'
      BY <1>2
    <3>2. Overdue(answered[x].stamp, c)
      BY <1>4, <1>6, <2>2, <3>1, OneHalfOnly DEF ResponseKept, TimedOut
    <3>3. \/ answered[x].stamp > answered[x].at
          \/ now' - answered[x].stamp > AAA_CLEAN_UP_TIMEOUT_SEC
      BY <1>2, <1>3, <1>6, <3>1, <3>2, Constants DEF Overdue, Occasion
    <3> QED
      BY <3>3 DEF Expired
  <2> QED
    BY <1>6, <2>1, <2>2 DEF ResponseKept
<1>7. /\ Expired(asked[x]) => Expired(asked[x])'
      /\ Expired(answered[x]) => Expired(answered[x])'
  BY <1>2, Constants DEF Expired, Occasion
<1> QED
  BY <1>1, <1>5, <1>6, <1>7 DEF Traced, InTime

(* A half of x is handled now: everything but the session of its key, and  *)
(* what is known of x, stays as it is.                                     *)
LEMMA TracedOthers ==
  ASSUME Inv, TracedInv, NEW x \in Tx, now' = now, paired \subseteq paired',
         NEW t \in (now - MaxLag) .. (now + MaxSkew),
         \A y \in Tx \ {x} : asked'[y] = asked[y] /\ answered'[y] = answered[y],
         asked'[x] \in {asked[x], [at |-> now, stamp |-> t]},
         answered'[x] \in {answered[x], [at |-> now, stamp |-> t]},
         \A k \in Key \ {KeyOf[x]} :
           /\ k \in Open' <=> k \in Open
           /\ k \in Open => session'[k] = session[k],
         Alone(x) => Traced(x)'
  PROVE  TracedInv'
<1>1. now \in Nat
  BY DEF Inv, TypeOK
<1>2. OccasionsInv'
  <2>1. [at |-> now, stamp |-> t].at = now /\ [at |-> now, stamp |-> t].stamp = t
    OBVIOUS
  <2>2. now <= now /\ now - t <= MaxLag
    BY <1>1, Constants
  <2>3. ASSUME NEW y \in Tx, asked'[y] # Never
        PROVE  asked'[y].at <= now /\ asked'[y].at - asked'[y].stamp <= MaxLag
    <3>1. CASE asked'[y] = asked[y]
      BY <2>3, <3>1 DEF TracedInv, OccasionsInv
    <3>2. CASE asked'[y] = [at |-> now, stamp |-> t]
      BY <2>1, <2>2, <3>2
    <3> QED
      BY <3>1, <3>2
  <2>4. ASSUME NEW y \in Tx, answered'[y] # Never
        PROVE  answered'[y].at <= now /\ answered'[y].at - answered'[y].stamp <= MaxLag
    <3>1. CASE answered'[y] = answered[y]
      BY <2>4, <3>1 DEF TracedInv, OccasionsInv
    <3>2. CASE answered'[y] = [at |-> now, stamp |-> t]
      BY <2>1, <2>2, <3>2
    <3> QED
      BY <3>1, <3>2
  <2> QED
    BY <2>3, <2>4 DEF OccasionsInv
<1>3. ASSUME NEW y \in Tx, Alone(y) PROVE Traced(y)'
  <2>1. CASE y = x
    BY <1>3, <2>1
  <2>2. CASE y # x
    <3>1. KeyOf[y] \in Key \ {KeyOf[x]}
      BY <1>3, <2>2, KeyType DEF Alone
    <3>2. now' \in Nat /\ now' >= now
      BY <1>1
    <3>3. asked'[y] = asked[y] /\ answered'[y] = answered[y]
      BY <2>2
    <3> QED
      BY <1>3, <3>1, <3>2, <3>3, TracedElsewhere
  <2> QED
    BY <2>1, <2>2
<1> QED
  BY <1>2, <1>3 DEF TracedInv, Alone

(* A request.                                                              *)
LEMMA RequestTraced ==
  ASSUME Inv, TracedInv, NEW x \in Tx, NEW t \in (now - MaxLag) .. (now + MaxSkew),
         Request(x, t)
  PROVE  TracedInv'
<1> DEFINE o == [at |-> now, stamp |-> t]
           k == KeyOf[x]
<1>1. o \in Occasion /\ o # Never
  BY StampOfArrival
<1>2. k \in Key /\ x # NoTx
  BY KeyType
<1>3. /\ asked[x] = Never /\ asked' = [asked EXCEPT ![x] = o]
      /\ answered' = answered /\ now' = now
  BY DEF Request, Arrival
<1>4. /\ asked \in [Tx -> Occasion] /\ answered \in [Tx -> Occasion]
      /\ session \in [Open -> Session]
  BY DEF Inv, TypeOK, Session
<1>5. /\ asked'[x] = o /\ o.stamp = t
      /\ \A y \in Tx \ {x} : asked'[y] = asked[y] /\ answered'[y] = answered[y]
  BY <1>3, <1>4
<1>6. \A j \in Key \ {k} : /\ j \in Open' <=> j \in Open
                           /\ j \in Open => session'[j] = session[j]
  <2>1. CASE session' = Put(k, WithRequest(Fresh, x, t))
    BY <2>1 DEF Put, Open
  <2>2. CASE session' = Without({k})
    BY <2>2 DEF Without, Open
  <2>3. CASE session' = session
    BY <2>3 DEF Open
  <2> QED
    BY <2>1, <2>2, <2>3 DEF Request
<1>7. paired \subseteq paired'
  BY DEF Request
<1>8. Alone(x) => Traced(x)'
  <2> SUFFICES ASSUME Alone(x) PROVE Traced(x)'
    OBVIOUS
  <2>1. answered[x] = Never => k \notin Open
    BY <1>3 DEF TracedInv, Traced
  <2>2. answered[x] # Never =>
          \/ ResponseKept(x)
          \/ ~ InTime(o, answered[x]) /\ ~ InTime(answered[x], o)
    <3> SUFFICES ASSUME answered[x] # Never, ~ ResponseKept(x)
                 PROVE  ~ InTime(o, answered[x]) /\ ~ InTime(answered[x], o)
      OBVIOUS
    <3>1. Expired(answered[x])
      BY <1>3 DEF TracedInv, Traced
    <3>2. answered[x].at <= now /\ answered[x].at - answered[x].stamp <= MaxLag
      BY DEF TracedInv, OccasionsInv
    <3>3. o.at = now
      OBVIOUS
    <3> HIDE DEF o
    <3> QED
      BY <1>1, <1>4, <3>1, <3>2, <3>3, ExpiredIsLate
  <2>3. ResponseKept(x) =>
          k \in Open /\ session[k].request = NoTx /\ session[k].response = x
    BY OneHalfOnly DEF ResponseKept
  <2>4. k \notin Open => RequestKept(x)'
    <3> SUFFICES ASSUME k \notin Open PROVE RequestKept(x)'
      OBVIOUS
    <3>1. session' = Put(k, WithRequest(Fresh, x, t))
      BY DEF Request
    <3>2. k \in Open' /\ session'[k] = WithRequest(Fresh, x, t)
      BY <3>1 DEF Put, Open
    <3> QED
      BY <1>5, <3>2 DEF RequestKept, WithRequest, Fresh
  <2>5. ResponseKept(x) => <<x, x>> \in paired'
    BY <1>2, <2>3 DEF Request
  <2> HIDE DEF o
  <2> QED
    BY <1>1, <1>3, <1>5, <2>1, <2>2, <2>4, <2>5 DEF Traced
<1> QED
  BY <1>3, <1>5, <1>6, <1>7, <1>8, TracedOthers

(* A response.                                                             *)
LEMMA ResponseTraced ==
  ASSUME Inv, TracedInv, NEW x \in Tx, NEW t \in (now - MaxLag) .. (now + MaxSkew),
         Response(x, t)
  PROVE  TracedInv'
<1> DEFINE o == [at |-> now, stamp |-> t]
           k == KeyOf[x]
<1>1. o \in Occasion /\ o # Never
  BY StampOfArrival
<1>2. k \in Key /\ x # NoTx
  BY KeyType
<1>3. /\ answered[x] = Never /\ answered' = [answered EXCEPT ![x] = o]
      /\ asked' = asked /\ now' = now
  BY DEF Response, Arrival
<1>4. /\ answered \in [Tx -> Occasion] /\ asked \in [Tx -> Occasion]
      /\ session \in [Open -> Session]
  BY DEF Inv, TypeOK, Session
<1>5. /\ answered'[x] = o /\ o.stamp = t
      /\ \A y \in Tx \ {x} : answered'[y] = answered[y] /\ asked'[y] = asked[y]
  BY <1>3, <1>4
<1>6. \A j \in Key \ {k} : /\ j \in Open' <=> j \in Open
                           /\ j \in Open => session'[j] = session[j]
  <2>1. CASE session' = Put(k, WithResponse(Fresh, x, t))
    BY <2>1 DEF Put, Open
  <2>2. CASE session' = Without({k})
    BY <2>2 DEF Without, Open
  <2>3. CASE session' = session
    BY <2>3 DEF Open
  <2> QED
    BY <2>1, <2>2, <2>3 DEF Response
<1>7. paired \subseteq paired'
  BY DEF Response
<1>8. Alone(x) => Traced(x)'
  <2> SUFFICES ASSUME Alone(x) PROVE Traced(x)'
    OBVIOUS
  <2>1. asked[x] = Never => k \notin Open
    BY <1>3 DEF TracedInv, Traced
  <2>2. asked[x] # Never =>
          \/ RequestKept(x)
          \/ ~ InTime(o, asked[x]) /\ ~ InTime(asked[x], o)
    <3> SUFFICES ASSUME asked[x] # Never, ~ RequestKept(x)
                 PROVE  ~ InTime(o, asked[x]) /\ ~ InTime(asked[x], o)
      OBVIOUS
    <3>1. Expired(asked[x])
      BY <1>3 DEF TracedInv, Traced
    <3>2. asked[x].at <= now /\ asked[x].at - asked[x].stamp <= MaxLag
      BY DEF TracedInv, OccasionsInv
    <3>3. o.at = now
      OBVIOUS
    <3> HIDE DEF o
    <3> QED
      BY <1>1, <1>4, <3>1, <3>2, <3>3, ExpiredIsLate
  <2>3. RequestKept(x) =>
          k \in Open /\ session[k].response = NoTx /\ session[k].request = x
    BY OneHalfOnly DEF RequestKept
  <2>4. k \notin Open => ResponseKept(x)'
    <3> SUFFICES ASSUME k \notin Open PROVE ResponseKept(x)'
      OBVIOUS
    <3>1. session' = Put(k, WithResponse(Fresh, x, t))
      BY DEF Response
    <3>2. k \in Open' /\ session'[k] = WithResponse(Fresh, x, t)
      BY <3>1 DEF Put, Open
    <3> QED
      BY <1>5, <3>2 DEF ResponseKept, WithResponse, Fresh
  <2>5. RequestKept(x) => <<x, x>> \in paired'
    BY <1>2, <2>3 DEF Response
  <2> HIDE DEF o
  <2> QED
    BY <1>1, <1>3, <1>5, <2>1, <2>2, <2>4, <2>5 DEF Traced
<1> QED
  BY <1>3, <1>5, <1>6, <1>7, <1>8, TracedOthers

(* The clock.                                                              *)
LEMMA TickTraced ==
  ASSUME Inv, TracedInv, Tick
  PROVE  TracedInv'
<1>1. now \in Nat /\ now' \in Nat /\ now' >= now
  BY DEF Inv, TypeOK, Tick
<1>2. UNCHANGED <<session, asked, answered, paired>>
  BY DEF Tick
<1>3. OccasionsInv'
  <2>1. \A x \in Tx : asked[x] \in Occasion /\ answered[x] \in Occasion
    BY DEF Inv, TypeOK
  <2> QED
    BY <1>1, <1>2, <2>1 DEF TracedInv, OccasionsInv, Occasion
<1>4. ASSUME NEW x \in Tx, Alone(x) PROVE Traced(x)'
  BY <1>1, <1>2, <1>4, TracedElsewhere DEF Open
<1> QED
  BY <1>3, <1>4 DEF TracedInv, Alone

(* The scan.                                                               *)
LEMMA ScanTraced ==
  ASSUME Inv, TracedInv, Scan
  PROVE  TracedInv'
<1>1. PICK clock \in [Open -> {now, now + 1}] :
        /\ now' = IF \E k \in Open : clock[k] > now THEN now + 1 ELSE now
        /\ overdue' = {k \in Open : TimedOut(session[k], clock[k])}
        /\ session' = Without(Erased(overdue'))
        /\ UNCHANGED <<asked, answered, paired>>
  BY DEF Scan
<1>2. now \in Nat /\ now' \in Nat /\ now' >= now
  BY <1>1 DEF Inv, TypeOK
<1> DEFINE K == Erased(overdue')
<1>3. /\ Open' = Open \ K
      /\ \A k \in Open \ K : session'[k] = session[k]
  BY <1>1 DEF Without, Open
<1>4. \A k \in Open : clock[k] \in now .. now'
  BY <1>1, <1>2
<1>5. \A k \in K : k \in Open /\ TimedOut(session[k], clock[k])
  BY <1>1 DEF Erased
<1>6. OccasionsInv'
  <2>1. \A x \in Tx : asked[x] \in Occasion /\ answered[x] \in Occasion
    BY DEF Inv, TypeOK
  <2> QED
    BY <1>1, <1>2, <2>1 DEF TracedInv, OccasionsInv, Occasion
<1> HIDE DEF K
<1>7. ASSUME NEW x \in Tx, Alone(x) PROVE Traced(x)'
  <2>1. KeyOf[x] \in Open' => KeyOf[x] \in Open
    BY <1>3
  <2>2. KeyOf[x] \in Open =>
          \/ KeyOf[x] \in Open' /\ session'[KeyOf[x]] = session[KeyOf[x]]
          \/ \E c \in now .. now' : TimedOut(session[KeyOf[x]], c)
    BY <1>3, <1>4, <1>5
  <2> QED
    BY <1>1, <1>2, <1>7, <2>1, <2>2, TracedElsewhere
<1> QED
  BY <1>6, <1>7 DEF TracedInv, Alone

(* The initial states and every step.                                      *)
LEMMA InitTraced == Init => TracedInv
<1> SUFFICES ASSUME Init PROVE TracedInv
  OBVIOUS
<1>1. \A x \in Tx : asked[x] = Never /\ answered[x] = Never
  BY DEF Init
<1>2. Open = {}
  BY DEF Init, Open
<1> QED
  BY <1>1, <1>2 DEF TracedInv, OccasionsInv, Traced

LEMMA NextTraced == Inv /\ TracedInv /\ [Next]_vars => TracedInv'
<1> SUFFICES ASSUME Inv, TracedInv, [Next]_vars PROVE TracedInv'
  OBVIOUS
<1>1. ASSUME NEW x \in Tx, NEW t \in (now - MaxLag) .. (now + MaxSkew), Request(x, t)
      PROVE  TracedInv'
  BY <1>1, RequestTraced
<1>2. ASSUME NEW x \in Tx, NEW t \in (now - MaxLag) .. (now + MaxSkew), Response(x, t)
      PROVE  TracedInv'
  BY <1>2, ResponseTraced
<1>3. CASE Scan
  BY <1>3, ScanTraced
<1>4. CASE Tick
  BY <1>4, TickTraced
<1>5. CASE UNCHANGED vars
  BY <1>5 DEF vars, TracedInv, OccasionsInv, Alone, Traced, RequestKept,
     ResponseKept, WithRequest, WithResponse, Fresh, Expired, InTime, Open
<1> QED
  BY <1>1, <1>2, <1>3, <1>4, <1>5 DEF Next

(* An exchange with a key of its own whose halves come within the time-out *)
(* is joined, also when the clock ticks while a scan goes on and whatever  *)
(* other exchanges share its hash.                                         *)
THEOREM AaaAnswersReported == Spec => []AnswersReported
<1>1. TracedInv => AnswersReported
  BY DEF TracedInv, Traced, AnswersReported
<1> QED
  BY InitStep, NextStep, InitTraced, NextTraced, <1>1, PTL DEF Spec

-----------------------------------------------------------------------------
(* Halves that wait.                                                       *)

\* At the last scan a session had not outlived the time-out, or was passed
\* over, or was not there yet: its stamp is then no older than MaxLag.
KeptByScan(k) ==
  \/ lastScan - Stamp(session[k]) <= AAA_CLEAN_UP_TIMEOUT_SEC
  \/ \E j \in overdue : Outranks(j, k)

WaitInv ==
  /\ lastScan <= now /\ now - lastScan <= SESSION_SCAN_FREQ_SEC
  /\ \A k \in Open : Stamp(session[k]) > 0 /\ KeptByScan(k)

LEMMA ScanFrequency ==
  /\ SESSION_SCAN_FREQ_SEC \in Nat /\ SESSION_SCAN_FREQ_SEC >= 1
BY AaaSessionAssumption

(* The stamp of a session is a number, that of its only half.              *)
LEMMA StampType ==
  ASSUME Inv, NEW k \in Open
  PROVE  /\ Stamp(session[k]) \in Nat
         /\ Stamp(session[k]) \in {session[k].start, session[k].end}
<1>1. session[k] \in Session
  BY DEF Inv, TypeOK, Session
<1> QED
  BY <1>1 DEF Stamp, Session

(* Packets open sessions with a stamp that is at most MaxLag old, and      *)
(* leave the stamps of the others alone.                                   *)
LEMMA ArrivalWaits ==
  ASSUME Inv, WaitInv, NEW x \in Tx, NEW t \in (now - MaxLag) .. (now + MaxSkew),
         Request(x, t) \/ Response(x, t)
  PROVE  WaitInv'
<1>1. /\ now \in Nat /\ lastScan \in Nat /\ lastScan <= now /\ t \in Int
      /\ now - MaxLag <= t /\ now >= FirstSec /\ MaxLag \in Nat
  BY Constants DEF Inv, TypeOK, WaitInv
<1>2. UNCHANGED <<now, lastScan, overdue>>
  BY DEF Request, Response, Arrival
<1>3. x # NoTx
  BY KeyType
<1>4. ASSUME NEW k \in Open', k \in Open => session'[k] # session[k]
      PROVE  Stamp(session'[k]) = t
  <2>1. \/ k = KeyOf[x] /\ session'[k] = WithRequest(Fresh, x, t)
        \/ k = KeyOf[x] /\ session'[k] = WithResponse(Fresh, x, t)
    BY <1>4 DEF Request, Response, Put, Without, Open
  <2> QED
    BY <1>3, <2>1, OneHalfOnly DEF Stamp
<1>5. ASSUME NEW k \in Open'
      PROVE  Stamp(session'[k]) > 0 /\ KeptByScan(k)'
  <2>1. CASE k \in Open /\ session'[k] = session[k]
    BY <1>2, <2>1 DEF WaitInv, KeptByScan, Stamp
  <2>2. CASE Stamp(session'[k]) = t
    BY <1>1, <1>2, <2>2, Constants DEF KeptByScan, Stamp
  <2> QED
    BY <1>4, <1>5, <2>1, <2>2
<1> QED
  BY <1>2, <1>5 DEF WaitInv

(* What a scan leaves has not timed out, or is passed over.                *)
LEMMA ScanWaits ==
  ASSUME Inv, WaitInv, Scan
  PROVE  WaitInv'
<1>1. PICK clock \in [Open -> {now, now + 1}] :
        /\ lastScan' = now
        /\ now' = IF \E k \in Open : clock[k] > now THEN now + 1 ELSE now
        /\ overdue' = {k \in Open : TimedOut(session[k], clock[k])}
        /\ session' = Without(Erased(overdue'))
  BY DEF Scan
<1>2. now \in Nat /\ now' \in {now, now + 1}
  BY <1>1 DEF Inv, TypeOK
<1>3. ASSUME NEW k \in Open'
      PROVE  Stamp(session'[k]) > 0 /\ KeptByScan(k)'
  <2>1. k \in Open /\ k \notin Erased(overdue') /\ session'[k] = session[k]
    BY <1>1 DEF Without, Open
  <2>2. Stamp(session[k]) \in Nat /\ Stamp(session[k]) > 0
    BY <2>1, StampType DEF WaitInv
  <2>3. CASE k \in overdue'
    <3>1. \E j \in overdue' : Outranks(j, k)
      BY <2>1, <2>3 DEF Erased
    <3> QED
      BY <2>1, <2>2, <3>1 DEF KeptByScan, Stamp, Outranks
  <2>4. CASE k \notin overdue'
    <3>1. ~ Overdue(Stamp(session[k]), clock[k])
      BY <1>1, <2>1, <2>4, StampType DEF TimedOut
    <3>2. clock[k] \in {now, now + 1}
      BY <2>1
    <3>3. now - Stamp(session[k]) <= AAA_CLEAN_UP_TIMEOUT_SEC
      BY <1>2, <2>2, <3>1, <3>2, Constants DEF Overdue
    <3> QED
      BY <1>1, <2>1, <2>2, <3>3 DEF KeptByScan, Stamp
  <2> QED
    BY <2>3, <2>4
<1> QED
  BY <1>1, <1>2, <1>3, ScanFrequency DEF WaitInv

LEMMA InitWaits == Init => WaitInv
<1> SUFFICES ASSUME Init PROVE WaitInv
  OBVIOUS
<1>1. FirstSec \in Nat /\ Open = {}
  BY Constants DEF Init, Open
<1> QED
  BY <1>1, ScanFrequency DEF Init, WaitInv

LEMMA NextWaits == Inv /\ WaitInv /\ [Next]_vars => WaitInv'
<1> SUFFICES ASSUME Inv, WaitInv, [Next]_vars PROVE WaitInv'
  OBVIOUS
<1>1. CASE Tick
  <2>1. now \in Nat /\ lastScan \in Nat /\ now' = now + 1 /\ lastScan' = lastScan
        /\ now - lastScan < SESSION_SCAN_FREQ_SEC
    BY <1>1 DEF Tick, Inv, TypeOK
  <2>2. UNCHANGED <<session, lastScan, overdue>>
    BY <1>1 DEF Tick
  <2> QED
    BY <2>1, <2>2, ScanFrequency DEF WaitInv, KeptByScan, Stamp, Open
<1>2. CASE UNCHANGED vars
  BY <1>2 DEF vars, WaitInv, KeptByScan, Stamp, Open
<1> QED
  BY <1>1, <1>2, ArrivalWaits, ScanWaits DEF Next

(* No half outlives the time-out by the time between two scans, unless a   *)
(* session with the same hash and a higher identifier had timed out too at *)
(* the last scan: cleanMap then has no room for both.                      *)
THEOREM AaaHalvesGoAway == Spec => []NoStaleHalf
<1>1. Inv /\ WaitInv => NoStaleHalf
  <2> SUFFICES ASSUME Inv, WaitInv, NEW k \in Open,
                      now - Stamp(session[k])
                        > AAA_CLEAN_UP_TIMEOUT_SEC + SESSION_SCAN_FREQ_SEC
               PROVE  \E j \in overdue : Outranks(j, k)
    BY DEF NoStaleHalf
  <2>1. now \in Nat /\ lastScan \in Nat /\ Stamp(session[k]) \in Nat
    BY StampType DEF Inv, TypeOK
  <2> QED
    BY <2>1, Constants, ScanFrequency DEF WaitInv, KeptByScan
<1> QED
  BY InitStep, NextStep, InitWaits, NextWaits, <1>1, PTL DEF Spec
=============================================================================
