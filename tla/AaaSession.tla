------------------------------ MODULE AaaSession -----------------------------
(***************************************************************************)
(* The AAA session manager (plugins/aaa/src/AaaSMInterface.cpp): it joins  *)
(* RADIUS requests and responses, whichever it sees first, reports them    *)
(* and applies the accounting ones to the user maps (UserMap).  A half     *)
(* without partner is removed without a report.                            *)
(*                                                                         *)
(* accessMap and accountingMap are arrays of maps: one map per RADIUS      *)
(* identifier, from a hash of addresses, ports and identifier to the       *)
(* session.  They are one function here, by [kind, ident, hash].  The scan *)
(* however collects what it will erase by hash alone.                      *)
(***************************************************************************)
EXTENDS Integers, FiniteSets

CONSTANTS
  Tx,                        \* RADIUS exchanges
  NoTx,                      \* the half that is missing
  Key,                       \* [kind, ident, hash]
  KeyOf,                     \* KeyOf[x]: the key of an exchange
  AAA_CLEAN_UP_TIMEOUT_SEC,  \* seconds a half may wait for the other
  SESSION_SCAN_FREQ_SEC,     \* seconds from scan to scan
  MaxLag,     \* seconds a packet's time stamp may be behind the clock
  MaxSkew,    \* seconds a packet's time stamp may be ahead of the clock
  FirstSec,   \* the clock at the start
  LastPktSec, \* bound: the last second in which packets arrive
  MaxSec      \* bound: the last second of the run

Side == {"request", "response"}

ASSUME AaaSessionAssumption ==
  /\ NoTx \notin Tx \cup (Side \X Tx)
  /\ \A k \in Key : k.kind \in {"access", "accounting"} /\ k.ident \in Nat
  /\ KeyOf \in [Tx -> Key]
  /\ AAA_CLEAN_UP_TIMEOUT_SEC \in Nat
  \* From 60 on no scan would ever be due.
  /\ SESSION_SCAN_FREQ_SEC \in 1 .. 59
  /\ MaxLag \in Nat /\ MaxSkew \in Nat
  /\ FirstSec \in Nat /\ LastPktSec \in Nat /\ MaxSec \in Nat
  \* A half cannot open after a scan and expire by the end of the next one,
  \* and seconds are those since 1970.
  /\ SESSION_SCAN_FREQ_SEC + MaxLag < AAA_CLEAN_UP_TIMEOUT_SEC
  /\ FirstSec > AAA_CLEAN_UP_TIMEOUT_SEC + MaxLag

VARIABLES
  now,       \* Global::CURRENT_EPOCH_SEC
  session,   \* accessMap and accountingMap: key -> aaaSession
  lastScan,  \* the second of the last timeOutCleanSession
  \* History, for the properties only:
  asked,     \* when the request of an exchange was handled, with its stamp
  answered,  \* when its response was handled, with its stamp
  paired,    \* <<request, response>> of the reports
  overdue    \* the sessions the last scan found timed out

vars == <<now, session, lastScan, asked, answered, paired, overdue>>

Never == [at |-> 0, stamp |-> 0]

-----------------------------------------------------------------------------
(* The maps and the session object.                                        *)

Open == DOMAIN session

Put(k, s) == [j \in Open \cup {k} |-> IF j = k THEN s ELSE session[j]]
Without(K) == [j \in Open \ K |-> session[j]]

Fresh == [request |-> NoTx, response |-> NoTx, start |-> 0, end |-> 0]

\* createSession and updateSession.
WithRequest(s, x, t) == [s EXCEPT !.request = x, !.start = t]
WithResponse(s, x, t) == [s EXCEPT !.response = x, !.end = t]

\* The difference of two uint64_t.
Overdue(stamp, clock) ==
  /\ stamp > 0
  /\ clock - stamp < 0 \/ clock - stamp > AAA_CLEAN_UP_TIMEOUT_SEC

\* Mutant: responses without request are never given up.
RequestTimedOut(s, clock) == Overdue(s.start, clock)

\* Mutant: time is measured from the end that is not there yet.
TimedOutAtOnce(s, clock) == clock - s.end > AAA_CLEAN_UP_TIMEOUT_SEC

TimedOut(s, clock) == Overdue(s.start, clock) \/ Overdue(s.end, clock)

-----------------------------------------------------------------------------
Init ==
  /\ now = FirstSec
  /\ session = [k \in {} |-> Fresh]
  /\ lastScan = FirstSec
  /\ asked = [x \in Tx |-> Never]
  /\ answered = [x \in Tx |-> Never]
  /\ paired = {} /\ overdue = {}

\* Timer::run.  AaaSM::run scans every SESSION_SCAN_FREQ_SEC seconds.
Tick ==
  /\ now < MaxSec
  /\ now - lastScan < SESSION_SCAN_FREQ_SEC
  /\ now' = now + 1
  /\ UNCHANGED <<session, lastScan, asked, answered, paired, overdue>>

Arrival(t) ==
  /\ now <= LastPktSec
  /\ t \in (now - MaxLag) .. (now + MaxSkew)
  /\ UNCHANGED <<now, lastScan, overdue>>

\* processAccessRequest and processAccountingRequest: a request opens a
\* session or completes one that holds a response; a repeated one is ignored.
Request(x, t) ==
  LET k == KeyOf[x]
  IN  /\ asked[x] = Never
      /\ Arrival(t)
      /\ asked' = [asked EXCEPT ![x] = [at |-> now, stamp |-> t]]
      /\ \/ /\ k \notin Open
            /\ session' = Put(k, WithRequest(Fresh, x, t))
            /\ UNCHANGED paired
         \/ /\ k \in Open /\ session[k].response # NoTx
            /\ paired' = paired \cup {<<x, session[k].response>>}
            /\ session' = Without({k})
         \/ /\ k \in Open /\ session[k].response = NoTx
            /\ UNCHANGED <<session, paired>>
      /\ UNCHANGED answered

\* Mutant: the session stays in its map once it is reported.
ResponseKeepsSession(x, t) ==
  LET k == KeyOf[x]
  IN  /\ answered[x] = Never
      /\ Arrival(t)
      /\ answered' = [answered EXCEPT ![x] = [at |-> now, stamp |-> t]]
      /\ \/ /\ k \notin Open
            /\ session' = Put(k, WithResponse(Fresh, x, t))
            /\ UNCHANGED paired
         \/ /\ k \in Open
            /\ session' = Put(k, WithResponse(session[k], x, t))
            /\ paired' = IF session[k].request = NoTx THEN paired
                         ELSE paired \cup {<<session[k].request, x>>}
      /\ UNCHANGED asked

\* processAccessResponse and processAccountingResponse.
Response(x, t) ==
  LET k == KeyOf[x]
  IN  /\ answered[x] = Never
      /\ Arrival(t)
      /\ answered' = [answered EXCEPT ![x] = [at |-> now, stamp |-> t]]
      /\ \/ /\ k \notin Open
            /\ session' = Put(k, WithResponse(Fresh, x, t))
            /\ UNCHANGED paired
         \/ /\ k \in Open /\ session[k].request # NoTx
            /\ paired' = paired \cup {<<session[k].request, x>>}
            /\ session' = Without({k})
         \/ /\ k \in Open /\ session[k].request = NoTx
            /\ UNCHANGED <<session, paired>>
      /\ UNCHANGED asked

\* Of two sessions with one hash the scan of a map forgets the first.
Outranks(j, k) == j.kind = k.kind /\ j.hash = k.hash /\ j.ident > k.ident

\* cleanMap has room for one identifier per hash: the last one scanned.
Erased(expired) == {k \in expired : \A j \in expired : ~ Outranks(j, k)}

\* The order of timeOutCleanSession: access before accounting, each by
\* identifier.
Before(j, k) ==
  \/ j.kind = "access" /\ k.kind = "accounting"
  \/ j.kind = k.kind /\ j.ident < k.ident

\* timeOutCleanSession reads the clock for every session; it may tick
\* meanwhile.
Scan ==
  \E clock \in [Open -> {now, now + 1}] :
    /\ now > lastScan
    /\ lastScan' = now
    /\ \A j, k \in Open : Before(j, k) => clock[j] <= clock[k]
    /\ now' = IF \E k \in Open : clock[k] > now THEN now + 1 ELSE now
    /\ now' <= MaxSec
    /\ overdue' = {k \in Open : TimedOut(session[k], clock[k])}
    /\ session' = Without(Erased(overdue'))
    /\ UNCHANGED <<asked, answered, paired>>

Next ==
  \/ Tick
  \/ \E x \in Tx : \E t \in (now - MaxLag) .. (now + MaxSkew) :
       Request(x, t) \/ Response(x, t)
  \/ Scan

Spec == Init /\ [][Next]_vars

-----------------------------------------------------------------------------
(* Properties.                                                             *)

Occasion == [at : Nat, stamp : Nat]

TypeOK ==
  /\ now \in Nat /\ lastScan \in Nat
  /\ Open \subseteq Key
  /\ session \in [Open -> [request : Tx \cup {NoTx}, response : Tx \cup {NoTx},
                           start : Nat, end : Nat]]
  /\ asked \in [Tx -> Occasion] /\ answered \in [Tx -> Occasion]
  /\ paired \subseteq Tx \X Tx /\ overdue \subseteq Key

Stamp(s) == IF s.request # NoTx THEN s.start ELSE s.end

(* A half outlives the time-out by less than one time between scans, unless *)
(* the last scan passed it over for a session of the same hash and a higher *)
(* identifier.  Such a session may open and time out again and again, so    *)
(* that the lower one is passed over at every scan: for it there is no      *)
(* bound.                                                                   *)
NoStaleHalf ==
  \A k \in Open :
    now - Stamp(session[k]) > AAA_CLEAN_UP_TIMEOUT_SEC + SESSION_SCAN_FREQ_SEC
      => \E j \in overdue : Outranks(j, k)

HalfOf(s) ==
  IF s.request # NoTx THEN <<"request", s.request>> ELSE <<"response", s.response>>

Waiting == [k \in Key |-> IF k \in Open THEN HalfOf(session[k]) ELSE NoTx]

Seen == {h \in Side \X Tx :
           \/ h[1] = "request" /\ asked[h[2]] # Never
           \/ h[1] = "response" /\ answered[h[2]] # Never}

Halves == INSTANCE HalfJoin WITH
  Nobody <- NoTx, waiting <- Waiting, seen <- Seen, pairs <- paired

(* Behind maps, clock and scan the manager only joins halves: no request   *)
(* is reported, or applied to the user maps, with two responses, and no    *)
(* response with two requests.                                             *)
ImplementsHalfJoin == Halves!HalfSpec

Alone(x) == \A y \in Tx : KeyOf[y] = KeyOf[x] => y = x

\* Occasion b came before the half of occasion a could be given up, and
\* neither of them was stamped ahead of the clock.
InTime(a, b) ==
  /\ a.stamp <= a.at /\ a.at <= b.at
  /\ b.stamp <= b.at
  /\ b.at - a.stamp <= AAA_CLEAN_UP_TIMEOUT_SEC

(* An exchange that shares its key with no other is joined if both halves  *)
(* came within the time-out, in either order, also when the clock ticks    *)
(* while a scan goes on.                                                   *)
AnswersReported ==
  \A x \in Tx :
    /\ Alone(x)
    /\ asked[x] # Never /\ answered[x] # Never
    /\ InTime(asked[x], answered[x]) \/ InTime(answered[x], asked[x])
    => <<x, x>> \in paired
=============================================================================
