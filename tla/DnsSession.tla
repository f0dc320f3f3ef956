------------------------------ MODULE DnsSession ------------------------------
(***************************************************************************)
(* The DNS session manager (plugins/dns/src/DnsSMInterface.cpp): it joins  *)
(* the query and the response of a transaction into one report, whichever  *)
(* of them it sees first, and reports queries that stay without response.  *)
(*                                                                         *)
(* A transaction is known by a key made of addresses, port and transaction *)
(* number only.  Clients use numbers again and repeat queries, so several  *)
(* transactions may have one key.                                          *)
(***************************************************************************)
EXTENDS SessionPool

CONSTANTS
  Tx,                        \* transactions
  NoTx,                      \* the half that is missing
  KeyOf,                     \* KeyOf[x]: the key of a transaction
  NoUrl,                     \* transactions whose query has an empty name
  DNS_CLEAN_UP_TIMEOUT_SEC,  \* seconds a half may wait for the other
  SESSION_SCAN_FREQ_SEC,     \* seconds from scan to scan
  MaxLag,     \* seconds a packet's time stamp may be behind the clock
  MaxSkew,    \* seconds a packet's time stamp may be ahead of the clock
  FirstSec,   \* the clock at the start
  LastPktSec, \* bound: the last second in which packets arrive
  MaxSec      \* bound: the last second of the run

ASSUME DnsSessionAssumption ==
  /\ NoTx \notin Tx
  /\ KeyOf \in [Tx -> Flow]
  /\ NoUrl \subseteq Tx
  /\ DNS_CLEAN_UP_TIMEOUT_SEC \in Nat
  \* The second of the minute, divided by it, is compared: from 60 on no scan
  \* would ever be due.
  /\ SESSION_SCAN_FREQ_SEC \in 1 .. 59
  /\ MaxLag \in Nat /\ MaxSkew \in Nat
  /\ FirstSec \in Nat /\ LastPktSec \in Nat /\ MaxSec \in Nat
  \* Packets come to the manager in less than the time-out, and seconds are
  \* those since 1970.
  /\ MaxLag <= DNS_CLEAN_UP_TIMEOUT_SEC
  /\ FirstSec > DNS_CLEAN_UP_TIMEOUT_SEC + MaxLag

VARIABLES
  now,        \* Global::CURRENT_EPOCH_SEC
  session,    \* the dnsSession object at each position of the pool
  lastScan,   \* the second of the last sessionTimeOutClean
  \* History, for the properties only:
  asked,      \* when the query of a transaction was handled, with its stamp
  answered,   \* when its response was handled, with its stamp
  refused,    \* transactions a half of which found no room
  paired,     \* <<query, response>> for the reports of both
  unanswered  \* queries reported as "No Response"

ghosts == <<asked, answered, refused, paired, unanswered>>
vars == <<poolVars, now, session, lastScan, ghosts>>

Never == [at |-> 0, stamp |-> 0]

-----------------------------------------------------------------------------
(* The session object.                                                     *)

Fresh == [state |-> "none", query |-> NoTx, response |-> NoTx,
          queryStart |-> 0, queryEnd |-> 0]

\* requestUpdateDnsSession and responseUpdateDnsSession.
Request(s, x, t) ==
  [s EXCEPT !.state = "QUERY", !.query = x, !.queryStart = t]

Response(s, x, t) ==
  [s EXCEPT !.state = "RESPONSE", !.response = x, !.queryEnd = t]

\* When the half that is there was stamped.
Stamp(s) == IF s.state = "QUERY" THEN s.queryStart ELSE s.queryEnd

\* Mutant: a half is given up after the time-out of the other state.
TimedOutByQuery(s) == now - s.queryStart > DNS_CLEAN_UP_TIMEOUT_SEC

\* Mutant: the limit is not looked at for responses.
TimedOutQueryOnly(s) ==
  s.state = "QUERY" /\ now - s.queryStart > DNS_CLEAN_UP_TIMEOUT_SEC

\* The difference of two uint64_t.
TimedOut(s) ==
  /\ Stamp(s) > 0
  /\ now - Stamp(s) < 0 \/ now - Stamp(s) > DNS_CLEAN_UP_TIMEOUT_SEC

-----------------------------------------------------------------------------
Init ==
  /\ PoolInit
  /\ now = FirstSec
  /\ session = [p \in Pos |-> Fresh]
  /\ lastScan = FirstSec
  /\ asked = [x \in Tx |-> Never]
  /\ answered = [x \in Tx |-> Never]
  /\ refused = {} /\ paired = {} /\ unanswered = {}

\* Timer::run.  DnsSM::run scans every SESSION_SCAN_FREQ_SEC seconds.
Tick ==
  /\ now < MaxSec
  /\ now - lastScan < SESSION_SCAN_FREQ_SEC
  /\ now' = now + 1
  /\ UNCHANGED <<poolVars, session, lastScan, ghosts>>

\* Sessions leave the pool: releaseIndexDns by position, erase by key.
Release(F) ==
  LET positions == {sessionMap[f] : f \in F}
  IN  /\ session' = [p \in Pos |-> IF p \in positions THEN Fresh ELSE session[p]]
      /\ key' = [p \in Pos |-> IF p \in positions THEN NoFlow ELSE key[p]]
      /\ bitFlags' = bitFlags \ positions
      /\ sessionMap' = [f \in Used \ F |-> sessionMap[f]]
      /\ UNCHANGED <<freeBitPos, poolIndex>>

\* A packet of transaction x may be handled now with time stamp t.
Arrival(x, t) ==
  /\ now <= LastPktSec
  /\ t \in (now - MaxLag) .. (now + MaxSkew)
  /\ UNCHANGED <<now, lastScan, unanswered>>

\* A half for which there is no session opens one, if there is room.
Open(x, s) ==
  \/ /\ \E p \in Pos :
          /\ Create(KeyOf[x], p)
          /\ session' = [session EXCEPT ![p] = s]
     /\ UNCHANGED refused
  \/ /\ KeyOf[x] \notin Used
     /\ ~ HasRoom
     /\ refused' = refused \cup {x}
     /\ UNCHANGED <<poolVars, session>>

\* Mutant: the state of the session is not looked at.
QueryAnyState(x, t) ==
  /\ asked[x] = Never
  /\ Arrival(x, t)
  /\ asked' = [asked EXCEPT ![x] = [at |-> now, stamp |-> t]]
  /\ UNCHANGED answered
  /\ \/ Open(x, Request(Fresh, x, t)) /\ UNCHANGED paired
     \/ /\ KeyOf[x] \in Used
        /\ Release({KeyOf[x]})
        /\ UNCHANGED <<paired, refused>>

\* DnsPacketEntry, QUERY: it opens a session, or completes a session that
\* holds a response; a repeated query is ignored.
Query(x, t) ==
  /\ asked[x] = Never
  /\ Arrival(x, t)
  /\ asked' = [asked EXCEPT ![x] = [at |-> now, stamp |-> t]]
  /\ UNCHANGED answered
  /\ \/ Open(x, Request(Fresh, x, t)) /\ UNCHANGED paired
     \/ /\ KeyOf[x] \in Used
        /\ LET s == session[sessionMap[KeyOf[x]]]
           IN  IF s.state = "RESPONSE"
               THEN /\ paired' = paired \cup {<<x, s.response>>}
                    /\ Release({KeyOf[x]})
               ELSE UNCHANGED <<poolVars, session, paired>>
        /\ UNCHANGED refused

\* Mutant: the session is not released once it is reported.
AnswerKeepsSession(x, t) ==
  /\ answered[x] = Never
  /\ Arrival(x, t)
  /\ answered' = [answered EXCEPT ![x] = [at |-> now, stamp |-> t]]
  /\ UNCHANGED asked
  /\ \/ Open(x, Response(Fresh, x, t)) /\ UNCHANGED paired
     \/ /\ KeyOf[x] \in Used
        /\ LET s == session[sessionMap[KeyOf[x]]]
           IN  paired' = IF s.state = "QUERY" THEN paired \cup {<<s.query, x>>}
                         ELSE paired
        /\ UNCHANGED <<poolVars, session, refused>>

\* DnsPacketEntry, RESPONSE: the same the other way round.
Answer(x, t) ==
  /\ answered[x] = Never
  /\ Arrival(x, t)
  /\ answered' = [answered EXCEPT ![x] = [at |-> now, stamp |-> t]]
  /\ UNCHANGED asked
  /\ \/ Open(x, Response(Fresh, x, t)) /\ UNCHANGED paired
     \/ /\ KeyOf[x] \in Used
        /\ LET s == session[sessionMap[KeyOf[x]]]
           IN  IF s.state = "QUERY"
               THEN /\ paired' = paired \cup {<<s.query, x>>}
                    /\ Release({KeyOf[x]})
               ELSE UNCHANGED <<poolVars, session, paired>>
        /\ UNCHANGED refused

\* Mutant: what is given up is reported in every state.
ScanReportsAll ==
  LET expired == {f \in Used : TimedOut(session[sessionMap[f]])}
  IN  /\ now > lastScan
      /\ lastScan' = now
      /\ Release(expired)
      /\ unanswered' = unanswered \cup
                         {session[sessionMap[f]].query : f \in expired}
      /\ UNCHANGED <<now, asked, answered, refused, paired>>

\* sessionTimeOutClean reads the clock once: queries that have waited too
\* long are reported if they have a name, responses just go.
Scan ==
  LET expired == {f \in Used : TimedOut(session[sessionMap[f]])}
      queries == {session[sessionMap[f]].query : f \in expired} \ {NoTx}
  IN  /\ now > lastScan
      /\ lastScan' = now
      /\ Release(expired)
      /\ unanswered' = unanswered \cup (queries \ NoUrl)
      /\ UNCHANGED <<now, asked, answered, refused, paired>>

Next ==
  \/ Tick
  \/ \E x \in Tx : \E t \in (now - MaxLag) .. (now + MaxSkew) :
       Query(x, t) \/ Answer(x, t)
  \/ Scan

Spec == Init /\ [][Next]_vars

-----------------------------------------------------------------------------
(* Properties.                                                             *)

Occasion == [at : Nat, stamp : Nat]

Session ==
  [state : {"none", "QUERY", "RESPONSE"}, query : Tx \cup {NoTx},
   response : Tx \cup {NoTx}, queryStart : Nat, queryEnd : Nat]

TypeOK ==
  /\ PoolTypeOK
  /\ now \in Nat /\ lastScan \in Nat
  /\ session \in [Pos -> Session]
  /\ asked \in [Tx -> Occasion] /\ answered \in [Tx -> Occasion]
  /\ refused \subseteq Tx
  /\ paired \subseteq Tx \X Tx
  /\ unanswered \subseteq Tx

(* No half outlives the time-out by more than the time between two scans.  *)
(* So a number that is used again later than that is never joined with     *)
(* what the earlier transaction has left behind.                           *)
NoStaleHalf ==
  \A f \in Used :
    now - Stamp(session[sessionMap[f]])
      <= DNS_CLEAN_UP_TIMEOUT_SEC + SESSION_SCAN_FREQ_SEC

HalfOf(s) ==
  IF s.state = "QUERY" THEN <<"request", s.query>> ELSE <<"response", s.response>>

\* The half that waits under each key, and the halves handled so far.
Waiting ==
  [f \in Flow |-> IF f \in Used THEN HalfOf(session[sessionMap[f]]) ELSE NoTx]
Seen == {h \in {"request", "response"} \X Tx :
           \/ h[1] = "request" /\ asked[h[2]] # Never
           \/ h[1] = "response" /\ answered[h[2]] # Never}

Halves == INSTANCE HalfJoin WITH
  Key <- Flow, Nobody <- NoTx, waiting <- Waiting, seen <- Seen, pairs <- paired

(* Behind pool, clock and scan the manager only joins halves: no query is  *)
(* reported with two responses and no response with two queries.           *)
ImplementsHalfJoin == Halves!HalfSpec

Alone(x) == \A y \in Tx : KeyOf[y] = KeyOf[x] => y = x

\* Occasion b came before the half of occasion a could be given up, and
\* neither of them was stamped ahead of the clock.
InTime(a, b) ==
  /\ a.stamp <= a.at /\ a.at <= b.at
  /\ b.stamp <= b.at
  /\ b.at - a.stamp <= DNS_CLEAN_UP_TIMEOUT_SEC

(* A transaction that shares its key with no other, found room and of      *)
(* which both halves came within the time-out, in either order, has been   *)
(* reported as answered.                                                   *)
AnswersReported ==
  \A x \in Tx :
    /\ Alone(x) /\ x \notin refused
    /\ asked[x] # Never /\ answered[x] # Never
    /\ InTime(asked[x], answered[x]) \/ InTime(answered[x], asked[x])
    => <<x, x>> \in paired
=============================================================================
