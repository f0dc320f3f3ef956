------------------------------- MODULE Reports --------------------------------
(***************************************************************************)
(* What a report says.  The managers count the payload of a session per    *)
(* direction, and a second time per second (packTimeMap); the flushers     *)
(* (FUtility.cpp) turn the copy of a session into a line: totals, a series *)
(* of volumes per second, and for TCP the times of the handshake, with     *)
(* what is missing made up and all of it put in order.  The throughputs,   *)
(* which are quotients of the same numbers, are left out, and so are users *)
(* and names (see UserMap).                                                *)
(*                                                                         *)
(* One session of one protocol at a time.  Sizes are small numbers, and so *)
(* is SmallSize, which is 60 bytes in the code; a second has Nano units    *)
(* of the finer clock.                                                     *)
(***************************************************************************)
EXTENDS Integers, Sequences, FiniteSets, FiniteSetsExt, SequencesExt

CONSTANTS
  Payload,                \* sizes of payloads other than 0
  HeaderSize,          \* what a frame has on top of its payload
  SmallSize,           \* sessions up to this size are not reported
  MinCleanFrames,      \* TCP sessions with fewer frames are not, by a scan
  SeriesLen,           \* how many seconds a series has room for
  VPS_PACKET_PER_SEC, SESSION_PKT_LIMIT, SESSION_TIME_LIMIT,
  MaxLag,              \* bound: how late a packet is handled
  FirstSec, LastSec    \* bound: the seconds of the run

ASSUME ReportsAssumption ==
  /\ Payload \subseteq Nat \ {0}
  /\ HeaderSize \in Nat /\ SmallSize \in Nat /\ MinCleanFrames \in Nat
  /\ SeriesLen \in Nat
  /\ VPS_PACKET_PER_SEC \in Nat
  /\ SESSION_PKT_LIMIT \in Nat \ {0} /\ SESSION_TIME_LIMIT \in Nat \ {0}
  /\ MaxLag \in Nat
  /\ FirstSec \in Nat /\ LastSec \in Nat /\ FirstSec > MaxLag + 1

VARIABLES
  proto,    \* the protocol of the session
  clock,    \* CURRENT_EPOCH_SEC
  open,     \* there is a session
  session,  \* its object
  vpsFlag,  \* the manager's verdict of the last payload packet
  reports   \* what the last step has reported

repVars == <<proto, clock, open, session, vpsFlag, reports>>

Dir == {"UP", "DOWN"}
Second == (FirstSec - MaxLag) .. LastSec
Handshake == {"SYN", "SYNACK", "ACK", "DATA"}
NoTime == 0
Nano == 100
Milli == 30   \* of these in a millisecond
FillIn == 10  \* made-up times are 10 nanoseconds apart

-----------------------------------------------------------------------------
(* The session object.                                                     *)

NoSecond == [vol |-> [d \in Dir |-> 0], pkts |-> [d \in Dir |-> 0]]

Fresh(t) ==
  [rcv |-> [h \in Handshake |-> NoTime], start |-> t, last |-> t, frames |-> 0,
   frSize |-> [d \in Dir |-> 0], pLoad |-> [d \in Dir |-> 0],
   secs |-> [u \in {} |-> NoSecond]]

\* timeStampArrivalPacket and updateTime: the last packet of a kind counts.
Arrive(s, flag, t) ==
  [s EXCEPT !.last = t,
            !.rcv = IF flag \in Handshake /\ proto = "tcp"
                    THEN [@ EXCEPT ![flag] = Nano * t] ELSE @]

SecondOf(s, t) == IF t \in DOMAIN s.secs THEN s.secs[t] ELSE NoSecond

\* updateVPS: is there room for one more packet with payload?
WithinVps(s, d, t) ==
  d = "DOWN" => ~ (SecondOf(s, t).pkts[d] > VPS_PACKET_PER_SEC)

\* updateVPS: a packet that is refused leaves a second without volume.
Measured(s, d, load, t) ==
  LET old == SecondOf(s, t)
      new == IF WithinVps(s, d, t)
             THEN [old EXCEPT !.vol[d] = @ + load, !.pkts[d] = @ + 1] ELSE old
  IN  [s EXCEPT !.secs = [u \in DOMAIN s.secs \cup {t} |->
                            IF u = t THEN new ELSE s.secs[u]]]

Verdict(s, d, load, t) == IF load > 0 THEN WithinVps(s, d, t) ELSE vpsFlag

\* tcpUpdateSession counts a packet it refuses as one without payload;
\* updateUdpSession does not count it at all.
Counted(s, d, load, t) ==
  LET m == IF load > 0 THEN Measured(s, d, load, t) ELSE s
      kept == IF Verdict(s, d, load, t) THEN load ELSE 0
  IN  IF proto = "udp" /\ ~ Verdict(s, d, load, t) THEN m
      ELSE [m EXCEPT !.frames = @ + 1,
                     !.frSize[d] = @ + HeaderSize + load,
                     !.pLoad[d] = @ + kept]

\* Mutant: the volumes of the slice just reported are kept.
ReuseKeepsSeconds(s) ==
  [Fresh(s.last) EXCEPT !.rcv = s.rcv, !.last = 0, !.secs = s.secs]

\* reuse(): what a slice leaves to the next one.
reuse(s) == [Fresh(s.last) EXCEPT !.rcv = s.rcv, !.last = 0]

-----------------------------------------------------------------------------
(* FUtility: the line of a session.                                        *)

swap3(a, b, c) ==
  LET sm == IF a > b THEN b ELSE a
      mi == IF a > b THEN a ELSE b
  IN  IF mi > c
      THEN IF sm > c THEN <<c, sm, mi>> ELSE <<sm, c, mi>>
      ELSE <<sm, mi, c>>

\* One comparator of swap4, on places i and j.
Exchange(v, i, j) ==
  IF v[i] > v[j] THEN [v EXCEPT ![i] = v[j], ![j] = v[i]] ELSE v

\* Mutant: the last comparator is missing.
FourComparators(a, b, c, d) ==
  Exchange(Exchange(Exchange(Exchange(<<a, b, c, d>>, 1, 2), 3, 4), 1, 3), 2, 4)

swap4(a, b, c, d) ==
  LET halves == Exchange(Exchange(<<a, b, c, d>>, 1, 2), 3, 4)
      ends == Exchange(Exchange(halves, 1, 3), 2, 4)
  IN  Exchange(ends, 2, 3)

\* someTcpChecks makes up what is missing of the handshake.
FilledIn(s) ==
  LET r == s.rcv
      syn == IF r["SYN"] = NoTime THEN Nano * s.start ELSE r["SYN"]
      synAck == IF r["SYNACK"] = NoTime THEN syn + FillIn ELSE r["SYNACK"]
      ack == IF r["ACK"] = NoTime THEN synAck + FillIn ELSE r["ACK"]
  IN  <<syn, synAck, ack>>

\* ... and puts it in order, with the data if there were any.
Given(s) ==
  LET t == FilledIn(s)
  IN  IF s.rcv["DATA"] # NoTime THEN <<t[1], t[2], t[3], s.rcv["DATA"]>> ELSE t

Times(s) ==
  LET t == Given(s)
  IN  IF s.rcv["DATA"] # NoTime
      THEN swap4(t[1], t[2], t[3], t[4])
      ELSE swap3(t[1], t[2], t[3])

\* The seconds with traffic in a direction, each with its distance from the
\* first second of all; a full line takes no more.
Busy(s, d) == {t \in DOMAIN s.secs : s.secs[t].vol[d] > 0}

Series(s, d) ==
  LET shown == {t \in Busy(s, d) :
                  Cardinality({u \in Busy(s, d) : u < t}) < SeriesLen}
  IN  {<<t - Min(DOMAIN s.secs), s.secs[t].pkts[d], s.secs[t].vol[d]>> : t \in shown}

\* The series of both directions and pckTotalTimeSec; UDP has its own copy.
getTcpVPS(s) ==
  [series |-> [d \in Dir |-> Series(s, d)],
   total |-> Cardinality(Busy(s, "UP")) + Cardinality(Busy(s, "DOWN"))]
getUdpVPS(s) ==
  [series |-> [d \in Dir |-> Series(s, d)],
   total |-> Cardinality(Busy(s, "UP")) + Cardinality(Busy(s, "DOWN"))]

FrSize(s) == s.frSize["UP"] + s.frSize["DOWN"]
PLoadSize(s) == s.pLoad["UP"] + s.pLoad["DOWN"]

\* someTcpChecks, someUdpChecks, and what the caller checks after them.
Contradiction(s, vps) ==
  IF FrSize(s) < PLoadSize(s) THEN "spike"
  ELSE IF \E d \in Dir : vps.series[d] = {} /\ s.pLoad[d] > 0 THEN "no_series"
  ELSE "none"

Written(s, vps, given, times) ==
  [made |-> "line", pLoad |-> s.pLoad, series |-> vps.series,
   seconds |-> vps.total, given |-> given, times |-> times]

\* buildTcpXdr: the line, or why there is none.
TcpXdr(s) ==
  LET vps == getTcpVPS(s)
  IN  IF FrSize(s) <= SmallSize \/ PLoadSize(s) <= SmallSize
      THEN [made |-> "too_small"]
      ELSE IF Contradiction(s, vps) # "none" THEN [made |-> Contradiction(s, vps)]
      ELSE Written(s, vps, Given(s), Times(s))

\* buildUdpXdr
UdpXdr(s) ==
  LET vps == getUdpVPS(s)
  IN  IF s.start = 0 THEN [made |-> "no_start"]
      ELSE IF FrSize(s) <= SmallSize /\ PLoadSize(s) <= SmallSize
      THEN [made |-> "too_small"]
      ELSE IF Contradiction(s, vps) # "none" THEN [made |-> Contradiction(s, vps)]
      ELSE Written(s, vps, <<>>, <<>>)

Xdr(s) == IF proto = "tcp" THEN TcpXdr(s) ELSE UdpXdr(s)

\* buildDnsXdr: the time to the answer, in milliseconds; a name that is not
\* one has no line.
DnsXdr(query, answer, isName) ==
  [made |-> IF isName THEN "answer" ELSE "no_name",
   query |-> query, answer |-> answer,
   resolveTime |-> IF answer > query /\ query > Milli
                   THEN answer \div Milli - query \div Milli ELSE 0]

\* buildAaaXdr: an exchange that ends before it starts is turned round.
AaaXdr(start, end) ==
  [made |-> "exchange",
   given |-> <<start, end>>,
   times |-> IF start > end THEN <<end, start>> ELSE <<start, end>>]

-----------------------------------------------------------------------------
RepInit ==
  /\ proto \in {"tcp", "udp", "dns", "aaa"}
  /\ clock = FirstSec
  /\ open = FALSE
  /\ session = Fresh(0)
  /\ vpsFlag = TRUE
  /\ reports = <<>>

ClockTicks ==
  /\ clock < LastSec
  /\ clock' = clock + 1
  /\ reports' = <<>>
  /\ UNCHANGED <<proto, open, session, vpsFlag>>

AtPktLimit(s) == s.frames >= SESSION_PKT_LIMIT
AtTimeLimit(s) == s.last > s.start /\ s.last - s.start >= SESSION_TIME_LIMIT

\* A packet that opens a session or belongs to it; a FIN ends it, and is
\* reported after the slice it has filled up.
PacketOf(flag, d, load, t) ==
  LET s == Arrive(IF open THEN session ELSE Fresh(t), flag, t)
      c == Counted(s, d, load, t)
      dropped == proto = "udp" /\ ~ Verdict(s, d, load, t)
      slice == ~ dropped /\ (AtPktLimit(c) \/ AtTimeLimit(c))
      after == IF slice THEN reuse(c) ELSE c
  IN  /\ vpsFlag' = Verdict(s, d, load, t)
      /\ session' = IF flag = "FIN" THEN Fresh(0) ELSE after
      /\ open' = (flag # "FIN")
      /\ reports' = (IF slice THEN <<Xdr(c)>> ELSE <<>>)
                      \o (IF flag = "FIN" THEN <<Xdr(after)>> ELSE <<>>)
      /\ UNCHANGED <<proto, clock>>

TcpPacket ==
  /\ proto = "tcp"
  /\ \E t \in (clock - MaxLag) .. clock :
       \/ \E flag \in {"SYN", "ACK"} : PacketOf(flag, "UP", 0, t)
       \/ PacketOf("SYNACK", "DOWN", 0, t)
       \/ \E d \in Dir, load \in Payload : PacketOf("DATA", d, load, t)
       \/ open /\ \E load \in Payload \cup {0} : PacketOf("FIN", "UP", load, t)

UdpPacket ==
  /\ proto = "udp"
  /\ \E t \in (clock - MaxLag) .. clock, d \in Dir, load \in Payload \cup {0} :
       PacketOf("DATA", d, load, t)

\* A scan ends the session: tcpFlushSession, udpFlushSession.
CleanSession ==
  /\ open
  /\ reports' = IF proto = "tcp" /\ session.frames < MinCleanFrames
                THEN <<>> ELSE <<Xdr(session)>>
  /\ open' = FALSE /\ session' = Fresh(0)
  /\ UNCHANGED <<proto, clock, vpsFlag>>

\* A transaction comes to be written; a half that never came has time 0.
Stamps == {NoTime} \cup {Nano * t : t \in Second}

DnsReport ==
  /\ proto = "dns"
  /\ \E q, a \in Stamps, isName \in BOOLEAN :
       reports' = <<DnsXdr(q, a, isName)>>
  /\ UNCHANGED <<proto, clock, open, session, vpsFlag>>

AaaReport ==
  /\ proto = "aaa"
  /\ \E start, end \in Stamps : reports' = <<AaaXdr(start, end)>>
  /\ UNCHANGED <<proto, clock, open, session, vpsFlag>>

RepNext ==
  ClockTicks \/ TcpPacket \/ UdpPacket \/ CleanSession \/ DnsReport \/ AaaReport

RepSpec == RepInit /\ [][RepNext]_repVars

-----------------------------------------------------------------------------
Reported == {reports[i] : i \in DOMAIN reports}

\* A slice has no more seconds than its limit, the second at which it was
\* reached, and those by which packets are late.
ASSUME SeriesHasRoom == SeriesLen >= SESSION_TIME_LIMIT + 1 + MaxLag

\* The volumes of a series together.
Volume(series) == MapThenSumSet(LAMBDA e : e[3], series)

(* The two ways of counting agree, for slices, for sessions of several     *)
(* slices, with late packets and with packets the limit refuses: the       *)
(* seconds of a line add up to its payload, in each direction.  So the     *)
(* checks of buildTcpXdr and buildUdpXdr against lines that contradict     *)
(* themselves never cost one: what is left out is left out for its size.   *)
SeriesAddUp ==
  \A r \in Reported :
    /\ r.made \notin {"no_start", "spike", "no_series"}
    /\ r.made = "line" =>
         \A d \in Dir : Volume(r.series[d]) = r.pLoad[d]

\* The places of v, each once, can be taken in such an order as gives w.
Reorders(v, w) ==
  \E p \in [DOMAIN w -> DOMAIN v] :
    /\ \A i, j \in DOMAIN w : p[i] = p[j] => i = j
    /\ \A i \in DOMAIN w : w[i] = v[p[i]]

InOrder(r) ==
  /\ r.made \in {"line", "exchange"} =>
       /\ \A i, j \in DOMAIN r.times : i < j => r.times[i] <= r.times[j]
       /\ DOMAIN r.given = DOMAIN r.times /\ Reorders(r.given, r.times)
  /\ r.made = "answer" /\ r.resolveTime # 0 => r.query < r.answer

(* Times are reported in order, whatever was missing, late or repeated:    *)
(* SYN, SYN-ACK, ACK and data of a session, and they are the times that    *)
(* were seen or made up, each once; start and end of an exchange; and a    *)
(* name is never resolved before it was asked for.                         *)
TimesInOrder == \A r \in Reported : InOrder(r)
=============================================================================
