------------------------------ MODULE TcpSession ------------------------------
(***************************************************************************)
(* The TCP session manager (plugins/tcp/src/TcpSMInterface.cpp): it turns  *)
(* the packets of a flow into sessions, slices long sessions into reports  *)
(* (XDRs) and ends sessions on FIN, by the periodic clean-up scan or by    *)
(* the scan at the end of the day.                                         *)
(*                                                                         *)
(* One thread (TcpSM::run) handles packets and scans, so a packet is one   *)
(* step; only the clock moves in the middle of a scan.  Sizes, volumes and *)
(* addresses are left out; of a flow there is its key.                     *)
(***************************************************************************)
EXTENDS SessionPool, Sequences

CONSTANTS
  SESSION_PKT_LIMIT,         \* frames after which a session is sliced
  SESSION_TIME_LIMIT,        \* seconds after which a session is sliced
  TCP_CLEAN_UP_TIMEOUT_SEC,  \* idle seconds after which a session is cleaned
  CHECK_DUPLICATE_PKT,       \* whether a repeated sequence number counts
  MinCleanFrames,            \* 5: shorter sessions are cleaned without report
  SeqNo,                     \* TCP sequence numbers
  Flags,                     \* the flags of packets other than FIN
  MaxLag,     \* seconds a packet's time stamp may be behind the clock
  MaxSkew,    \* seconds a packet's time stamp may be ahead of the clock
  FirstSec,   \* the clock at the start
  LastPktSec, \* bound: the last second in which packets arrive
  MaxSec,     \* bound: the last second of the run
  MaxFrames   \* bound: frames counted per flow

ASSUME TcpSessionAssumption ==
  /\ SESSION_PKT_LIMIT \in Nat \ {0}
  /\ SESSION_TIME_LIMIT \in Nat
  /\ TCP_CLEAN_UP_TIMEOUT_SEC \in Nat
  /\ CHECK_DUPLICATE_PKT \in BOOLEAN
  /\ MinCleanFrames \in Nat
  /\ MaxLag \in Nat /\ MaxSkew \in Nat
  /\ FirstSec \in Nat /\ LastPktSec \in Nat /\ MaxSec \in Nat
  /\ MaxFrames \in Nat
  \* Seconds since 1970, not since the start of the probe.
  /\ FirstSec > TCP_CLEAN_UP_TIMEOUT_SEC + MaxLag

Handshake == {"SYN", "SYN_ACK", "ACK"}
Opening == Handshake \cup {"DATA"}     \* the flags that may open a session

ASSUME FlagsAssumption == Flags \subseteq Opening

VARIABLES
  now,      \* Global::CURRENT_EPOCH_SEC
  session,  \* the tcpSession object at each position of the pool
  todo,     \* flows the running scan has not come to yet
  endOfDay, \* argument of the running scan
  \* History, for the properties only:
  xdrs,      \* the reports stored by the last step
  seen,      \* seen[f]: frames of f counted into a session
  reported,  \* reported[f]: frames in reports of f
  discarded, \* discarded[f]: frames of cleaned sessions without a report
  heard      \* heard[f]: time stamp of the last packet of f

ghosts == <<seen, reported, discarded, heard>>
vars == <<poolVars, now, session, todo, endOfDay, xdrs, ghosts>>

-----------------------------------------------------------------------------
(* The session object.                                                     *)

\* reset(), timeStampArrivalPacket and tcpInitializeSession.
Fresh(t) == [rcv |-> {}, frCount |-> 0, dup |-> {}, slice |-> 0,
             start |-> t, last |-> t, cause |-> "none"]

\* timeStampArrivalPacket and updateTime.
Arrive(s, flag, t) ==
  [s EXCEPT !.last = t,
            !.rcv = IF flag \in Handshake THEN @ \cup {flag} ELSE @,
            !.cause = IF flag = "FIN" THEN "fin_received" ELSE @]

\* state == CONNECTED: the three flags are never taken back before reset().
Connected(s) == Handshake \subseteq s.rcv

IsDuplicate(s, seq) == CHECK_DUPLICATE_PKT /\ seq \in s.dup

CountFrame(s, seq) ==
  [s EXCEPT !.frCount = @ + 1,
            !.dup = IF CHECK_DUPLICATE_PKT THEN @ \cup {seq} ELSE @]

AtPktLimit(s) == s.frCount >= SESSION_PKT_LIMIT

\* timeDiff is a uint16_t.
AtTimeLimit(s) ==
  s.last > s.start /\ (s.last - s.start) % 65536 >= SESSION_TIME_LIMIT

SliceCause(s) ==
  CASE AtPktLimit(s) /\ Connected(s)   -> "pktlimit_conn"
    [] AtPktLimit(s) /\ ~ Connected(s) -> "pktlimit_noconn"
    [] ~ AtPktLimit(s) /\ Connected(s) -> "timeout_conn"
    [] OTHER                           -> "timeout_noconn"

\* tcpFlushSession stores the session as it is, after counting the slice.
Flushed(s, cause) == [s EXCEPT !.slice = @ + 1, !.cause = cause]

Xdr(f, s, origin) ==
  [flow |-> f, origin |-> origin, cause |-> s.cause,
   frames |-> s.frCount, slice |-> s.slice]

\* Mutant: the frames of the slice just reported are kept.
ReuseKeepsCount(s) == [s EXCEPT !.dup = {}, !.start = s.last, !.last = 0]

reuse(s) ==
  [s EXCEPT !.frCount = 0, !.dup = {}, !.start = s.last, !.last = 0]

\* tcpUpdateSession: does the packet with number seq fill up a slice?
Slices(s, seq) ==
  /\ ~ IsDuplicate(s, seq)
  /\ LET c == CountFrame(s, seq) IN AtPktLimit(c) \/ AtTimeLimit(c)

\* tcpUpdateSession: the session afterwards.
Updated(s, seq) ==
  LET c == CountFrame(s, seq)
  IN  IF IsDuplicate(s, seq) THEN s
      ELSE IF Slices(s, seq) THEN reuse(Flushed(c, SliceCause(c)))
      ELSE c

\* tcpUpdateSession: the reports it stores.
UpdateXdrs(f, s, seq) ==
  LET c == CountFrame(s, seq)
  IN  IF Slices(s, seq)
      THEN <<Xdr(f, Flushed(c, SliceCause(c)),
                 IF AtPktLimit(c) THEN "TCP_LIMIT" ELSE "TIME_LIMIT")>>
      ELSE <<>>

-----------------------------------------------------------------------------
Init ==
  /\ PoolInit
  /\ now = FirstSec
  /\ session = [p \in Pos |-> Fresh(0)]
  /\ todo = {} /\ endOfDay = FALSE
  /\ xdrs = <<>>
  /\ seen = [f \in Flow |-> 0]
  /\ reported = [f \in Flow |-> 0]
  /\ discarded = [f \in Flow |-> 0]
  /\ heard = [f \in Flow |-> 0]

Tick ==
  /\ now < MaxSec
  /\ now' = now + 1
  /\ xdrs' = <<>>
  /\ UNCHANGED <<poolVars, session, todo, endOfDay, ghosts>>

\* When a packet may be handled, and with which time stamp.
Arrival(f, t) ==
  /\ todo = {}
  /\ now <= LastPktSec
  /\ seen[f] < MaxFrames
  /\ t \in (now - MaxLag) .. (now + MaxSkew)
  /\ heard' = [heard EXCEPT ![f] = t]
  /\ UNCHANGED <<now, todo, endOfDay, discarded>>

\* The books: s is the session before tcpUpdateSession, extra the frames
\* reported on top of a slice.
Account(f, s, seq, extra) ==
  /\ seen' = [seen EXCEPT ![f] = IF IsDuplicate(s, seq) THEN @ ELSE @ + 1]
  /\ reported' =
       [reported EXCEPT ![f] =
          @ + extra + (IF Slices(s, seq) THEN s.frCount + 1 ELSE 0)]

\* TCPPacketEntry, a packet that opens a session.
PacketNew(f, flag, seq, t) ==
  /\ Arrival(f, t)
  /\ LET s == Arrive(Fresh(t), flag, t)
     IN  /\ \E p \in Pos :
              /\ Create(f, p)
              /\ session' = [session EXCEPT ![p] = Updated(s, seq)]
         /\ xdrs' = UpdateXdrs(f, s, seq)
         /\ Account(f, s, seq, 0)

\* TCPPacketEntry, a packet of a session.
PacketKnown(f, flag, seq, t) ==
  /\ f \in Used
  /\ Arrival(f, t)
  /\ LET p == sessionMap[f]
         s == Arrive(session[p], flag, t)
     IN  /\ session' = [session EXCEPT ![p] = Updated(s, seq)]
         /\ xdrs' = UpdateXdrs(f, s, seq)
         /\ Account(f, s, seq, 0)
  /\ UNCHANGED poolVars

\* TCPPacketEntry, the FIN of a session; without a session it is ignored.
PacketFin(f, seq, t) ==
  /\ f \in Used
  /\ Arrival(f, t)
  /\ LET p == sessionMap[f]
         s == Arrive(session[p], "FIN", t)
         u == Updated(s, seq)
     IN  /\ Erase(p)
         /\ session' = [session EXCEPT ![poolIndex[p]] = Fresh(0)]
         /\ xdrs' = Append(UpdateXdrs(f, s, seq),
                           Xdr(f, Flushed(u, u.cause), "TCP_FIN"))
         /\ Account(f, s, seq, u.frCount)

\* tcpTimeOutClean begins: the iteration goes over the flows in the maps.
StartScan(eod) ==
  /\ todo = {}
  /\ Used # {}
  /\ todo' = Used
  /\ endOfDay' = eod
  /\ xdrs' = <<>>
  /\ UNCHANGED <<poolVars, now, session, ghosts>>

\* Mutant: the operands of the difference are swapped.
TimedOutSwapped(s) == s.last - now > TCP_CLEAN_UP_TIMEOUT_SEC

\* Mutant: the age of the session is taken, not its idle time.
TimedOutSinceStart(s) == now - s.start > TCP_CLEAN_UP_TIMEOUT_SEC

\* The difference of two uint64_t: a time stamp ahead of the clock makes it
\* as large as can be.
TimedOut(s) ==
  now - s.last < 0 \/ now - s.last > TCP_CLEAN_UP_TIMEOUT_SEC

\* tcpCleanSession leaves a session that is not idle alone.
CleanSkip(f) ==
  /\ f \in todo
  /\ ~ endOfDay /\ ~ TimedOut(session[sessionMap[f]])
  /\ todo' = todo \ {f}
  /\ xdrs' = <<>>
  /\ UNCHANGED <<poolVars, now, session, endOfDay, ghosts>>

\* tcpCleanSession and tcpFlushSession(TCP_CLEAN): the session ends, and is
\* reported unless it is short.
CleanFlush(f) ==
  /\ f \in todo
  /\ LET p == sessionMap[f]
         s == session[p]
         cause == IF endOfDay THEN "cleanup_end_of_day" ELSE "cleanup"
         short == s.frCount < MinCleanFrames
     IN  /\ endOfDay \/ TimedOut(s)
         /\ Erase(p)
         /\ session' = [session EXCEPT ![poolIndex[p]] = Fresh(0)]
         /\ xdrs' = IF short THEN <<>>
                    ELSE <<Xdr(f, Flushed(s, cause), "TCP_CLEAN")>>
         /\ reported' = [reported EXCEPT ![f] = @ + IF short THEN 0 ELSE s.frCount]
         /\ discarded' = [discarded EXCEPT ![f] = @ + IF short THEN s.frCount ELSE 0]
  /\ todo' = todo \ {f}
  /\ UNCHANGED <<now, endOfDay, seen, heard>>

Packet(f, seq, t) ==
  \/ \E flag \in Flags :
       PacketNew(f, flag, seq, t) \/ PacketKnown(f, flag, seq, t)
  \/ PacketFin(f, seq, t)

Clean == \E f \in Flow : CleanSkip(f) \/ CleanFlush(f)

Next ==
  \/ Tick
  \/ \E f \in Flow : \E seq \in SeqNo :
       \E t \in (now - MaxLag) .. (now + MaxSkew) : Packet(f, seq, t)
  \/ \E eod \in BOOLEAN : StartScan(eod)
  \/ Clean

Spec == Init /\ [][Next]_vars

\* The clock never stops, and TcpSM::run comes round to a scan every
\* SESSION_SCAN_FREQ_SEC seconds and finishes it.
FairSpec ==
  /\ Spec
  /\ WF_vars(Tick)
  /\ WF_vars(StartScan(FALSE))
  /\ WF_vars(Clean)

-----------------------------------------------------------------------------
(* Properties.                                                             *)

Cause ==
  {"none", "fin_received", "cleanup", "cleanup_end_of_day",
   "pktlimit_conn", "pktlimit_noconn", "timeout_conn", "timeout_noconn"}

SessionRec ==
  [rcv : SUBSET Handshake, frCount : 0 .. (SESSION_PKT_LIMIT - 1),
   dup : SUBSET SeqNo, slice : Nat, start : Nat, last : Nat, cause : Cause]

TypeOK ==
  /\ PoolTypeOK
  /\ now \in Nat
  /\ session \in [Pos -> SessionRec]
  /\ todo \subseteq Used
  /\ endOfDay \in BOOLEAN
  /\ seen \in [Flow -> Nat]
  /\ reported \in [Flow -> Nat]
  /\ discarded \in [Flow -> Nat]
  /\ heard \in [Flow -> Nat]

\* The frames of f collected and not reported yet.
Open(f) == IF f \in Used THEN session[sessionMap[f]].frCount ELSE 0

(* No frame is lost or reported twice: what was counted into the sessions  *)
(* of a flow is in its reports, was discarded by a clean-up without        *)
(* report, or is still in its session, over slices, FINs, scans and the    *)
(* reuse of session objects.                                               *)
FramesAccounted ==
  \A f \in Flow : seen[f] = reported[f] + discarded[f] + Open(f)

Ledger == INSTANCE FlowLedger WITH
  PktLimit <- SESSION_PKT_LIMIT,
  MinFrames <- MinCleanFrames,
  open <- [f \in Flow |-> Open(f)]

(* Refinement: every step of the session manager is, for one flow at most, *)
(* a step of the ledger: it counts a frame, reports all there is, or       *)
(* discards less than MinCleanFrames.                                      *)
ImplementsLedger == Ledger!LedgerSpec

(* The periodic scan never cuts into a live flow: if it ends a session     *)
(* with frames in it, the flow has been silent for the time-out (or its    *)
(* last packet carried a time stamp ahead of the clock).  It does end      *)
(* sessions of active flows that have just been sliced, for reuse() clears *)
(* the time of the last packet; these have no frames.                      *)
ActiveFramesKept ==
  [][\A f \in Used :
       (f \notin Used' /\ todo # {} /\ ~ endOfDay /\ Open(f) > 0)
         => \/ now - heard[f] > TCP_CLEAN_UP_TIMEOUT_SEC
            \/ heard[f] > now]_vars

(* Every session ends, also when its flow just falls silent.               *)
SessionsEnd == \A f \in Flow : f \in Used ~> f \notin Used

(* "Don't flush the TCP Session which don't have connection"               *)
(* (TcpSMInterface.cpp:422, on the packet limit).                          *)
UnconnectedNotFlushed ==
  \A i \in DOMAIN xdrs : xdrs[i].cause # "pktlimit_noconn"
=============================================================================
