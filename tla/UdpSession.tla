------------------------------ MODULE UdpSession ------------------------------
(***************************************************************************)
(* The UDP session manager (plugins/udp/src/UdpSMInterface.cpp).  It keeps *)
(* its sessions as the TCP one does and slices them by the same limits,    *)
(* but knows no FIN and no duplicates, reports short sessions too, and     *)
(* drops packets of a flow over its packets-per-second limit.  The verdict *)
(* of that limit, vpsFlag, is a member of the manager, not of the session: *)
(* a packet without payload is judged by the verdict on the last packet    *)
(* with payload, of whatever flow.                                         *)
(***************************************************************************)
EXTENDS SessionPool

CONSTANTS
  SESSION_PKT_LIMIT,         \* frames after which a session is sliced
  SESSION_TIME_LIMIT,        \* seconds after which a session is sliced
  UDP_CLEAN_UP_TIMEOUT_SEC,  \* idle seconds after which a session is cleaned
  VPS_PACKET_PER_SEC,        \* downlink packets per second of a flow
  MaxLag,     \* seconds a packet's time stamp may be behind the clock
  MaxSkew,    \* seconds it may be ahead of the clock
  FirstSec,   \* the clock at the start
  LastPktSec, \* bound: the last second in which packets arrive
  MaxSec,     \* bound: the last second of the run
  MaxFrames   \* bound: packets handled per flow

ASSUME UdpSessionAssumption ==
  /\ SESSION_PKT_LIMIT \in Nat \ {0}
  /\ SESSION_TIME_LIMIT \in Nat
  /\ UDP_CLEAN_UP_TIMEOUT_SEC \in Nat
  /\ VPS_PACKET_PER_SEC \in Nat
  /\ MaxLag \in Nat /\ MaxSkew \in Nat
  /\ FirstSec \in Nat /\ LastPktSec \in Nat /\ MaxSec \in Nat
  /\ FirstSec <= MaxSec
  /\ MaxFrames \in Nat
  \* Seconds since 1970, not since the start of the probe.
  /\ FirstSec > UDP_CLEAN_UP_TIMEOUT_SEC + MaxLag

\* The seconds a time stamp can show.
Second == (FirstSec - MaxLag) .. (MaxSec + MaxSkew)

VARIABLES
  now,      \* Global::CURRENT_EPOCH_SEC
  session,  \* the udpSession object at each position of the pool
  vpsFlag,  \* verdict on the last packet with payload
  todo,     \* flows the running scan has not come to yet
  endOfDay, \* argument of the running scan
  \* History, for the properties only:
  handled,  \* handled[f]: packets of f the manager has looked at
  dropped,  \* dropped[f]: those among them it has not counted
  reported, \* reported[f]: frames in reports of f
  through   \* through[f][t]: downlink payload packets of f let through

ghosts == <<handled, dropped, reported, through>>
vars == <<poolVars, now, session, vpsFlag, todo, endOfDay, ghosts>>

-----------------------------------------------------------------------------
\* reset(), timeStampArrivalPacket and initializeUdpSession.
Fresh(t) == [frCount |-> 0, dnPackets |-> [u \in Second |-> 0],
             start |-> t, last |-> t]

\* updateVPS of a packet with payload: within the limit?
WithinVps(s, dir, t) ==
  dir = "DOWN" => ~ (s.dnPackets[t] > VPS_PACKET_PER_SEC)

Measured(s, dir, load, t) ==
  IF load /\ dir = "DOWN" /\ WithinVps(s, dir, t)
  THEN [s EXCEPT !.dnPackets[t] = @ + 1]
  ELSE s

\* Mutant: a verdict against a flow is never taken back.
VerdictSticks(s, dir, load, t) ==
  vpsFlag /\ (load => WithinVps(s, dir, t))

\* The verdict after a packet: a packet without payload does not renew it.
Verdict(s, dir, load, t) ==
  IF load THEN WithinVps(s, dir, t) ELSE vpsFlag

Full(s) ==
  \/ s.frCount >= SESSION_PKT_LIMIT
  \/ s.last > s.start /\ s.last - s.start >= SESSION_TIME_LIMIT

\* Mutant: the frames of the slice just reported are kept.
ReuseKeepsCount(s) == [s EXCEPT !.dnPackets = [u \in Second |-> 0],
                                !.start = s.last, !.last = 0]

reuse(s) == [s EXCEPT !.frCount = 0, !.dnPackets = [u \in Second |-> 0],
                      !.start = s.last, !.last = 0]

\* updateUdpSession, once the packet is measured: count it or drop it.
Counted(s) == [s EXCEPT !.frCount = @ + 1]

Updated(s, pass) ==
  IF ~ pass THEN s
  ELSE IF Full(Counted(s)) THEN reuse(Counted(s))
  ELSE Counted(s)

-----------------------------------------------------------------------------
Init ==
  /\ PoolInit
  /\ now = FirstSec
  /\ session = [p \in Pos |-> Fresh(0)]
  /\ vpsFlag = TRUE
  /\ todo = {} /\ endOfDay = FALSE
  /\ handled = [f \in Flow |-> 0]
  /\ dropped = [f \in Flow |-> 0]
  /\ reported = [f \in Flow |-> 0]
  /\ through = [f \in Flow |-> [u \in Second |-> 0]]

Tick ==
  /\ now < MaxSec
  /\ now' = now + 1
  /\ UNCHANGED <<poolVars, session, vpsFlag, todo, endOfDay, ghosts>>

\* updateUdpSession on the object at p, whose state is s when it begins.
Update(f, p, s, dir, load, t) ==
  LET m == Measured(s, dir, load, t)
      pass == Verdict(s, dir, load, t)
      sliced == pass /\ Full(Counted(m))
  IN  /\ session' = [session EXCEPT ![p] = Updated(m, pass)]
      /\ vpsFlag' = pass
      /\ handled' = [handled EXCEPT ![f] = @ + 1]
      /\ dropped' = [dropped EXCEPT ![f] = @ + IF pass THEN 0 ELSE 1]
      /\ reported' =
           [reported EXCEPT ![f] = @ + IF sliced THEN s.frCount + 1 ELSE 0]
      /\ through' =
           [through EXCEPT ![f][t] = @ + IF load /\ dir = "DOWN" /\ pass THEN 1 ELSE 0]

\* UDPPacketEntry.  Without a session and without room nothing happens.
Packet(f, dir, load, t) ==
  /\ todo = {}
  /\ now <= LastPktSec
  /\ handled[f] < MaxFrames
  /\ \/ /\ f \in Used
        /\ LET p == sessionMap[f]
           IN  Update(f, p, [session[p] EXCEPT !.last = t], dir, load, t)
        /\ UNCHANGED poolVars
     \/ \E p \in Pos :
          /\ Create(f, p)
          /\ Update(f, p, Fresh(t), dir, load, t)
  /\ UNCHANGED <<now, todo, endOfDay>>

StartScan(eod) ==
  /\ todo = {}
  /\ Used # {}
  /\ todo' = Used
  /\ endOfDay' = eod
  /\ UNCHANGED <<poolVars, now, session, vpsFlag, ghosts>>

\* The difference is a uint64_t: a time ahead of the clock is "long ago".
TimedOut(s) ==
  \/ s.last > now
  \/ now - s.last > UDP_CLEAN_UP_TIMEOUT_SEC

CleanSkip(f) ==
  /\ f \in todo
  /\ ~ endOfDay /\ ~ TimedOut(session[sessionMap[f]])
  /\ todo' = todo \ {f}
  /\ UNCHANGED <<poolVars, now, session, vpsFlag, endOfDay, ghosts>>

\* udpCleanSession: reported whatever it holds, and erased.
CleanFlush(f) ==
  /\ f \in todo
  /\ LET p == sessionMap[f]
     IN  /\ endOfDay \/ TimedOut(session[p])
         /\ Erase(p)
         /\ session' = [session EXCEPT ![poolIndex[p]] = Fresh(0)]
         /\ reported' = [reported EXCEPT ![f] = @ + session[p].frCount]
  /\ todo' = todo \ {f}
  /\ UNCHANGED <<now, vpsFlag, endOfDay, handled, dropped, through>>

Clean == \E f \in Flow : CleanSkip(f) \/ CleanFlush(f)

Next ==
  \/ Tick
  \/ \E f \in Flow : \E dir \in {"UP", "DOWN"} : \E load \in BOOLEAN :
       \E t \in (now - MaxLag) .. (now + MaxSkew) : Packet(f, dir, load, t)
  \/ \E eod \in BOOLEAN : StartScan(eod)
  \/ Clean

Spec == Init /\ [][Next]_vars

-----------------------------------------------------------------------------
(* Properties.                                                             *)

SessionRec ==
  [frCount : 0 .. (SESSION_PKT_LIMIT - 1), dnPackets : [Second -> Nat],
   start : Nat, last : Nat]

TypeOK ==
  /\ PoolTypeOK
  /\ now \in FirstSec .. MaxSec
  /\ session \in [Pos -> SessionRec]
  /\ vpsFlag \in BOOLEAN
  /\ todo \subseteq Used
  /\ endOfDay \in BOOLEAN
  /\ handled \in [Flow -> Nat] /\ dropped \in [Flow -> Nat]
  /\ reported \in [Flow -> Nat] /\ through \in [Flow -> [Second -> Nat]]

Open(f) == IF f \in Used THEN session[sessionMap[f]].frCount ELSE 0

(* Every packet handled is dropped by the limit or ends up in a report:    *)
(* nothing is lost between slices, scans and the reuse of objects.         *)
FramesAccounted ==
  \A f \in Flow : handled[f] - dropped[f] = reported[f] + Open(f)

Ledger == INSTANCE FlowLedger WITH
  PktLimit <- SESSION_PKT_LIMIT,
  MinFrames <- 0,
  discarded <- [f \in Flow |-> 0],
  open <- [f \in Flow |-> Open(f)]

(* Refinement: the UDP manager keeps the same ledger as the TCP one, and   *)
(* discards nothing.                                                       *)
ImplementsLedger == Ledger!LedgerSpec

(* The limit is the flow's own: a packet with payload is dropped only if   *)
(* more than VPS_PACKET_PER_SEC downlink packets of the SAME flow came     *)
(* through in its second, whatever other flows did and whoever had the     *)
(* session object before.                                                  *)
PayloadDropsEarned ==
  [][\A f \in Flow : \A t \in Second : \A dir \in {"UP", "DOWN"} :
       (Packet(f, dir, TRUE, t) /\ dropped'[f] # dropped[f])
         => through[f][t] > VPS_PACKET_PER_SEC]_vars
=============================================================================
