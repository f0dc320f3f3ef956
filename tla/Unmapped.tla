------------------------------- MODULE Unmapped -------------------------------
(***************************************************************************)
(* Traffic of which neither end is a known subscriber (plugins/unknown):   *)
(* one manager thread (UnSM) collects TCP and UDP packets into sessions,   *)
(* one flusher thread (UnFlusher) writes them to files.                    *)
(*                                                                         *)
(* It differs from the mapped plugins.  The map of a session is chosen by  *)
(* the SOURCE address of the packet, so the two directions of a flow have  *)
(* sessions of their own (unless their addresses share a map).  A FIN ends *)
(* the session without being counted.  Short reports and reports without   *)
(* payload are left out by the flusher, not the manager.  Which end of a   *)
(* flow is its source is decided by the flusher, from pools of addresses.  *)
(* And the flusher reads its index BEFORE it changes the file.             *)
(*                                                                         *)
(* A packet, the clean-up of a session and the draining of a slot are one  *)
(* step each: FlushRing shows that a manager and its flusher never meet in *)
(* a slot.  DNS is left out: nothing ever opens an unmapped DNS session.   *)
(***************************************************************************)
EXTENDS TimeIndex, FiniteSets, SequencesExt

CONSTANTS
  TcpFlow, UdpFlow,          \* flows <<ipv4FlowId, address, address>>
  NoFlow,                    \* the key of an object after reset()
  PoolSize,                  \* tcpFreeBitPosMax, udpFreeBitPosMax
  MapCount,                  \* UNM_SESSION_POOL_ARRAY_ELEMENTS, 100
  IP_BITS,                   \* 32
  Carrier,                   \* the peering carriers (I3DNET, ..., DECIX)
  PEERING_POOL,              \* per carrier: networks <<address, mask>>
  UNKNOWN_SOURCE_POOL,       \* networks
  CACHE_IP_POOL,             \* networks
  SESSION_PKT_LIMIT,         \* frames after which a session is sliced
  TCP_CLEAN_UP_TIMEOUT_SEC, UDP_CLEAN_UP_TIMEOUT_SEC,
  ShortReport,               \* 15: reports of so many frames are left out
  SecPerMin,                 \* 60
  SESSION_SCAN_FREQ_SEC,     \* the scan is due when second / this changes
  MaxReadLag,                \* seconds the flusher may stay behind the clock
  MaxLag,                    \* seconds a packet may be behind the clock
  MaxSkew,                   \* seconds it may be ahead of the clock
  FirstSec,                  \* the clock at the start
  LastPktSec,                \* bound: the last second in which packets arrive
  MaxSec,                    \* bound: the last second of the run
  MaxFrames                  \* bound: frames counted in all

Flow == TcpFlow \cup UdpFlow
Ends(f) == {f[2], f[3]}
OtherEnd(f, ip) == IF ip = f[2] THEN f[3] ELSE f[2]

Network == (0 .. (2^IP_BITS - 1)) \X (0 .. (2^IP_BITS - 1))

ASSUME UnmappedAssumption ==
  /\ TcpFlow \cap UdpFlow = {}
  /\ \A f \in Flow : f = <<f[1], f[2], f[3]>> /\ Ends(f) \subseteq Nat
  /\ PoolSize \in Nat \ {0} /\ MapCount \in Nat \ {0}
  /\ SESSION_PKT_LIMIT \in Nat \ {0}
  /\ TCP_CLEAN_UP_TIMEOUT_SEC \in Nat /\ UDP_CLEAN_UP_TIMEOUT_SEC \in Nat
  /\ ShortReport \in Nat /\ SecPerMin \in Nat \ {0}
  \* From SecPerMin on nothing would ever be scanned.
  /\ SESSION_SCAN_FREQ_SEC \in 1 .. (SecPerMin - 1)
  /\ MaxReadLag \in 2 .. (TIME_INDEX - 2)
  /\ MaxLag \in Nat /\ MaxSkew \in Nat
  /\ FirstSec \in Nat /\ LastPktSec \in Nat /\ MaxSec \in Nat
  /\ MaxFrames \in Nat

ASSUME NetworkAssumption ==
  /\ IP_BITS \in Nat
  /\ \A n \in UNION {PEERING_POOL[c] : c \in Carrier}
              \cup UNKNOWN_SOURCE_POOL \cup CACHE_IP_POOL : n \in Network

VARIABLES
  now,        \* Global::CURRENT_EPOCH_SEC
  \* The manager: pool and sessions of UnTcpInterface and UnUdpInterface.
  tMap, tBits, tPos, tKey, tIdx, tSession,
  uMap, uBits, uPos, uKey, uIdx, uSession,
  todo,       \* <<protocol, key>> the running scan has not come to yet
  lastIndexClnUp,  \* when the last scan was due
  \* Manager to flusher:
  flStore,    \* UnFlushRepo::uTcpFlStore and uUdpFlStore, with their counts
  \* The flusher:
  fpc,        \* where UnFlusher::run is
  lastIndex, curIndex,
  file,       \* the minute in the names of the open files
  \* History, for the properties only:
  fSec,       \* the second whose slot lastIndex stands for
  out,        \* the reports written by the last step
  counted,    \* counted[f]: frames of f counted into a session
  filed,      \* filed[f]: frames in the lines of f
  leftOut,    \* leftOut[f]: frames in reports that were left out
  sources     \* sources[f]: the source addresses in the lines of f

tcpVars == <<tMap, tBits, tPos, tKey, tIdx, tSession>>
udpVars == <<uMap, uBits, uPos, uKey, uIdx, uSession>>
flusherVars == <<fpc, lastIndex, curIndex, file, fSec>>
history == <<filed, leftOut, sources>>
scanVars == <<todo, lastIndexClnUp>>
vars == <<now, tcpVars, udpVars, scanVars, flStore, flusherVars, out, counted, history>>

-----------------------------------------------------------------------------
(* Sessions.  The key of a session is its map and ipv4FlowId.              *)

\* getMapIndexAndSessionKey: the map is that of the source address.
KeyOf(f, src) == <<src % MapCount, f>>

KeysOf(flows) == (0 .. (MapCount - 1)) \X flows

TcpPool == INSTANCE SessionPool WITH
  Flow <- KeysOf(TcpFlow), sessionMap <- tMap, bitFlags <- tBits,
  freeBitPos <- tPos, key <- tKey, poolIndex <- tIdx

UdpPool == INSTANCE SessionPool WITH
  Flow <- KeysOf(UdpFlow), sessionMap <- uMap, bitFlags <- uBits,
  freeBitPos <- uPos, key <- uKey, poolIndex <- uIdx

Positions == 0 .. (PoolSize - 1)

\* reset(), timeStampArrivalPacket and tcpInitializeSession.
Fresh(src, dst, t) ==
  [src |-> src, dst |-> dst, frCount |-> 0, pLoadPkt |-> 0, last |-> t]

Blank == Fresh(0, 0, 0)

CountFrame(s, pLoad, t) ==
  [s EXCEPT !.frCount = @ + 1, !.pLoadPkt = @ + pLoad, !.last = t]

\* Mutant: the frames of the slice just reported are kept.
ReuseKeepsCount(s) == [s EXCEPT !.pLoadPkt = 0, !.last = 0]

reuse(s) == [s EXCEPT !.frCount = 0, !.pLoadPkt = 0, !.last = 0]

AtPktLimit(s) == s.frCount >= SESSION_PKT_LIMIT

\* tcpUpdateSession and udpUpdateSession.
Updated(s) == IF AtPktLimit(s) THEN reuse(s) ELSE s

\* copy() into the store: what a report says of a session.
Report(f, s) ==
  [flow |-> f, src |-> s.src, dst |-> s.dst, frames |-> s.frCount,
   pLoadPkt |-> s.pLoadPkt, sec |-> now]

\* tcpFlushSession: the slot is that of the clock, not of the packet.
Store(proto, r) ==
  flStore' = [flStore EXCEPT ![proto][PKT_WRITE_TIME_INDEX(now)] = Append(@, r)]

StoreSlice(proto, f, s) ==
  IF AtPktLimit(s) THEN Store(proto, Report(f, s)) ELSE UNCHANGED flStore

\* Mutant: the operands of the difference are swapped.
TimedOutSwapped(s, timeout) == s.last - now > timeout

\* The difference of two uint64_t: a time ahead of the clock is "long ago".
TimedOut(s, timeout) == now - s.last < 0 \/ now - s.last > timeout

-----------------------------------------------------------------------------
(* The manager thread: UnSM::run, TCPPacketEntry, UDPPacketEntry.          *)

\* openXdrFile: the minute that names the files; FlushRing splits it up.
OpenFile(t) == t \div SecPerMin

CleanUpIndex(t) == (t % SecPerMin) \div SESSION_SCAN_FREQ_SEC

ScanDue == CleanUpIndex(now) # lastIndexClnUp

Init ==
  /\ now = FirstSec
  /\ TcpPool!PoolInit /\ UdpPool!PoolInit
  /\ tSession = [p \in Positions |-> Blank]
  /\ uSession = [p \in Positions |-> Blank]
  /\ todo = {} /\ lastIndexClnUp = CleanUpIndex(FirstSec)
  /\ flStore = [proto \in {"tcp", "udp"} |-> [i \in Slots |-> <<>>]]
  /\ fpc = "poll"
  /\ lastIndex = READ_TIME_INDEX(FirstSec) /\ curIndex = lastIndex
  /\ file = OpenFile(FirstSec)
  /\ fSec = FirstSec /\ out = {}
  /\ counted = [f \in Flow |-> 0]
  /\ filed = [f \in Flow |-> 0] /\ leftOut = [f \in Flow |-> 0]
  /\ sources = [f \in Flow |-> {}]

\* The flusher keeps MaxReadLag, and a scan is over before the next is due.
Tick ==
  /\ now < MaxSec
  /\ (todo # {} \/ ScanDue) => CleanUpIndex(now + 1) = CleanUpIndex(now)
  /\ now + 1 - fSec <= MaxReadLag
  /\ now' = now + 1
  /\ out' = {}
  /\ UNCHANGED <<tcpVars, udpVars, scanVars, flStore, flusherVars, counted, history>>

\* A packet comes out of the ring of the routers.
Arrival(f, t) ==
  /\ todo = {}
  /\ now <= LastPktSec
  /\ FoldFunction(+, 0, counted) < MaxFrames
  /\ t \in (now - MaxLag) .. (now + MaxSkew)
  /\ counted' = [counted EXCEPT ![f] = @ + 1]
  /\ out' = {}
  /\ UNCHANGED <<now, scanVars, flusherVars, history>>

\* SYN, SYN/ACK, ACK and DATA are handled alike.
TcpNew(f, src, pLoad, t) ==
  LET s == CountFrame(Fresh(src, OtherEnd(f, src), t), pLoad, t)
  IN  /\ Arrival(f, t)
      /\ \E p \in Positions :
           /\ TcpPool!Create(KeyOf(f, src), p)
           /\ tSession' = [tSession EXCEPT ![p] = Updated(s)]
      /\ StoreSlice("tcp", f, s)
      /\ UNCHANGED udpVars

TcpKnown(f, src, pLoad, t) ==
  LET p == tMap[KeyOf(f, src)]
      s == CountFrame(tSession[p], pLoad, t)
  IN  /\ KeyOf(f, src) \in TcpPool!Used
      /\ Arrival(f, t)
      /\ tSession' = [tSession EXCEPT ![p] = Updated(s)]
      /\ StoreSlice("tcp", f, s)
      /\ UNCHANGED <<tMap, tBits, tPos, tKey, tIdx, udpVars>>

\* tcpEraseSession and tcpReleaseIndex.
TcpErase(p) ==
  /\ TcpPool!Erase(p)
  /\ tSession' = [tSession EXCEPT ![tIdx[p]] = Blank]

\* A FIN flushes the session of its direction, uncounted.
TcpFin(f, src) ==
  /\ todo = {}
  /\ KeyOf(f, src) \in TcpPool!Used
  /\ LET p == tMap[KeyOf(f, src)]
     IN  Store("tcp", Report(f, tSession[p])) /\ TcpErase(p)
  /\ out' = {}
  /\ UNCHANGED <<now, udpVars, scanVars, flusherVars, counted, history>>

UdpNew(f, src, pLoad, t) ==
  LET s == CountFrame(Fresh(src, OtherEnd(f, src), t), pLoad, t)
  IN  /\ Arrival(f, t)
      /\ \E p \in Positions :
           /\ UdpPool!Create(KeyOf(f, src), p)
           /\ uSession' = [uSession EXCEPT ![p] = Updated(s)]
      /\ StoreSlice("udp", f, s)
      /\ UNCHANGED tcpVars

UdpKnown(f, src, pLoad, t) ==
  LET p == uMap[KeyOf(f, src)]
      s == CountFrame(uSession[p], pLoad, t)
  IN  /\ KeyOf(f, src) \in UdpPool!Used
      /\ Arrival(f, t)
      /\ uSession' = [uSession EXCEPT ![p] = Updated(s)]
      /\ StoreSlice("udp", f, s)
      /\ UNCHANGED <<uMap, uBits, uPos, uKey, uIdx, tcpVars>>

\* udpEraseSession and udpReleaseIndex.
UdpErase(p) ==
  /\ UdpPool!Erase(p)
  /\ uSession' = [uSession EXCEPT ![uIdx[p]] = Blank]

\* tcpTimeOutClean(false) and udpTimeOutClean(false), one after the other.
StartScan ==
  /\ todo = {}
  /\ ScanDue
  /\ lastIndexClnUp' = CleanUpIndex(now)
  /\ todo' = ({"tcp"} \X TcpPool!Used) \cup ({"udp"} \X UdpPool!Used)
  /\ out' = {}
  /\ UNCHANGED <<now, tcpVars, udpVars, flStore, flusherVars, counted, history>>

\* tcpCleanSession: whatever has timed out is flushed, however short.
TcpClean(k) ==
  /\ <<"tcp", k>> \in todo
  /\ LET p == tMap[k]
     IN  IF TimedOut(tSession[p], TCP_CLEAN_UP_TIMEOUT_SEC)
         THEN Store("tcp", Report(k[2], tSession[p])) /\ TcpErase(p)
         ELSE UNCHANGED <<flStore, tcpVars>>
  /\ todo' = todo \ {<<"tcp", k>>}
  /\ out' = {}
  /\ UNCHANGED <<now, udpVars, lastIndexClnUp, flusherVars, counted, history>>

\* udpCleanSession, after all the TCP sessions.
UdpClean(k) ==
  /\ <<"udp", k>> \in todo
  /\ \A x \in todo : x[1] = "udp"
  /\ LET p == uMap[k]
     IN  IF TimedOut(uSession[p], UDP_CLEAN_UP_TIMEOUT_SEC)
         THEN Store("udp", Report(k[2], uSession[p])) /\ UdpErase(p)
         ELSE UNCHANGED <<flStore, udpVars>>
  /\ todo' = todo \ {<<"udp", k>>}
  /\ out' = {}
  /\ UNCHANGED <<now, tcpVars, lastIndexClnUp, flusherVars, counted, history>>

Scan ==
  \/ StartScan
  \/ \E k \in KeysOf(TcpFlow) : TcpClean(k)
  \/ \E k \in KeysOf(UdpFlow) : UdpClean(k)

\* A packet that finds no session and no room is forgotten.
Packet ==
  \E t \in (now - MaxLag) .. (now + MaxSkew) : \E pLoad \in {0, 1} :
    \/ \E f \in TcpFlow : \E src \in Ends(f) :
         TcpNew(f, src, pLoad, t) \/ TcpKnown(f, src, pLoad, t)
    \/ \E f \in UdpFlow : \E src \in Ends(f) :
         UdpNew(f, src, pLoad, t) \/ UdpKnown(f, src, pLoad, t)

-----------------------------------------------------------------------------
(* The pools of addresses: UnFlusher::IsIPInRange and its callers.         *)

IsIPInRange(ip, network, mask) ==
  LET size == 2^IP_BITS - mask             \* ~mask + 1
      net_lower == (network \div size) * size
  IN  net_lower <= ip /\ ip <= net_lower + size - 1

InPool(ip, pool) == \E n \in pool : IsIPInRange(ip, n[1], n[2])

check_Carrier(c, ip) == InPool(ip, PEERING_POOL[c])
checkPeeringDestIp(ip) == \E c \in Carrier : check_Carrier(c, ip)
check_CacheIpPool(ip) == InPool(ip, CACHE_IP_POOL)
check_UnknownSourceIP(ip) == InPool(ip, UNKNOWN_SOURCE_POOL)

Swap(e) == <<e[2], e[1]>>

\* Mutant: the cache is looked for at the source of the packet.
OrientedByPacket(src, dst) ==
  LET e1 == IF checkPeeringDestIp(src) THEN Swap(<<src, dst>>) ELSE <<src, dst>>
      e2 == IF check_UnknownSourceIP(e1[2]) THEN Swap(e1) ELSE e1
  IN  IF check_CacheIpPool(src) THEN Swap(e2) ELSE e2

\* buildTcpXdr and buildUdpXdr: source and destination of the line.
Oriented(src, dst) ==
  LET e1 == IF checkPeeringDestIp(src) THEN Swap(<<src, dst>>) ELSE <<src, dst>>
      e2 == IF check_UnknownSourceIP(e1[2]) THEN Swap(e1) ELSE e1
  IN  IF check_CacheIpPool(e2[1]) THEN Swap(e2) ELSE e2

-----------------------------------------------------------------------------
(* The flusher thread: UnFlusher::run.                                     *)

FlIndex ==
  /\ fpc = "poll"
  /\ curIndex' = READ_TIME_INDEX(now)
  /\ fpc' = "minute"
  /\ out' = {}
  /\ UNCHANGED <<now, tcpVars, udpVars, scanVars, flStore, lastIndex, file, fSec,
                 counted, history>>

\* The minute is read after the index.
FlMinute ==
  /\ fpc = "minute"
  /\ file' = OpenFile(now)
  /\ fpc' = "drain"
  /\ out' = {}
  /\ UNCHANGED <<now, tcpVars, udpVars, scanVars, flStore, lastIndex, curIndex, fSec,
                 counted, history>>

\* Mutant: the index is that of the clock, not the one read before.
BehindClock == lastIndex # READ_TIME_INDEX(now)

Behind == lastIndex # curIndex

\* buildTcpXdr leaves these reports out.
LeftOut(r) == r.frames <= ShortReport \/ r.pLoadPkt = 0

InSlot(i) == Range(flStore["tcp"][i]) \cup Range(flStore["udp"][i])

\* A place of the ring, <<protocol, slot, position>>, and what is there.
PlacesOf(i) ==
  UNION {{proto} \X {i} \X DOMAIN flStore[proto][i] : proto \in {"tcp", "udp"}}
At(x) == flStore[x[1]][x[2]][x[3]]

\* Where the reports of f are in a slot, and those among them that are written.
OfFlow(f, i) == {x \in PlacesOf(i) : At(x).flow = f}
Kept(places) == {x \in places : ~ LeftOut(At(x))}

\* The frames in reports: a number within its report stands for each.
FramesAt(places) == UNION {{x} \X (1 .. At(x).frames) : x \in places}
Frames(places) == Cardinality(FramesAt(places))

\* processTcpData and processUdpData for one slot.
FlDrain ==
  /\ fpc = "drain"
  /\ Behind
  /\ out' = {r \in InSlot(lastIndex) : ~ LeftOut(r)}
  /\ filed' = [f \in Flow |-> filed[f] + Frames(Kept(OfFlow(f, lastIndex)))]
  /\ leftOut' = [f \in Flow |-> leftOut[f] + Frames(OfFlow(f, lastIndex))
                                  - Frames(Kept(OfFlow(f, lastIndex)))]
  /\ sources' = [f \in Flow |-> sources[f] \cup
                   {Oriented(r.src, r.dst)[1] : r \in {x \in out' : x.flow = f}}]
  /\ flStore' = [proto \in {"tcp", "udp"} |->
                   [flStore[proto] EXCEPT ![lastIndex] = <<>>]]
  /\ lastIndex' = READ_NEXT_TIME_INDEX(lastIndex)
  /\ fSec' = fSec + 1
  /\ UNCHANGED <<now, tcpVars, udpVars, scanVars, fpc, curIndex, file, counted>>

FlSleep ==
  /\ fpc = "drain"
  /\ ~ Behind
  /\ fpc' = "poll"
  /\ out' = {}
  /\ UNCHANGED <<now, tcpVars, udpVars, scanVars, flStore, lastIndex, curIndex, file,
                 fSec, counted, history>>

Flusher == FlIndex \/ FlMinute \/ FlDrain \/ FlSleep

Next ==
  \/ Tick
  \/ Packet
  \/ \E f \in TcpFlow : \E src \in Ends(f) : TcpFin(f, src)
  \/ Scan
  \/ Flusher

Spec == Init /\ [][Next]_vars

\* Clock, manager and flusher only usleep between their rounds.
FairSpec == Spec /\ WF_vars(Tick) /\ WF_vars(Scan) /\ WF_vars(Flusher)

-----------------------------------------------------------------------------
(* Properties.                                                             *)

\* The frames of f in sessions: a number within its session stands for each.
FramesIn(map, session, f) ==
  UNION {{k} \X (1 .. session[map[k]].frCount) : k \in {x \in DOMAIN map : x[2] = f}}
OpenFrames(f) == IF f \in TcpFlow THEN FramesIn(tMap, tSession, f)
                 ELSE FramesIn(uMap, uSession, f)

\* Those in reports the flusher has not reached.
StoredFrames(f) == FramesAt(UNION {OfFlow(f, i) : i \in Slots})

(* From session to file no frame is lost or written twice, over slices in  *)
(* place, FINs, scans and the ring: it is in a session, in the ring, in a  *)
(* line of its flow, or was left out with a report too short or without    *)
(* payload.  And the pools stay in order.                                  *)
FramesInPipeline ==
  /\ \A f \in Flow : counted[f] = Cardinality(OpenFrames(f))
                             + Cardinality(StoredFrames(f)) + filed[f] + leftOut[f]
  /\ TcpPool!PoolConsistent /\ UdpPool!PoolConsistent

Classified(ip) ==
  checkPeeringDestIp(ip) \/ check_UnknownSourceIP(ip) \/ check_CacheIpPool(ip)

(* Both directions of a flow have sessions of their own, and either may    *)
(* come first or again after a FIN; yet all lines of a flow name the same  *)
(* end as the source if exactly one of its ends is in a pool, even in one  *)
(* pool of each kind.                                                      *)
OrientationAgrees ==
  \A f \in Flow :
    (Classified(f[2]) # Classified(f[3])) => Cardinality(sources[f]) <= 1

(* A report is never put into the file of a minute that was over when it   *)
(* was flushed, nor further ahead than the flusher may lag: those of the   *)
(* last two seconds of a minute go to the file of the next.                *)
FileFits ==
  \A r \in out :
    /\ (r.sec + 2) \div SecPerMin <= file
    /\ file <= (r.sec + 1 + MaxReadLag) \div SecPerMin

(* Once packets stop coming, every frame gets out of sessions and ring.    *)
EveryFrameSettled ==
  <>[](\A f \in Flow : counted[f] = filed[f] + leftOut[f])
=============================================================================
