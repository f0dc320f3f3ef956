------------------------------ MODULE TimeRing -------------------------------
(***************************************************************************)
(* The first hop of the pipeline: one read agent (ReadTcpAgent, and its    *)
(* UDP, DNS and AAA copies) hands the packets of one interface to the      *)
(* routers of that interface through agentStore, a ring of one-second      *)
(* slots per router.  The threads share the busy flags, the counters and   *)
(* the packet slots without any lock.                                      *)
(*                                                                         *)
(* Every shared access that another thread can come between is a step of   *)
(* its own.  The clock (Timer) ticks in between, as often as the           *)
(* scheduling bounds of RingClock let it.                                  *)
(***************************************************************************)
EXTENDS RingClock, Sequences, FiniteSets, SequencesExt

CONSTANTS
  RouterCount,      \* SMGlobal::ROUTER_PER_INTERFACE of the interface
  maxPktPerRouter,  \* packets per second over the number of routers
  Packet,           \* the packets that may arrive, each at most once
  NoPacket,         \* what a slot holds before its first packet
  LastSendSec       \* bound: the last second in which packets arrive

ASSUME TimeRingAssumption ==
  /\ RouterCount \in Nat \ {0}
  /\ maxPktPerRouter \in Nat
  /\ NoPacket \notin Packet
  /\ LastSendSec \in Nat

Router == 0 .. (RouterCount - 1)

VARIABLES
  busy,      \* agentStore::tcpABusy[intf][router][slot]
  cnt,       \* agentStore::tcpACnt[intf][router][slot]
  store,     \* agentStore::tcpAStore[intf][router][slot][k]
  apc,       \* where the agent is in ReadTcpAgent::processPacket
  pkt,       \* nwtData, the packet the agent has received
  router,    \* ReadTcpAgent::router, the next router to serve
  t_index,   \* ReadTcpAgent::t_index
  rpc,       \* where each router is in Routers::run
  lastIdx,   \* Routers::run, lastIdx
  curIdx,    \* Routers::run, curIdx
  recCnt,    \* Routers::readTcpPacket, recCnt
  pos,       \* Routers::readTcpPacket, the loop index i
  \* History, for the properties only:
  aSec,      \* the second in which the agent read t_index off the clock
  rSec,      \* the second whose slot lastIdx stands for
  cSec,      \* the second whose slot curIdx stands for
  arrived,   \* packets received so far
  accepted,  \* accepted[r]: packets the agent has counted into a slot of r
  routed     \* routed[r]: packets router r has passed to findSmForTcpPacket

ring == <<busy, cnt, store>>
agent == <<apc, pkt, router, t_index, aSec>>
readers == <<rpc, lastIdx, curIdx, recCnt, pos, rSec, cSec>>
vars == <<now, ring, agent, readers, arrived, accepted, routed>>

AgentAtSlot == {"check", "copy", "count"}
RouterAtSlot == {"take", "route", "release"}

Init ==
  /\ now = FirstSec
  /\ busy = [r \in Router |-> [i \in Slots |-> FALSE]]
  /\ cnt = [r \in Router |-> [i \in Slots |-> 0]]
  /\ store = [r \in Router |-> [i \in Slots |->
                [k \in 0 .. (maxPktPerRouter - 1) |-> NoPacket]]]
  /\ apc = "recv" /\ pkt = NoPacket /\ router = 0 /\ t_index = 0
  /\ aSec = FirstSec
  /\ rpc = [r \in Router |-> "sleep"]
  /\ lastIdx = [r \in Router |-> READ_TIME_INDEX(FirstSec)]
  /\ curIdx = lastIdx
  /\ recCnt = [r \in Router |-> 0]
  /\ pos = [r \in Router |-> 0]
  /\ rSec = [r \in Router |-> FirstSec]
  /\ cSec = rSec
  /\ arrived = {}
  /\ accepted = [r \in Router |-> <<>>]
  /\ routed = [r \in Router |-> <<>>]

-----------------------------------------------------------------------------
(* Timer::run.  The clock moves on unless a thread would break its bound.  *)
Tick ==
  /\ now < MaxSec
  /\ apc \in AgentAtSlot => now + 1 <= aSec + MaxWriteDelay
  /\ \A r \in Router : now + 1 - rSec[r] <= MaxReadLag
  /\ now' = now + 1
  /\ UNCHANGED <<ring, agent, readers, arrived, accepted, routed>>

-----------------------------------------------------------------------------
(* ReadTcpAgent::processPacket.                                            *)

\* servSocket.recv, then the slot off the clock.
AgentRecv ==
  /\ apc = "recv"
  /\ now <= LastSendSec
  /\ \E p \in Packet \ arrived : pkt' = p /\ arrived' = arrived \cup {p}
  /\ t_index' = PKT_WRITE_TIME_INDEX(now)
  /\ aSec' = now
  /\ apc' = "check"
  /\ UNCHANGED <<now, ring, router, readers, accepted, routed>>

SlotRefuses ==
  \/ busy[router][t_index]
  \/ cnt[router][t_index] >= maxPktPerRouter

\* A refused packet is lost, and the router index does not move on.  (The
\* AAA agent refuses every packet of a probe whose INSTANCE_ID is not 1; then
\* its ring stays empty.)
AgentDrop ==
  /\ apc = "check"
  /\ SlotRefuses
  /\ apc' = "recv"
  /\ UNCHANGED <<now, ring, pkt, router, t_index, aSec, readers,
                 arrived, accepted, routed>>

AgentAdmit ==
  /\ apc = "check"
  /\ ~ SlotRefuses
  /\ apc' = "copy"
  /\ UNCHANGED <<now, ring, pkt, router, t_index, aSec, readers,
                 arrived, accepted, routed>>

\* Mutant: every packet of the second is copied into the first place.
AgentCopyToFirst ==
  /\ apc = "copy"
  /\ store' = [store EXCEPT ![router][t_index][0] = pkt]
  /\ apc' = "count"
  /\ UNCHANGED <<now, busy, cnt, pkt, router, t_index, aSec, readers,
                 arrived, accepted, routed>>

AgentCopy ==
  /\ apc = "copy"
  /\ store' = [store EXCEPT ![router][t_index][cnt[router][t_index]] = pkt]
  /\ apc' = "count"
  /\ UNCHANGED <<now, busy, cnt, pkt, router, t_index, aSec, readers,
                 arrived, accepted, routed>>

AgentCount ==
  /\ apc = "count"
  /\ cnt' = [cnt EXCEPT ![router][t_index] = @ + 1]
  /\ accepted' = [accepted EXCEPT ![router] = Append(@, pkt)]
  /\ router' = IF router + 1 >= RouterCount THEN 0 ELSE router + 1
  /\ apc' = "recv"
  /\ UNCHANGED <<now, busy, store, pkt, t_index, aSec, readers, arrived, routed>>

Agent ==
  AgentRecv \/ AgentDrop \/ AgentAdmit \/ AgentCopy \/ AgentCount

-----------------------------------------------------------------------------
(* Routers::run and Routers::readTcpPacket.                                *)

RouterWake(r) ==
  /\ rpc[r] = "sleep"
  /\ curIdx' = [curIdx EXCEPT ![r] = READ_TIME_INDEX(now)]
  /\ cSec' = [cSec EXCEPT ![r] = now]
  /\ rpc' = [rpc EXCEPT ![r] = "drain"]
  /\ UNCHANGED <<now, ring, agent, lastIdx, recCnt, pos, rSec,
                 arrived, accepted, routed>>

RouterSleep(r) ==
  /\ rpc[r] = "drain"
  /\ lastIdx[r] = curIdx[r]
  /\ rpc' = [rpc EXCEPT ![r] = "sleep"]
  /\ UNCHANGED <<now, ring, agent, lastIdx, curIdx, recCnt, pos, rSec, cSec,
                 arrived, accepted, routed>>

\* On to the next slot, and to the next second.
NextSlot(r) ==
  /\ lastIdx' = [lastIdx EXCEPT ![r] = READ_NEXT_TIME_INDEX(@)]
  /\ rSec' = [rSec EXCEPT ![r] = @ + 1]

RouterSkip(r) ==
  /\ rpc[r] = "drain"
  /\ lastIdx[r] # curIdx[r]
  /\ cnt[r][lastIdx[r]] = 0
  /\ NextSlot(r)
  /\ UNCHANGED <<now, ring, agent, rpc, curIdx, recCnt, pos, cSec,
                 arrived, accepted, routed>>

RouterTake(r) ==
  /\ rpc[r] = "drain"
  /\ lastIdx[r] # curIdx[r]
  /\ cnt[r][lastIdx[r]] > 0
  /\ recCnt' = [recCnt EXCEPT ![r] = cnt[r][lastIdx[r]]]
  /\ rpc' = [rpc EXCEPT ![r] = "take"]
  /\ UNCHANGED <<now, ring, agent, lastIdx, curIdx, pos, rSec, cSec,
                 arrived, accepted, routed>>

RouterBusy(r) ==
  /\ rpc[r] = "take"
  /\ busy' = [busy EXCEPT ![r][lastIdx[r]] = TRUE]
  /\ pos' = [pos EXCEPT ![r] = 0]
  /\ rpc' = [rpc EXCEPT ![r] = "route"]
  /\ UNCHANGED <<now, cnt, store, agent, lastIdx, curIdx, recCnt, rSec, cSec,
                 arrived, accepted, routed>>

\* Mutant: the loop stops one packet early.
MoreButOne(r) == pos[r] + 1 < recCnt[r]

More(r) == pos[r] < recCnt[r]

RouterRoute(r) ==
  /\ rpc[r] = "route"
  /\ More(r)
  /\ routed' = [routed EXCEPT ![r] = Append(@, store[r][lastIdx[r]][pos[r]])]
  /\ cnt' = [cnt EXCEPT ![r][lastIdx[r]] = @ - 1]
  /\ pos' = [pos EXCEPT ![r] = @ + 1]
  /\ UNCHANGED <<now, busy, store, agent, rpc, lastIdx, curIdx, recCnt, rSec,
                 cSec, arrived, accepted>>

RouterZero(r) ==
  /\ rpc[r] = "route"
  /\ ~ More(r)
  /\ cnt' = [cnt EXCEPT ![r][lastIdx[r]] = 0]
  /\ rpc' = [rpc EXCEPT ![r] = "release"]
  /\ UNCHANGED <<now, busy, store, agent, lastIdx, curIdx, recCnt, pos, rSec,
                 cSec, arrived, accepted, routed>>

RouterRelease(r) ==
  /\ rpc[r] = "release"
  /\ busy' = [busy EXCEPT ![r][lastIdx[r]] = FALSE]
  /\ NextSlot(r)
  /\ rpc' = [rpc EXCEPT ![r] = "drain"]
  /\ UNCHANGED <<now, cnt, store, agent, curIdx, recCnt, pos, cSec,
                 arrived, accepted, routed>>

RouterStep(r) ==
  \/ RouterWake(r) \/ RouterSleep(r) \/ RouterSkip(r) \/ RouterTake(r)
  \/ RouterBusy(r) \/ RouterRoute(r) \/ RouterZero(r) \/ RouterRelease(r)

-----------------------------------------------------------------------------
Next == Tick \/ Agent \/ \E r \in Router : RouterStep(r)

Spec == Init /\ [][Next]_vars

\* Timer and routers run on cores of their own and never block (they only
\* usleep); the agent may wait in recv for ever, but not between two steps.
FairSpec ==
  /\ Spec
  /\ WF_vars(Tick)
  /\ WF_vars(Agent /\ apc # "recv")
  /\ \A r \in Router : WF_vars(RouterStep(r))

-----------------------------------------------------------------------------
(* Properties.                                                             *)

TypeOK ==
  /\ now \in Nat
  /\ busy \in [Router -> [Slots -> BOOLEAN]]
  /\ cnt \in [Router -> [Slots -> Int]]
  /\ store \in [Router -> [Slots ->
                  [0 .. (maxPktPerRouter - 1) -> Packet \cup {NoPacket}]]]
  /\ apc \in {"recv"} \cup AgentAtSlot
  /\ pkt \in Packet \cup {NoPacket}
  /\ router \in Router
  /\ t_index \in Slots
  /\ rpc \in [Router -> {"sleep", "drain", "take", "route", "release"}]
  /\ lastIdx \in [Router -> Slots]
  /\ curIdx \in [Router -> Slots]
  /\ recCnt \in [Router -> Int]
  /\ pos \in [Router -> Nat]
  /\ aSec \in Nat
  /\ rSec \in [Router -> Nat]
  /\ cSec \in [Router -> Nat]

(* The agent and a router are never in the same slot: the slot index alone *)
(* separates ReadTcpAgent::processPacket from Routers::readTcpPacket, whose *)
(* accesses to cnt, busy and the packets are plain loads and stores.       *)
SlotExclusion ==
  \A r \in Router :
    (apc \in AgentAtSlot /\ r = router /\ rpc[r] \in RouterAtSlot)
      => t_index # lastIdx[r]

(* The modular comparison lastIdx # curIdx of Routers::run tells the       *)
(* router exactly whether seconds are left to drain: it neither stops      *)
(* early nor runs into the slots being filled.                             *)
DrainsOnlyThePast ==
  \A r \in Router :
    /\ rSec[r] <= cSec[r] /\ cSec[r] <= now
    /\ (lastIdx[r] = curIdx[r]) <=> (rSec[r] = cSec[r])

(* A packet is refused only when the router's share of that second is      *)
(* used up: the busy flag, which a router sets while it empties a slot,    *)
(* never costs a packet.                                                   *)
DropOnlyWhenFull ==
  [][AgentDrop => cnt[router][t_index] = maxPktPerRouter]_vars

(* The packets of slot i of router r that are still to be routed.          *)
InSlot(r, i) ==
  IF rpc[r] \in {"route", "release"} /\ i = lastIdx[r]
  THEN [k \in 1 .. (recCnt[r] - pos[r]) |-> store[r][i][pos[r] + k - 1]]
  ELSE [k \in 1 .. cnt[r][i] |-> store[r][i][k - 1]]

(* What the ring holds for router r, second by second.                     *)
Pending(r) ==
  FlattenSeq([s \in 1 .. (now + 2 - rSec[r]) |->
                InSlot(r, READ_TIME_INDEX(rSec[r] + s - 1))])

Channel == INSTANCE PacketChannel WITH
  Consumers <- Router,
  queue <- [r \in Router |-> Pending(r)],
  delivered <- routed

(* Refinement: to each router, the agent and the ring are a first-in       *)
(* first-out channel that neither loses, duplicates nor reorders what the  *)
(* agent has accepted.                                                     *)
ImplementsChannel == Channel!Spec

(* Every accepted packet is routed: a slot that was filled is drained      *)
(* before the ring comes round to it again.                                *)
EveryPacketRouted ==
  \A p \in Packet : \A r \in Router :
    (\E k \in DOMAIN accepted[r] : accepted[r][k] = p)
      ~> (\E k \in DOMAIN routed[r] : routed[r][k] = p)
=============================================================================
