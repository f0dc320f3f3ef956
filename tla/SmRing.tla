------------------------------- MODULE SmRing --------------------------------
(***************************************************************************)
(* The second hop of the pipeline: the routers hand packets to a session   *)
(* manager through smStore, a ring of one-second slots per router.  The    *)
(* slots are unordered maps without a limit: the manager takes the packets *)
(* of a slot in any order.                                                 *)
(*                                                                         *)
(* Shortly before midnight the TCP and UDP managers work off a number of   *)
(* seconds in a busy loop, close every session and then SLEEP until the    *)
(* next day, while the routers go on filling the ring, lap after lap       *)
(* (plugins/tcp/src/TcpSM.cpp).                                            *)
(***************************************************************************)
EXTENDS RingClock, Sequences, FiniteSets

CONSTANTS
  SmRouterCount,  \* the routers of all interfaces
  TcpPacket,      \* the packets that may be routed to this manager
  NoTcpPacket,    \* a router that has none at hand
  EodSec,         \* the second given by DAY_CLEAN_HOUR, _MIN and _SEC
  EodSlots,       \* slots the busy loop works off, 11 in the code
  SleepSec        \* 60 - DAY_CLEAN_SEC

ASSUME SmRingAssumption ==
  /\ SmRouterCount \in Nat \ {0}
  /\ NoTcpPacket \notin TcpPacket
  /\ EodSec \in Nat /\ EodSlots \in Nat \ {0} /\ SleepSec \in Nat \ {0}

\* True of the configured 30 seconds and 10 slots; with other values the
\* manager would wake up in the middle of a lap, where the routers may be.
ASSUME SleepAssumption == SleepSec % TIME_INDEX = 0

SmRouter == 0 .. (SmRouterCount - 1)

VARIABLES
  smBusy,     \* smStore::tcpSmBusy[sm][intf][router][slot]
  smStore,    \* smStore::tcpSmStore, the packets of each router's slots
  rPkt,       \* the packet each router is pushing
  rIdx,       \* Routers::pushTcpPacketToSm, tIdx
  mpc,        \* where the manager is in TcpSM::run
  lastIndex,  \* TcpSM::lastIndex
  curIndex,   \* TcpSM::curIndex
  turn,       \* TcpSM::tcpProcessQueue, the router whose slot is next
  left,       \* slots the busy loop at the end of the day still waits for
  wakeAt,     \* when sleep() is over
  \* History, for the properties only:
  sec,        \* the second in which a packet was stamped into a slot, or 0
  refused,    \* packets a router has thrown away at the busy flag
  processed,  \* the packets given to TCPPacketEntry, in order
  mSec,       \* the second whose slot lastIndex stands for
  slept,      \* mSec when the manager went to sleep, or 0
  woke        \* the clock when it woke up, or 0

ringVars == <<smBusy, smStore>>
routerVars == <<rPkt, rIdx, sec, refused>>
smVars == <<mpc, lastIndex, curIndex, turn, left, wakeAt, processed,
            mSec, slept, woke>>
smRingVars == <<now, ringVars, routerVars, smVars>>

SmRingInit ==
  /\ now = FirstSec
  /\ smBusy = [r \in SmRouter |-> [i \in Slots |-> FALSE]]
  /\ smStore = [r \in SmRouter |-> [i \in Slots |-> {}]]
  /\ rPkt = [r \in SmRouter |-> NoTcpPacket] /\ rIdx = [r \in SmRouter |-> 0]
  /\ mpc = "poll"
  /\ lastIndex = READ_TIME_INDEX(FirstSec) /\ curIndex = lastIndex
  /\ turn = 0 /\ left = 0 /\ wakeAt = 0
  /\ sec = [p \in TcpPacket |-> 0]
  /\ refused = {} /\ processed = <<>>
  /\ mSec = FirstSec /\ slept = 0 /\ woke = 0

-----------------------------------------------------------------------------
\* How far the manager will be behind in its lap when the clock shows t.
Behind(t) == (t - mSec) % TIME_INDEX

\* Timer::run.  sleep() does not end early, and not later than the bound.
SmTick ==
  /\ now < MaxSec
  /\ \A r \in SmRouter :
       rPkt[r] # NoTcpPacket => now + 1 <= sec[rPkt[r]] + MaxWriteDelay
  /\ \/ mpc # "asleep" /\ now + 1 - mSec <= MaxReadLag
     \/ mpc = "asleep" /\ now + 1 <= wakeAt
     \/ mpc = "asleep" /\ now + 1 <= wakeAt + MaxReadLag
                       /\ Behind(now + 1) <= MaxReadLag
  /\ now' = now + 1
  /\ UNCHANGED <<ringVars, routerVars, smVars>>

-----------------------------------------------------------------------------
(* Routers::pushTcpPacketToSm and copyTcpObj.                              *)

RouterClock(r) ==
  /\ rPkt[r] = NoTcpPacket
  /\ \E p \in TcpPacket :
       /\ sec[p] = 0
       /\ rPkt' = [rPkt EXCEPT ![r] = p]
       /\ sec' = [sec EXCEPT ![p] = now]
  /\ rIdx' = [rIdx EXCEPT ![r] = PKT_WRITE_TIME_INDEX(now)]
  /\ UNCHANGED <<now, ringVars, refused, smVars>>

RouterPush(r) ==
  /\ rPkt[r] # NoTcpPacket
  /\ IF smBusy[r][rIdx[r]]
     THEN refused' = refused \cup {rPkt[r]} /\ UNCHANGED smStore
     ELSE smStore' = [smStore EXCEPT ![r][rIdx[r]] = @ \cup {rPkt[r]}]
          /\ UNCHANGED refused
  /\ rPkt' = [rPkt EXCEPT ![r] = NoTcpPacket]
  /\ UNCHANGED <<now, smBusy, rIdx, sec, smVars>>

-----------------------------------------------------------------------------
(* TcpSM::run.                                                             *)

SmPoll ==
  /\ mpc = "poll"
  /\ curIndex' = READ_TIME_INDEX(now)
  /\ mpc' = "drain"
  /\ UNCHANGED <<now, ringVars, routerVars, lastIndex, wakeAt, turn, left,
                 processed, mSec, slept, woke>>

\* The clock is looked at again for the end of the day.
SmDrained ==
  /\ mpc = "drain"
  /\ lastIndex = curIndex
  /\ IF now = EodSec
     THEN mpc' = "eod" /\ left' = EodSlots
     ELSE mpc' = "poll" /\ UNCHANGED left
  /\ UNCHANGED <<now, ringVars, routerVars, lastIndex, curIndex, wakeAt,
                 turn, processed, mSec, slept, woke>>

\* The busy loop: it looks at the clock before every slot.
SmEodPoll ==
  /\ mpc = "eod"
  /\ left > 0
  /\ curIndex' = READ_TIME_INDEX(now)
  /\ mpc' = IF lastIndex # curIndex' THEN "slots" ELSE "eod"
  /\ turn' = 0
  /\ UNCHANGED <<now, ringVars, routerVars, lastIndex, wakeAt, left,
                 processed, mSec, slept, woke>>

\* Every session is closed (TcpSession), and the thread goes to sleep.
SmSleep ==
  /\ mpc = "eod"
  /\ left = 0
  /\ mpc' = "asleep"
  /\ wakeAt' = now + SleepSec
  /\ slept' = mSec
  /\ UNCHANGED <<now, ringVars, routerVars, lastIndex, curIndex, turn, left,
                 processed, mSec, woke>>

SmWake ==
  /\ mpc = "asleep"
  /\ now >= wakeAt
  /\ mpc' = "poll"
  /\ mSec' = now - Behind(now)
  /\ woke' = now
  /\ UNCHANGED <<now, ringVars, routerVars, lastIndex, curIndex, wakeAt,
                 turn, left, processed, slept>>

SmEnter ==
  /\ mpc = "drain"
  /\ lastIndex # curIndex
  /\ turn' = 0
  /\ mpc' = "slots"
  /\ UNCHANGED <<now, ringVars, routerVars, lastIndex, curIndex, wakeAt,
                 left, processed, mSec, slept, woke>>

\* tcpProcessQueue and processQueue_sm, for the slot of router turn.
SmTakeSlot ==
  /\ mpc = "slots"
  /\ turn < SmRouterCount
  /\ IF smStore[turn][lastIndex] = {}
     THEN turn' = turn + 1 /\ UNCHANGED <<mpc, smBusy>>
     ELSE mpc' = "packets" /\ UNCHANGED turn
          /\ smBusy' = [smBusy EXCEPT ![turn][lastIndex] = TRUE]
  /\ UNCHANGED <<now, smStore, routerVars, lastIndex, curIndex, wakeAt, left,
                 processed, mSec, slept, woke>>

SmPacket ==
  /\ mpc = "packets"
  /\ \E p \in smStore[turn][lastIndex] :
       /\ processed' = Append(processed, p)
       /\ smStore' = [smStore EXCEPT ![turn][lastIndex] = @ \ {p}]
  /\ UNCHANGED <<now, smBusy, routerVars, mpc, lastIndex, curIndex, wakeAt,
                 turn, left, mSec, slept, woke>>

\* Mutant: the slot is left after its first packet, and cleared.
SmLeaveSlotEarly ==
  /\ mpc = "packets"
  /\ smStore' = [smStore EXCEPT ![turn][lastIndex] = {}]
  /\ smBusy' = [smBusy EXCEPT ![turn][lastIndex] = FALSE]
  /\ turn' = turn + 1
  /\ mpc' = "slots"
  /\ UNCHANGED <<now, routerVars, lastIndex, curIndex, wakeAt, left,
                 processed, mSec, slept, woke>>

SmLeaveSlot ==
  /\ mpc = "packets"
  /\ smStore[turn][lastIndex] = {}
  /\ smBusy' = [smBusy EXCEPT ![turn][lastIndex] = FALSE]
  /\ turn' = turn + 1
  /\ mpc' = "slots"
  /\ UNCHANGED <<now, smStore, routerVars, lastIndex, curIndex, wakeAt, left,
                 processed, mSec, slept, woke>>

SmNext ==
  /\ mpc = "slots"
  /\ turn = SmRouterCount
  /\ lastIndex' = READ_NEXT_TIME_INDEX(lastIndex)
  /\ mSec' = mSec + 1
  /\ IF left > 0
     THEN left' = left - 1 /\ mpc' = "eod"
     ELSE mpc' = "drain" /\ UNCHANGED left
  /\ UNCHANGED <<now, ringVars, routerVars, curIndex, wakeAt, turn,
                 processed, slept, woke>>

SmStep ==
  \/ SmPoll \/ SmDrained \/ SmEodPoll \/ SmSleep \/ SmWake \/ SmEnter
  \/ SmTakeSlot \/ SmPacket \/ SmLeaveSlot \/ SmNext

SmRingNext ==
  \/ SmTick
  \/ \E r \in SmRouter : RouterClock(r) \/ RouterPush(r)
  \/ SmStep

SmRingSpec == SmRingInit /\ [][SmRingNext]_smRingVars

-----------------------------------------------------------------------------
(* Properties.                                                             *)

SmTypeOK ==
  /\ now \in Nat
  /\ smBusy \in [SmRouter -> [Slots -> BOOLEAN]]
  /\ smStore \in [SmRouter -> [Slots -> SUBSET TcpPacket]]
  /\ rPkt \in [SmRouter -> TcpPacket \cup {NoTcpPacket}]
  /\ rIdx \in [SmRouter -> Slots]
  /\ mpc \in {"poll", "drain", "slots", "packets", "eod", "asleep"}
  /\ lastIndex \in Slots /\ curIndex \in Slots
  /\ turn \in 0 .. SmRouterCount
  /\ left \in 0 .. EodSlots
  /\ sec \in [TcpPacket -> Nat]
  /\ refused \subseteq TcpPacket
  /\ processed \in Seq(TcpPacket)
  /\ wakeAt \in Nat /\ mSec \in Nat /\ slept \in Nat /\ woke \in Nat

Stored(p) == \E r \in SmRouter : \E i \in Slots : p \in smStore[r][i]

(* No router writes the slot the manager is taking packets from, on        *)
(* ordinary days and when the manager has slept for several laps of the    *)
(* ring: a router at the slot would change an unordered_map under the      *)
(* manager's iterator.                                                     *)
SlotsApart ==
  \A r \in SmRouter :
    rPkt[r] # NoTcpPacket /\ mpc = "packets" /\ turn = r => rIdx[r] # lastIndex

(* Types and the separation of the slots together.                         *)
SmRingInv == SmTypeOK /\ SlotsApart

\* The packet was to be taken while the manager slept.
InPause(p) ==
  /\ slept # 0
  /\ sec[p] + 1 >= slept
  /\ woke # 0 => sec[p] < woke

\* How long a packet may wait: the second it came in and the manager's lag,
\* and the sleep on top if it came while the manager slept.
Patience(p) == 1 + MaxReadLag + (IF InPause(p) THEN SleepSec ELSE 0)

(* A packet that was routed is processed, exactly once, or waits in a      *)
(* slot, and not for ever: the busy flag never costs one, a slot that is   *)
(* filled again while the manager sleeps keeps what it had, and nothing    *)
(* waits for one more lap of the ring, because the manager wakes up at the *)
(* slot at which it fell asleep.                                           *)
NothingLost ==
  \A p \in TcpPacket :
    LET times == Cardinality({k \in DOMAIN processed : processed[k] = p})
    IN  sec[p] # 0 =>
          \/ times = 1 /\ ~ Stored(p)
          \/ times = 0 /\ Stored(p) /\ now - sec[p] <= Patience(p)
          \/ times = 0 /\ \E r \in SmRouter : rPkt[r] = p

(* Packets are processed in the order of the seconds in which they came;   *)
(* only those that came while the manager slept may be overtaken.          *)
SecondsInOrder ==
  \A i, j \in DOMAIN processed :
    i < j /\ ~ InPause(processed[j]) => sec[processed[i]] <= sec[processed[j]]
=============================================================================
