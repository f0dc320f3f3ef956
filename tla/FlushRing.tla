------------------------------ MODULE FlushRing ------------------------------
(***************************************************************************)
(* The last hop of the pipeline: the session managers hand reports to a    *)
(* flusher through FlushRepo, a ring of one-second slots per manager, and  *)
(* the flusher writes them to a file named after the minute               *)
(* (plugins/tcp/src/TcpFlusher.cpp; UDP, DNS and AAA flushers are alike).  *)
(*                                                                         *)
(* There is neither lock nor busy flag: only the slot index keeps manager  *)
(* and flusher apart.  The file is named by the clock's fields, which      *)
(* Timer::run stores one after the other while the flusher reads them.     *)
(***************************************************************************)
EXTENDS RingClock, FiniteSets

CONSTANTS
  Manager,        \* the session managers whose reports are this flusher's
  SM_INSTANCES,   \* the flusher looks at the managers 0 .. SM_INSTANCES - 1
  Report,         \* the reports that may be flushed
  NoReport,       \* a manager that has none at hand
  SecPerMin, MinPerHour, HourPerDay,  \* 60, 60 and 24, smaller for TLC
  LastFlushSec    \* bound: the last second in which reports are flushed

\* DnsFlusher::processDnsData takes SM_INSTANCES from the UDP managers: the
\* reports of DNS managers beyond their number would stay in memory for ever.
ASSUME FlushRingAssumption ==
  /\ SM_INSTANCES \in Nat
  /\ Manager \subseteq 0 .. (SM_INSTANCES - 1)
  /\ NoReport \notin Report
  /\ SecPerMin \in Nat \ {0} /\ HourPerDay \in Nat \ {0}
  /\ MinPerHour \in Nat /\ MinPerHour >= 2
  /\ LastFlushSec \in Nat

\* What keeps the flusher from missing a minute: it may look for the first
\* time when its lag begins and for the second time when the next lag ends.
ASSUME MinuteAssumption == 2 * MaxReadLag <= SecPerMin

Row == 0 .. (SM_INSTANCES - 1)

VARIABLES
  clock,       \* Global::CURRENT_MIN, _HOUR, _DAY
  flStore,     \* FlushRepo::tcpFlStore, number -> report for each slot
  flCnt,       \* FlushRepo::tcpFlCnt
  mgrPc,       \* where each manager is in tcpFlushSession
  mReport,     \* the report each manager flushes
  mIdx,        \* TcpSMInterface::tIdx
  fpc,         \* where the flusher is in TcpFlusher::run
  prevMin,     \* TcpFlusher::prevMin
  file,        \* the name of xdrTcpHandler's file, as far as it is known
  flLastIndex, \* TcpFlusher::lastIndex
  flCurIndex,  \* TcpFlusher::curIndex
  flTurn,      \* TcpFlusher::processTcpData, sm
  \* History, for the properties only:
  flushedAt,   \* the second in which a report was stamped into a slot, or 0
  written,     \* <<report, name of the file>>
  fSec         \* the second whose slot lastIndex stands for

clockVars == <<now, clock>>
repoVars == <<flStore, flCnt>>
managerVars == <<mgrPc, mReport, mIdx, flushedAt>>
fileVars == <<prevMin, file>>
loopVars == <<flLastIndex, flCurIndex, flTurn, fSec>>
flushVars == <<clockVars, repoVars, managerVars, fpc, fileVars, loopVars, written>>

-----------------------------------------------------------------------------
(* The clock.  DAY stands for day, month and year.                         *)

Field == {"min", "hour", "day"}

MinuteNo(t) == t \div SecPerMin

\* The fields in the minute with number n.
FieldsOf(n) ==
  [min  |-> n % MinPerHour,
   hour |-> (n \div MinPerHour) % HourPerDay,
   day  |-> n \div (MinPerHour * HourPerDay)]

\* Timer::run stores min before hour before day, and the second last.
StoredBefore(f) == CASE f = "min"  -> {}
                     [] f = "hour" -> {"min"}
                     [] f = "day"  -> {"min", "hour"}

TimerMay ==
  /\ now < MaxSec
  /\ \A m \in Manager :
       mgrPc[m] # "idle" => now + 1 <= flushedAt[mReport[m]] + MaxWriteDelay
  /\ now + 1 - fSec <= MaxReadLag

StoreField(f) ==
  LET next == FieldsOf(MinuteNo(now + 1))
  IN  /\ TimerMay
      /\ \A g \in StoredBefore(f) : clock[g] = next[g]
      /\ clock[f] # next[f]
      /\ clock' = [clock EXCEPT ![f] = next[f]]
      /\ UNCHANGED <<now, repoVars, managerVars, fpc, fileVars, loopVars, written>>

StoreSecond ==
  /\ TimerMay
  /\ clock = FieldsOf(MinuteNo(now + 1))
  /\ now' = now + 1
  /\ UNCHANGED <<clock, repoVars, managerVars, fpc, fileVars, loopVars, written>>

Timer == StoreSecond \/ \E f \in Field : StoreField(f)

-----------------------------------------------------------------------------
FlushInit ==
  /\ now = FirstSec
  /\ clock = FieldsOf(MinuteNo(FirstSec))
  /\ flStore = [m \in Row |-> [i \in Slots |-> [n \in {} |-> NoReport]]]
  /\ flCnt = [m \in Row |-> [i \in Slots |-> 0]]
  /\ mgrPc = [m \in Manager |-> "idle"]
  /\ mReport = [m \in Manager |-> NoReport]
  /\ mIdx = [m \in Manager |-> 0]
  /\ fpc = "first" /\ prevMin = clock.min
  /\ file = [f \in {} |-> 0]
  /\ flLastIndex = READ_TIME_INDEX(FirstSec) /\ flCurIndex = flLastIndex
  /\ flTurn = 0
  /\ flushedAt = [x \in Report |-> 0]
  /\ written = {} /\ fSec = FirstSec

-----------------------------------------------------------------------------
(* A session manager: tcpFlushSession and tcpStoreSession.                 *)

SmFlush(m) ==
  /\ mgrPc[m] = "idle"
  /\ now <= LastFlushSec
  /\ \E x \in Report :
       /\ flushedAt[x] = 0
       /\ flushedAt' = [flushedAt EXCEPT ![x] = now]
       /\ mReport' = [mReport EXCEPT ![m] = x]
  /\ mIdx' = [mIdx EXCEPT ![m] = PKT_WRITE_TIME_INDEX(now)]
  /\ mgrPc' = [mgrPc EXCEPT ![m] = "store"]
  /\ UNCHANGED <<clockVars, repoVars, fpc, fileVars, loopVars, written>>

SmStore(m) ==
  LET i == mIdx[m]
      n == flCnt[m][i]
      old == flStore[m][i]
  IN  /\ mgrPc[m] = "store"
      /\ flStore' = [flStore EXCEPT ![m][i] =
                       [k \in DOMAIN old \cup {n} |->
                          IF k = n THEN mReport[m] ELSE old[k]]]
      /\ mgrPc' = [mgrPc EXCEPT ![m] = "count"]
      /\ UNCHANGED <<clockVars, flCnt, mReport, mIdx, flushedAt, fpc, fileVars,
                     loopVars, written>>

SmCount(m) ==
  /\ mgrPc[m] = "count"
  /\ flCnt' = [flCnt EXCEPT ![m][mIdx[m]] = @ + 1]
  /\ mgrPc' = [mgrPc EXCEPT ![m] = "idle"]
  /\ mReport' = [mReport EXCEPT ![m] = NoReport]
  /\ UNCHANGED <<clockVars, flStore, mIdx, flushedAt, fpc, fileVars, loopVars, written>>

ManagerStep(m) == SmStore(m) \/ SmCount(m)

-----------------------------------------------------------------------------
(* The flusher: TcpFlusher::run.                                           *)

\* Mutant: the change from the last minute of an hour to 0 goes unnoticed.
MinuteIsLater == clock.min > prevMin

MinuteChanged == clock.min # prevMin

\* A new minute: the file is closed.
FlRotate ==
  /\ fpc = "poll"
  /\ MinuteChanged
  /\ prevMin' = clock.min
  /\ file' = [f \in {} |-> 0]
  /\ fpc' = "open"
  /\ UNCHANGED <<clockVars, repoVars, managerVars, loopVars, written>>

FlSameMinute ==
  /\ fpc = "poll"
  /\ ~ MinuteChanged
  /\ fpc' = "index"
  /\ UNCHANGED <<clockVars, repoVars, managerVars, fileVars, loopVars, written>>

\* The arguments of openTcpXdrFile are read in any order.
FlReadField(f) ==
  /\ fpc \in {"first", "open"}
  /\ f \notin DOMAIN file
  /\ file' = [g \in DOMAIN file \cup {f} |-> IF g = f THEN clock[f] ELSE file[g]]
  /\ UNCHANGED <<clockVars, repoVars, managerVars, fpc, prevMin, loopVars, written>>

\* The first file is opened before the loop, later ones inside it: a first
\* file whose name mixes two minutes is closed before anything is written.
FlOpen ==
  /\ fpc \in {"first", "open"}
  /\ DOMAIN file = Field
  /\ fpc' = IF fpc = "first" THEN "poll" ELSE "index"
  /\ UNCHANGED <<clockVars, repoVars, managerVars, fileVars, loopVars, written>>

FlIndex ==
  /\ fpc = "index"
  /\ flCurIndex' = READ_TIME_INDEX(now)
  /\ fpc' = "drain"
  /\ UNCHANGED <<clockVars, repoVars, managerVars, fileVars, flLastIndex,
                 flTurn, fSec, written>>

FlDrain ==
  /\ fpc = "drain"
  /\ flTurn' = 0
  /\ fpc' = IF flLastIndex = flCurIndex THEN "poll" ELSE "slots"
  /\ UNCHANGED <<clockVars, repoVars, managerVars, fileVars, flLastIndex,
                 flCurIndex, fSec, written>>

\* processTcpData and flushTcpData, for the slot of manager turn.
FlTakeSlot ==
  /\ fpc = "slots"
  /\ flTurn < SM_INSTANCES
  /\ IF flCnt[flTurn][flLastIndex] > 0
     THEN fpc' = "reports" /\ UNCHANGED flTurn
     ELSE flTurn' = flTurn + 1 /\ UNCHANGED fpc
  /\ UNCHANGED <<clockVars, repoVars, managerVars, fileVars, flLastIndex,
                 flCurIndex, fSec, written>>

\* Mutant: the report stays in the slot.
FlReportKept ==
  /\ fpc = "reports"
  /\ \E n \in DOMAIN flStore[flTurn][flLastIndex] :
       /\ <<flStore[flTurn][flLastIndex][n], file>> \notin written
       /\ written' = written \cup {<<flStore[flTurn][flLastIndex][n], file>>}
       /\ flCnt' = [flCnt EXCEPT ![flTurn][flLastIndex] = @ - 1]
  /\ UNCHANGED <<clockVars, flStore, managerVars, fpc, fileVars, loopVars>>

FlReport ==
  LET slot == flStore[flTurn][flLastIndex]
  IN  /\ fpc = "reports"
      /\ \E n \in DOMAIN slot :
           /\ written' = written \cup {<<slot[n], file>>}
           /\ flStore' = [flStore EXCEPT ![flTurn][flLastIndex] =
                            [k \in DOMAIN slot \ {n} |-> slot[k]]]
           /\ flCnt' = [flCnt EXCEPT ![flTurn][flLastIndex] = @ - 1]
      /\ UNCHANGED <<clockVars, managerVars, fpc, fileVars, loopVars>>

FlLeaveSlot ==
  /\ fpc = "reports"
  /\ DOMAIN flStore[flTurn][flLastIndex] = {}
  /\ flCnt' = [flCnt EXCEPT ![flTurn][flLastIndex] = 0]
  /\ flTurn' = flTurn + 1
  /\ fpc' = "slots"
  /\ UNCHANGED <<clockVars, flStore, managerVars, fileVars, flLastIndex,
                 flCurIndex, fSec, written>>

\* Mutant: the last manager is left out.
FlNextEarly ==
  /\ fpc = "slots"
  /\ flTurn = SM_INSTANCES - 1
  /\ flLastIndex' = READ_NEXT_TIME_INDEX(flLastIndex)
  /\ fSec' = fSec + 1
  /\ fpc' = "drain"
  /\ UNCHANGED <<clockVars, repoVars, managerVars, fileVars, flCurIndex, flTurn,
                 written>>

FlNext ==
  /\ fpc = "slots"
  /\ flTurn = SM_INSTANCES
  /\ flLastIndex' = READ_NEXT_TIME_INDEX(flLastIndex)
  /\ fSec' = fSec + 1
  /\ fpc' = "drain"
  /\ UNCHANGED <<clockVars, repoVars, managerVars, fileVars, flCurIndex, flTurn,
                 written>>

Flusher ==
  \/ FlRotate \/ FlSameMinute \/ FlOpen \/ FlIndex \/ FlDrain
  \/ \E f \in Field : FlReadField(f)
  \/ FlTakeSlot \/ FlReport \/ FlLeaveSlot \/ FlNext

FlushNext ==
  \/ Timer
  \/ \E m \in Manager : SmFlush(m) \/ ManagerStep(m)
  \/ Flusher

FlushSpec == FlushInit /\ [][FlushNext]_flushVars

\* Timer and flusher only usleep; a manager does not stop inside a flush.
FairFlushSpec ==
  /\ FlushSpec
  /\ WF_flushVars(Timer)
  /\ WF_flushVars(Flusher)
  /\ \A m \in Manager : WF_flushVars(ManagerStep(m))

-----------------------------------------------------------------------------
(* Properties.                                                             *)

InRepo(x) ==
  \E m \in Row : \E i \in Slots :
    \E n \in DOMAIN flStore[m][i] : flStore[m][i][n] = x

AtHand(x) == \E m \in Manager : mReport[m] = x /\ mgrPc[m] = "store"

IsWritten(x) == \E w \in written : w[1] = x

FlushTypeOK ==
  /\ now \in Nat
  /\ clock \in [Field -> Nat]
  /\ DOMAIN flStore = Row
  /\ \A m \in Row : \A i \in Slots :
       \A n \in DOMAIN flStore[m][i] : n \in Nat /\ flStore[m][i][n] \in Report
  /\ flCnt \in [Row -> [Slots -> Nat]]
  /\ mgrPc \in [Manager -> {"idle", "store", "count"}]
  /\ mReport \in [Manager -> Report \cup {NoReport}]
  /\ mIdx \in [Manager -> Slots]
  /\ fpc \in {"first", "poll", "open", "index", "drain", "slots", "reports"}
  /\ prevMin \in Nat
  /\ DOMAIN file \subseteq Field
  /\ flLastIndex \in Slots /\ flCurIndex \in Slots
  /\ flTurn \in 0 .. SM_INSTANCES
  /\ flushedAt \in [Report -> Nat]
  /\ \A w \in written : w[1] \in Report /\ w[2] \in [Field -> Nat]
  /\ fSec \in Nat

(* No manager adds to the slot that the flusher is emptying, although      *)
(* nothing but the index keeps them apart: both would change one           *)
(* unordered_map and one counter.                                          *)
FlushSlotsApart ==
  \A m \in Manager :
    mgrPc[m] # "idle" /\ fpc = "reports" /\ flTurn = m => mIdx[m] # flLastIndex

(* Types and the separation of the slots together.                         *)
FlushRingInv == FlushTypeOK /\ FlushSlotsApart

(* A report that was flushed is at hand, stored or written, and only one   *)
(* of them: no number is given twice in a slot, and the flusher's counting *)
(* down never costs a report.                                              *)
NoReportLost ==
  \A x \in Report :
    flushedAt[x] # 0 =>
      Cardinality({p \in {"hand", "stored", "written"} :
                     \/ p = "hand" /\ AtHand(x)
                     \/ p = "stored" /\ InRepo(x)
                     \/ p = "written" /\ IsWritten(x)}) = 1

\* The minutes whose file may get a report of second s.
MinutesFor(s) ==
  {n \in 0 .. MinuteNo(MaxSec + 1) :
     n * SecPerMin <= s + 1 + MaxReadLag
       /\ (n + 1) * SecPerMin > s - (MaxReadLag - 2)}

(* A report is in the file of its minute, or in that of the next if it was *)
(* flushed at the end of its minute.  The hour and the day in the name may *)
(* be those of the minute before, when the flusher opened the file between *)
(* two stores of the clock: a file of an hour or a day ago is then         *)
(* appended to.  It never gets worse than that.                            *)
InItsFile ==
  \A w \in written :
    \E n \in MinutesFor(flushedAt[w[1]]) :
      LET right == FieldsOf(n)
          before == FieldsOf(n - 1)
      IN  /\ w[2].min = right.min
          /\ w[2].hour \in {right.hour, before.hour}
          /\ w[2].day \in {right.day, before.day}

(* Every report that was flushed is written in the end.                    *)
EveryReportWritten == \A x \in Report : flushedAt[x] # 0 ~> IsWritten(x)
=============================================================================
