------------------------------ MODULE RingClock ------------------------------
(***************************************************************************)
(* The clock by which the threads at both ends of a ring choose their      *)
(* slots, and how late they may be.  Each hop of the pipeline (TimeRing,   *)
(* SmRing, FlushRing) adds its ring and its threads, and its clock ticks   *)
(* as often as these bounds let it.                                        *)
(***************************************************************************)
EXTENDS TimeIndex

CONSTANTS
  MaxWriteDelay,  \* clock ticks a producer may take from clock to slot
  MaxReadLag,     \* seconds a consumer may stay behind the clock
  FirstSec,       \* the clock at the start
  MaxSec          \* bound: the last second of the run

ASSUME RingClockAssumption ==
  /\ MaxWriteDelay \in Nat /\ MaxReadLag \in Nat
  /\ FirstSec \in Nat \ {0} /\ MaxSec \in Nat

\* What keeps the rings safe: a producer finishes before the second tick after
\* it has read the clock, a consumer never falls a whole lap behind.
ASSUME SchedulingAssumption ==
  /\ MaxWriteDelay <= 1
  /\ MaxReadLag <= TIME_INDEX - 2

VARIABLE now    \* Global::CURRENT_EPOCH_SEC
=============================================================================
