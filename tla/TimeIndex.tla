------------------------------ MODULE TimeIndex ------------------------------
(***************************************************************************)
(* The time-sliced rings through which every pair of threads of the probe  *)
(* communicates (core/inc/ServerGlobal.h).  A ring has TIME_INDEX slots,   *)
(* one per second.  A producer that reads second s on the clock writes     *)
(* the slot AFTER the one of s; a consumer drains the slots of the seconds *)
(* that are already over.  Nothing else keeps the two apart.               *)
(***************************************************************************)
EXTENDS Integers

CONSTANT TIME_INDEX     \* Global::TIME_INDEX, 10 in the code

\* A ring of at least two slots: with one, producer and consumer would meet.
ASSUME TimeIndexAssumption == TIME_INDEX \in Nat /\ TIME_INDEX >= 2

Slots == 0 .. (TIME_INDEX - 1)

\* Mutant: the producer writes the slot of the running second.
WriteRunningSecond(epochsec) == epochsec % TIME_INDEX

\* The slot a producer writes when the clock shows epochsec.
PKT_WRITE_TIME_INDEX(epochsec) ==
  IF (epochsec % TIME_INDEX) + 1 >= TIME_INDEX
  THEN 0
  ELSE (epochsec % TIME_INDEX) + 1

\* The slot of second epochsec: a consumer drains up to, excluding, it.
READ_TIME_INDEX(epochsec) == epochsec % TIME_INDEX

\* Mutant: the wrap comes one slot late.
NextWrapsLate(idx) == IF idx >= TIME_INDEX THEN 0 ELSE idx + 1

\* The slot a consumer drains after slot idx.
READ_NEXT_TIME_INDEX(idx) == IF idx + 1 >= TIME_INDEX THEN 0 ELSE idx + 1
=============================================================================
