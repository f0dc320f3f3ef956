------------------------------ MODULE FlowLedger ------------------------------
(***************************************************************************)
(* What a session manager promises about the frames of its flows: every    *)
(* frame is counted in exactly one report (XDR) of its flow, or discarded  *)
(* with a session too short to report.  A flow never collects more than    *)
(* PktLimit - 1 frames without a report.                                   *)
(***************************************************************************)
EXTENDS Naturals

CONSTANTS Flow, PktLimit, MinFrames

VARIABLES open,        \* open[f]: frames counted and not reported yet
          reported,    \* reported[f]: frames in the reports of f
          discarded    \* discarded[f]: frames thrown away

ledgerVars == <<open, reported, discarded>>

LedgerInit ==
  /\ open = [f \in Flow |-> 0]
  /\ reported = [f \in Flow |-> 0]
  /\ discarded = [f \in Flow |-> 0]

\* One more frame of an open flow.
Count(f) ==
  /\ open[f] + 1 < PktLimit
  /\ open' = [open EXCEPT ![f] = @ + 1]
  /\ UNCHANGED <<reported, discarded>>

\* Everything collected so far, with one more frame or none, is reported.
Report(f) ==
  /\ \E n \in {0, 1} :
       reported' = [reported EXCEPT ![f] = @ + open[f] + n]
  /\ open' = [open EXCEPT ![f] = 0]
  /\ UNCHANGED discarded

Discard(f) ==
  /\ open[f] < MinFrames
  /\ discarded' = [discarded EXCEPT ![f] = @ + open[f]]
  /\ open' = [open EXCEPT ![f] = 0]
  /\ UNCHANGED reported

LedgerNext == \E f \in Flow : Count(f) \/ Report(f) \/ Discard(f)

LedgerSpec == LedgerInit /\ [][LedgerNext]_ledgerVars
=============================================================================
