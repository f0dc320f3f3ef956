----------------------------- MODULE MCFlushRing -----------------------------
(* FlushRing for TLC: interchangeable reports. *)
EXTENDS FlushRing, TLC

ReportSymmetry == Permutations(Report)
=============================================================================
