---------------------------- MODULE MCTcpSession -----------------------------
(* TcpSession for TLC: flows and sequence numbers are interchangeable. *)
EXTENDS TcpSession, TLC

FlowSymmetry == Permutations(Flow) \cup Permutations(SeqNo)
=============================================================================
