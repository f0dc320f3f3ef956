---------------------------- MODULE MCUdpSession -----------------------------
(* UdpSession for TLC: the flows are interchangeable. *)
EXTENDS UdpSession, TLC

FlowSymmetry == Permutations(Flow)
=============================================================================
