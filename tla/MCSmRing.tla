------------------------------ MODULE MCSmRing -------------------------------
(* SmRing for TLC: interchangeable packets. *)
EXTENDS SmRing, TLC

PacketSymmetry == Permutations(TcpPacket)
=============================================================================
