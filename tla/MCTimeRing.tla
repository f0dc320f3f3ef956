----------------------------- MODULE MCTimeRing ------------------------------
(* TimeRing for TLC: three packets, interchangeable where no temporal *)
(* property is checked.                                               *)
EXTENDS TimeRing, TLC

PacketSymmetry == Permutations(Packet)
=============================================================================
