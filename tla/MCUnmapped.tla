------------------------------ MODULE MCUnmapped ------------------------------
(* Unmapped for TLC: 4-bit addresses, a UDP flow into a peering network and  *)
(* a TCP flow out of a network that is an unknown source and a cache.       *)
EXTENDS Unmapped

MCTcpFlow == {<<"t", 5, 14>>}
MCUdpFlow == {<<"u", 3, 10>>}
MCPeeringPool == [c \in Carrier |-> IF c = "I3DNET" THEN {<<9, 12>>} ELSE {<<13, 14>>}]
MCUnknownSourcePool == {<<5, 15>>}
MCCachePool == {<<4, 14>>}
=============================================================================
