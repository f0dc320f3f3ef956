---------------------------- MODULE MCDnsSession -----------------------------
(* DnsSession for TLC: x1 and x2 have the same key, x3 one of its own. *)
EXTENDS DnsSession, TLC

CONSTANTS x1, x2, x3, k1, k2

Transactions == {x1, x2, x3}
Keys == {k1, k2}
KeyOfTx == [x \in Transactions |-> IF x = x3 THEN k2 ELSE k1]

TxSymmetry == Permutations({x1, x2})
=============================================================================
