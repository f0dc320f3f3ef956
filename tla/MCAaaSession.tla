---------------------------- MODULE MCAaaSession -----------------------------
(* AaaSession for TLC.  x1 and x2 repeat an identifier; x3 has the next    *)
(* identifier and the same hash; x4 is an access exchange.                 *)
EXTENDS AaaSession, TLC

CONSTANTS x1, x2, x3, x4

KeyOfAll ==
  [x \in {x1, x2, x3, x4} |->
     [kind |-> IF x = x4 THEN "access" ELSE "accounting",
      ident |-> IF x = x3 THEN 2 ELSE 1, hash |-> 7]]

KeyOfTx == [x \in Tx |-> KeyOfAll[x]]
Keys == {KeyOfTx[x] : x \in Tx}

TxSymmetry == Permutations({x1, x2})
=============================================================================
