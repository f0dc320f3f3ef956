------------------------------ MODULE HalfJoin -------------------------------
(***************************************************************************)
(* What the DNS and the AAA session managers promise about requests and    *)
(* responses, without pools, clocks and time-outs: the two halves of an    *)
(* exchange come in either order, the first one waits under its key, the   *)
(* second one is joined with it, and a half is given up or not wanted now  *)
(* and then.  DnsSession and AaaSession implement this.                    *)
(***************************************************************************)
CONSTANTS
  Tx,      \* exchanges
  Key,     \* what exchanges are known by
  KeyOf,   \* KeyOf[x]: the key of an exchange
  Nobody   \* nobody waits

Side == {"request", "response"}
Half == Side \X Tx

\* What an implementation must see to: exchanges have keys, and nobody is
\* not a half.
KeysFit ==
  /\ KeyOf \in [Tx -> Key]
  /\ Nobody \notin Half

VARIABLES
  waiting, \* waiting[k]: the half that waits under k
  seen,    \* halves that have been handled
  pairs    \* <<request, response>> of the exchanges that were joined

halfVars == <<waiting, seen, pairs>>

Other(side) == IF side = "request" THEN "response" ELSE "request"

Pair(side, x, y) == IF side = "request" THEN <<x, y>> ELSE <<y, x>>

HalfInit ==
  /\ waiting = [k \in Key |-> Nobody]
  /\ seen = {}
  /\ pairs = {}

See(side, x) ==
  /\ <<side, x>> \notin seen
  /\ seen' = seen \cup {<<side, x>>}

Await(side, x) ==
  /\ See(side, x)
  /\ waiting[KeyOf[x]] = Nobody
  /\ waiting' = [waiting EXCEPT ![KeyOf[x]] = <<side, x>>]
  /\ UNCHANGED pairs

Join(side, x, y) ==
  /\ See(side, x)
  /\ waiting[KeyOf[x]] = <<Other(side), y>>
  /\ waiting' = [waiting EXCEPT ![KeyOf[x]] = Nobody]
  /\ pairs' = pairs \cup {Pair(side, x, y)}

\* A repeated half, or no room for it.
Ignore(side, x) ==
  /\ See(side, x)
  /\ UNCHANGED <<waiting, pairs>>

GiveUp(K) ==
  /\ waiting' = [k \in Key |-> IF k \in K THEN Nobody ELSE waiting[k]]
  /\ UNCHANGED <<seen, pairs>>

Come(side, x) ==
  \/ Await(side, x)
  \/ \E y \in Tx : Join(side, x, y)
  \/ Ignore(side, x)

HalfNext ==
  \/ \E side \in Side : \E x \in Tx : Come(side, x)
  \/ \E K \in SUBSET Key : GiveUp(K)

HalfSpec == HalfInit /\ [][HalfNext]_halfVars

-----------------------------------------------------------------------------
HalfTypeOK ==
  /\ waiting \in [Key -> Half \cup {Nobody}]
  /\ seen \subseteq Half
  /\ pairs \subseteq Tx \X Tx

\* Only what was handled waits, under its own key, and nothing that was
\* joined waits any more.
WaitingIsFresh ==
  \A k \in Key : waiting[k] # Nobody =>
    /\ waiting[k] \in seen
    /\ KeyOf[waiting[k][2]] = k
    /\ \A p \in pairs : waiting[k] \notin {<<"request", p[1]>>, <<"response", p[2]>>}

\* Only what was handled is joined.
PairsWereSeen ==
  \A p \in pairs : <<"request", p[1]>> \in seen /\ <<"response", p[2]>> \in seen

(* No request is reported with two responses and no response with two      *)
(* requests, and what is joined has one key.                               *)
OnePartner ==
  /\ \A p, q \in pairs : p[1] = q[1] \/ p[2] = q[2] => p = q
  /\ \A p \in pairs : KeyOf[p[1]] = KeyOf[p[2]]
=============================================================================
