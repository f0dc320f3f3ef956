---------------------------- MODULE PacketChannel ----------------------------
(***************************************************************************)
(* What a hop of the pipeline promises: one reliable first-in first-out    *)
(* channel per consumer.  A packet that is accepted is handed over exactly *)
(* once and in the order of acceptance; packets may be refused, but only   *)
(* before they are accepted.                                               *)
(***************************************************************************)
EXTENDS Sequences

CONSTANTS Consumers, Packet

VARIABLES queue,      \* queue[c]: accepted for c, not handed over yet
          delivered   \* delivered[c]: everything handed to c so far

vars == <<queue, delivered>>

Init ==
  /\ queue = [c \in Consumers |-> <<>>]
  /\ delivered = [c \in Consumers |-> <<>>]

Accept(c, p) ==
  /\ queue' = [queue EXCEPT ![c] = Append(@, p)]
  /\ UNCHANGED delivered

Deliver(c) ==
  /\ queue[c] # <<>>
  /\ delivered' = [delivered EXCEPT ![c] = Append(@, Head(queue[c]))]
  /\ queue' = [queue EXCEPT ![c] = Tail(@)]

Next == \E c \in Consumers : Deliver(c) \/ \E p \in Packet : Accept(c, p)

Spec == Init /\ [][Next]_vars
=============================================================================
