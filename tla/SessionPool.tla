----------------------------- MODULE SessionPool -----------------------------
(***************************************************************************)
(* Where every session manager keeps its sessions: a pool of preallocated  *)
(* session objects, a bit per object that says whether it is in use, and a *)
(* map from the key of a flow to the position of its object.  The code is  *)
(* repeated in the TCP, UDP, DNS, AAA and unknown-traffic plugins; this    *)
(* module follows plugins/tcp/src/TcpSMInterface.cpp.                      *)
(*                                                                         *)
(* A session is erased from what its OBJECT says of itself (key and pool   *)
(* index), not from the map entry that led to it.  The 100 maps by user    *)
(* address are one function here: the map of a flow is fixed by its key.   *)
(***************************************************************************)
EXTENDS Integers, FiniteSets

CONSTANTS
  Flow,      \* the keys of the flows (ipv4FlowId)
  NoFlow,    \* the key of an object after reset()
  PoolSize   \* tcpFreeBitPosMax

ASSUME SessionPoolAssumption ==
  /\ NoFlow \notin Flow
  /\ PoolSize \in Nat \ {0}

Pos == 0 .. (PoolSize - 1)

VARIABLES
  sessionMap,   \* tcpV4SessionMap: flow -> position, for the flows in use
  bitFlags,     \* tcpBitFlagsSession: the positions in use
  freeBitPos,   \* tcpFreeBitPos: the position handed out last
  key,          \* sessionIpV4Key of the object at each position
  poolIndex     \* poolIndex of the object at each position

poolVars == <<sessionMap, bitFlags, freeBitPos, key, poolIndex>>

Used == DOMAIN sessionMap

PoolInit ==
  /\ sessionMap = [f \in {} |-> 0]
  /\ bitFlags = {}
  /\ freeBitPos = 0
  /\ key = [p \in Pos |-> NoFlow]
  /\ poolIndex = [p \in Pos |-> p]

\* How many positions the search from freeBitPos passes before p.
Skipped(p) == (p - freeBitPos - 1) % PoolSize

\* p is the first free position after the one handed out last.
FreeIndex(p) ==
  /\ p \in Pos \ bitFlags
  /\ \A q \in Pos \ bitFlags : Skipped(p) <= Skipped(q)

\* A flow without a session gets one if the maps have room.
HasRoom == Cardinality(Used) < PoolSize

Create(f, p) ==
  /\ f \notin Used
  /\ HasRoom
  /\ FreeIndex(p)
  /\ freeBitPos' = p
  /\ bitFlags' = bitFlags \cup {p}
  /\ key' = [key EXCEPT ![p] = f]
  /\ poolIndex' = [poolIndex EXCEPT ![p] = p]
  /\ sessionMap' = [g \in Used \cup {f} |-> IF g = f THEN p ELSE sessionMap[g]]

\* Mutant: the bit is never given back.
EraseKeepsBit(p) ==
  /\ key' = [key EXCEPT ![poolIndex[p]] = NoFlow]
  /\ poolIndex' = [poolIndex EXCEPT ![poolIndex[p]] = poolIndex[p]]
  /\ sessionMap' = [g \in Used \ {key[p]} |-> sessionMap[g]]
  /\ UNCHANGED <<bitFlags, freeBitPos>>

\* The object at p resets itself, frees its bit and leaves the map.
Erase(p) ==
  /\ key' = [key EXCEPT ![poolIndex[p]] = NoFlow]
  /\ poolIndex' = [poolIndex EXCEPT ![poolIndex[p]] = poolIndex[p]]
  /\ bitFlags' = bitFlags \ {poolIndex[p]}
  /\ sessionMap' = [g \in Used \ {key[p]} |-> sessionMap[g]]
  /\ UNCHANGED freeBitPos

\* What a session manager does to its pool: it only ever erases a session
\* it has found in the map.
PoolNext ==
  \/ \E f \in Flow : \E p \in Pos : Create(f, p)
  \/ \E f \in Used : Erase(sessionMap[f])

PoolSpec == PoolInit /\ [][PoolNext]_poolVars

-----------------------------------------------------------------------------
PoolTypeOK ==
  /\ Used \subseteq Flow
  /\ sessionMap \in [Used -> Pos]
  /\ bitFlags \subseteq Pos
  /\ freeBitPos \in Pos
  /\ key \in [Pos -> Flow \cup {NoFlow}]
  /\ poolIndex \in [Pos -> Pos]

(* Map, bits and objects always agree: a mapped flow has an object of its  *)
(* own, marked used and carrying its key, so that erasing by what the      *)
(* object says of itself (tcpEraseSession) removes exactly that flow, and  *)
(* no bit stays set without a flow (no object leaks).                      *)
PoolConsistent ==
  /\ \A f \in Used :
       /\ sessionMap[f] \in bitFlags
       /\ key[sessionMap[f]] = f
  /\ \A p \in bitFlags : key[p] \in Used /\ sessionMap[key[p]] = p
  /\ \A p \in Pos : poolIndex[p] = p

(* tcpGetFreeIndex loops until it finds a clear bit.  It is only called    *)
(* when the MAPS hold fewer sessions than there are objects; that there is *)
(* then a clear bit to find is what keeps the thread from hanging.         *)
SearchEnds == HasRoom => bitFlags # Pos
=============================================================================
