-------------------------- MODULE SessionPoolProofs --------------------------
(***************************************************************************)
(* The session pool of any size, for any set of flows.                     *)
(***************************************************************************)
EXTENDS SessionPool, FiniteSetTheorems, FunctionTheorems, TLAPS

PoolInv == PoolTypeOK /\ PoolConsistent

LEMMA PoolInvInit == PoolInit => PoolInv
  BY SessionPoolAssumption
  DEF PoolInit, PoolInv, PoolTypeOK, PoolConsistent, Used, Pos

LEMMA CreateKeepsInv ==
  ASSUME PoolInv, NEW f \in Flow, NEW p \in Pos, Create(f, p)
  PROVE  PoolInv'
<1>1. /\ f \notin Used /\ p \in Pos \ bitFlags
      /\ freeBitPos' = p /\ bitFlags' = bitFlags \cup {p}
      /\ key' = [key EXCEPT ![p] = f]
      /\ poolIndex' = [poolIndex EXCEPT ![p] = p]
      /\ sessionMap' = [g \in Used \cup {f} |-> IF g = f THEN p ELSE sessionMap[g]]
      /\ Used' = Used \cup {f}
  BY DEF Create, FreeIndex, Used
<1>2. /\ sessionMap'[f] = p
      /\ \A g \in Used : sessionMap'[g] = sessionMap[g]
  BY <1>1
<1>3. PoolTypeOK'
  BY <1>1 DEF PoolInv, PoolTypeOK
<1>4. PoolConsistent'
  <2>1. \A g \in Used' : sessionMap'[g] \in bitFlags' /\ key'[sessionMap'[g]] = g
    BY <1>1, <1>2 DEF PoolInv, PoolTypeOK, PoolConsistent
  <2>2. \A q \in bitFlags' : key'[q] \in Used' /\ sessionMap'[key'[q]] = q
    BY <1>1, <1>2 DEF PoolInv, PoolTypeOK, PoolConsistent
  <2>3. \A q \in Pos : poolIndex'[q] = q
    BY <1>1 DEF PoolInv, PoolTypeOK, PoolConsistent
  <2> QED  BY <2>1, <2>2, <2>3 DEF PoolConsistent
<1> QED  BY <1>3, <1>4 DEF PoolInv

\* Erasing the session of f takes f, and nothing else, out of map and bits.
LEMMA EraseEffect ==
  ASSUME PoolInv, NEW f \in Used, Erase(sessionMap[f])
  PROVE  /\ Used' = Used \ {f}
         /\ sessionMap' = [g \in Used \ {f} |-> sessionMap[g]]
         /\ bitFlags' = bitFlags \ {sessionMap[f]}
         /\ key' = [key EXCEPT ![sessionMap[f]] = NoFlow]
         /\ poolIndex' = [poolIndex EXCEPT ![sessionMap[f]] = sessionMap[f]]
         /\ freeBitPos' = freeBitPos
<1>1. /\ sessionMap[f] \in Pos /\ key[sessionMap[f]] = f
      /\ poolIndex[sessionMap[f]] = sessionMap[f]
  BY DEF PoolInv, PoolTypeOK, PoolConsistent
<1> QED  BY <1>1 DEF Erase, Used

LEMMA EraseKeepsInv ==
  ASSUME PoolInv, NEW f \in Used, Erase(sessionMap[f])
  PROVE  PoolInv'
<1>1. /\ Used' = Used \ {f}
      /\ sessionMap' = [g \in Used \ {f} |-> sessionMap[g]]
      /\ bitFlags' = bitFlags \ {sessionMap[f]}
      /\ key' = [key EXCEPT ![sessionMap[f]] = NoFlow]
      /\ poolIndex' = [poolIndex EXCEPT ![sessionMap[f]] = sessionMap[f]]
      /\ freeBitPos' = freeBitPos
  BY EraseEffect
<1>2. PoolTypeOK'
  BY <1>1 DEF PoolInv, PoolTypeOK
<1>3. PoolConsistent'
  BY <1>1 DEF PoolInv, PoolTypeOK, PoolConsistent
<1> QED  BY <1>2, <1>3 DEF PoolInv

LEMMA PoolInvStep == PoolInv /\ [PoolNext]_poolVars => PoolInv'
<1> SUFFICES ASSUME PoolInv, [PoolNext]_poolVars PROVE PoolInv'
  OBVIOUS
<1>1. CASE PoolNext
  BY <1>1, CreateKeepsInv, EraseKeepsInv DEF PoolNext
<1>2. CASE UNCHANGED poolVars
  BY <1>2 DEF PoolInv, PoolTypeOK, PoolConsistent, Used, poolVars
<1> QED  BY <1>1, <1>2

\* In a consistent pool there are as many flows as bits set.
LEMMA AsManyFlowsAsBits ==
  ASSUME PoolInv
  PROVE  IsFiniteSet(Used) /\ Cardinality(Used) = Cardinality(bitFlags)
<1>1. IsFiniteSet(bitFlags)
  <2>1. IsFiniteSet(Pos)  BY SessionPoolAssumption, FS_Interval DEF Pos
  <2> QED  BY <2>1, FS_Subset DEF PoolInv, PoolTypeOK
<1>2. sessionMap \in Bijection(Used, bitFlags)
  <2>1. sessionMap \in [Used -> bitFlags]
    BY DEF PoolInv, PoolTypeOK, PoolConsistent
  <2>2. \A f, g \in Used : sessionMap[f] = sessionMap[g] => f = g
    BY DEF PoolInv, PoolConsistent
  <2>3. \A p \in bitFlags : \E f \in Used : sessionMap[f] = p
    BY DEF PoolInv, PoolConsistent
  <2> QED  BY <2>1, <2>2, <2>3 DEF Bijection, Injection, Surjection, IsInjective
<1>3. ExistsBijection(bitFlags, Used)
  BY <1>2, Fun_ExistsBijSymmetric DEF ExistsBijection
<1> QED  BY <1>1, <1>3, FS_Bijection

LEMMA InvMeansSearchEnds == PoolInv => SearchEnds
<1> SUFFICES ASSUME PoolInv, HasRoom, bitFlags = Pos PROVE FALSE
  BY DEF SearchEnds
<1>1. Cardinality(Used) = Cardinality(Pos)
  BY AsManyFlowsAsBits
<1>2. Cardinality(Pos) = PoolSize
  BY SessionPoolAssumption, FS_Interval DEF Pos
<1> QED  BY <1>1, <1>2, SessionPoolAssumption DEF HasRoom

(* The session pool is consistent whatever sequence of sessions comes and  *)
(* goes, and looking for a free object always ends                         *)
(* (TcpSMInterface.cpp, tcpGetFreeIndex and tcpEraseSession).              *)
THEOREM PoolAlwaysConsistent == PoolSpec => [](PoolConsistent /\ SearchEnds)
<1>1. PoolSpec => []PoolInv
  BY PoolInvInit, PoolInvStep, PTL DEF PoolSpec
<1>2. PoolInv => PoolConsistent /\ SearchEnds
  BY InvMeansSearchEnds DEF PoolInv
<1> QED  BY <1>1, <1>2, PTL
=============================================================================
