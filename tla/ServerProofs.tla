---------------------------- MODULE ServerProofs -----------------------------
(***************************************************************************)
(* The parts of the server other than rings and sessions.  Accounting      *)
(* keeps the two user maps in step, and what they say of where the users   *)
(* are is exact, or at least not wrong, for any number of users and        *)
(* addresses and any order of the records (UserMap).  Their lock excludes  *)
(* (MapLock).  The server stops along its pipeline (Lifecycle).  Times are *)
(* reported in order, and the seconds of a line add up to its payload      *)
(* (Reports).  And no half of a transaction is joined twice (HalfJoin).    *)
(***************************************************************************)
EXTENDS UserMap, MapLock, HalfJoin, Lifecycle, Reports, Functions, FiniteSetTheorems, TLAPS

(* A partial map is a function from some of the keys.                      *)
LEMMA PartialMapDef ==
  ASSUME NEW S, NEW T, NEW m
  PROVE  m \in PartialMap(S, T) <=> DOMAIN m \subseteq S /\ m \in [DOMAIN m -> T]
BY DEF PartialMap

(* What Drop returns.                                                      *)
LEMMA DropValues ==
  \A m, k :
    /\ DOMAIN Drop(m, k) = DOMAIN m \ {k}
    /\ \A x \in DOMAIN m \ {k} : Drop(m, k)[x] = m[x]
BY DEF Drop

(* Put and Drop make partial maps of partial maps.                         *)
LEMMA PutMap ==
  ASSUME NEW S, NEW T, NEW m \in PartialMap(S, T), NEW k \in S, NEW v \in T
  PROVE  Put(m, k, v) \in PartialMap(S, T)
<1>1. DOMAIN m \subseteq S /\ m \in [DOMAIN m -> T]
  BY PartialMapDef
<1>2. Put(m, k, v) \in [DOMAIN m \cup {k} -> T]
  BY <1>1 DEF Put
<1>3. DOMAIN Put(m, k, v) = DOMAIN m \cup {k}
  BY DEF Put
<1> QED
  BY <1>1, <1>2, <1>3, PartialMapDef

LEMMA DropMap ==
  ASSUME NEW S, NEW T, NEW m \in PartialMap(S, T), NEW k
  PROVE  Drop(m, k) \in PartialMap(S, T)
<1>1. DOMAIN m \subseteq S /\ m \in [DOMAIN m -> T]
  BY PartialMapDef
<1>2. Drop(m, k) \in [DOMAIN m \ {k} -> T]
  BY <1>1 DEF Drop
<1>3. DOMAIN Drop(m, k) = DOMAIN m \ {k}
  BY DEF Drop
<1> QED
  BY <1>1, <1>2, <1>3, PartialMapDef

(* A map is found to be a partial map at its keys and values.              *)
LEMMA MapValue ==
  ASSUME NEW S, NEW T, NEW m \in PartialMap(S, T), NEW k \in DOMAIN m
  PROVE  k \in S /\ m[k] \in T
BY PartialMapDef

LEMMA EmptyIsPartial == \A S, T : EmptyMap \in PartialMap(S, T)
<1> TAKE S, T
<1>1. DOMAIN EmptyMap = {} /\ EmptyMap \in [{} -> T]
  BY DEF EmptyMap
<1> QED
  BY <1>1, PartialMapDef

-----------------------------------------------------------------------------
(* What one record does to the two maps.                                   *)

(* START and UPDATE make nothing stale.                                    *)
LEMMA ClaimKeepsStep ==
  ASSUME ipMap \in PartialMap(Ip, Named), idMap \in PartialMap(Named, Ip),
         NEW u \in Named, NEW ip \in Ip, Claim(u, ip)
  PROVE  /\ ipMap' \in PartialMap(Ip, Named)
         /\ idMap' \in PartialMap(Named, Ip)
         /\ Stale' \subseteq Stale
<1>1. CASE u \in DOMAIN idMap /\ idMap[u] = ip
  BY <1>1 DEF Claim, Stale
<1>2. CASE u \in DOMAIN idMap /\ idMap[u] # ip
  <2>1. /\ ipMap' = Put(Drop(ipMap, idMap[u]), ip, u)
        /\ idMap' = Put(idMap, u, ip)
    BY <1>2 DEF Claim
  <2> DEFINE m == Drop(ipMap, idMap[u])
  <2>2. m \in PartialMap(Ip, Named)
    BY DropMap
  <2>2a. /\ DOMAIN m = DOMAIN ipMap \ {idMap[u]}
         /\ \A x \in DOMAIN ipMap \ {idMap[u]} : m[x] = ipMap[x]
    BY DropValues
  <2>3. ipMap' = Put(m, ip, u)
    BY <2>1
  <2> HIDE DEF m
  <2>4. ipMap' \in PartialMap(Ip, Named)
    BY <2>2, <2>3, PutMap
  <2>4a. /\ DOMAIN ipMap' = DOMAIN m \cup {ip}
         /\ ipMap'[ip] = u
         /\ \A x \in DOMAIN m : x # ip => ipMap'[x] = m[x]
    BY <2>3 DEF Put
  <2>5. idMap' \in PartialMap(Named, Ip)
    BY <2>1, PutMap
  <2>5a. /\ DOMAIN idMap' = DOMAIN idMap \cup {u}
         /\ idMap'[u] = ip
         /\ \A v \in DOMAIN idMap : v # u => idMap'[v] = idMap[v]
    BY <2>1 DEF Put
  <2>6. Stale' \subseteq Stale
    <3> SUFFICES ASSUME NEW x \in Stale' PROVE x \in Stale
      OBVIOUS
    <3>1. /\ x \in DOMAIN ipMap'
          /\ ipMap'[x] \in DOMAIN idMap' => idMap'[ipMap'[x]] # x
      BY DEF Stale
    <3>2. x # ip /\ x \in DOMAIN m
      BY <3>1, <2>4a, <2>5a
    <3>3. x \in DOMAIN ipMap /\ x # idMap[u] /\ ipMap'[x] = ipMap[x]
      BY <3>2, <2>2a, <2>4a
    <3>4. ipMap[x] \in DOMAIN idMap => idMap[ipMap[x]] # x
      BY <3>1, <3>3, <2>5a
    <3> QED
      BY <3>3, <3>4 DEF Stale
  <2> QED
    BY <2>4, <2>5, <2>6
<1>3. CASE u \notin DOMAIN idMap
  <2>1. /\ ipMap' = Put(ipMap, ip, u)
        /\ idMap' = Put(idMap, u, ip)
    BY <1>3 DEF Claim
  <2>2. /\ DOMAIN ipMap' = DOMAIN ipMap \cup {ip}
        /\ ipMap'[ip] = u
        /\ \A x \in DOMAIN ipMap : x # ip => ipMap'[x] = ipMap[x]
    BY <2>1 DEF Put
  <2>3. /\ DOMAIN idMap' = DOMAIN idMap \cup {u}
        /\ idMap'[u] = ip
        /\ \A v \in DOMAIN idMap : v # u => idMap'[v] = idMap[v]
    BY <2>1 DEF Put
  <2>3a. ipMap' \in PartialMap(Ip, Named)
    BY <2>1, PutMap
  <2>3b. idMap' \in PartialMap(Named, Ip)
    BY <2>1, PutMap
  <2>4. Stale' \subseteq Stale
    <3> SUFFICES ASSUME NEW x \in Stale' PROVE x \in Stale
      OBVIOUS
    <3>1. /\ x \in DOMAIN ipMap'
          /\ ipMap'[x] \in DOMAIN idMap' => idMap'[ipMap'[x]] # x
      BY DEF Stale
    <3>2. x # ip /\ x \in DOMAIN ipMap /\ ipMap'[x] = ipMap[x]
      BY <3>1, <2>2, <2>3
    <3>3. ipMap[x] \in DOMAIN idMap => idMap[ipMap[x]] # x
      BY <3>1, <3>2, <2>3, <1>3
    <3> QED
      BY <3>2, <3>3 DEF Stale
  <2> QED
    BY <2>3a, <2>3b, <2>4
<1> QED
  BY <1>1, <1>2, <1>3

(* STOP makes nothing stale.                                               *)
LEMMA StopKeepsStep ==
  ASSUME ipMap \in PartialMap(Ip, Named), idMap \in PartialMap(Named, Ip),
         NEW u \in Named, Stop(u)
  PROVE  /\ ipMap' \in PartialMap(Ip, Named)
         /\ idMap' \in PartialMap(Named, Ip)
         /\ Stale' \subseteq Stale
<1>1. CASE u \notin DOMAIN idMap
  BY <1>1 DEF Stop, Stale
<1>2. CASE u \in DOMAIN idMap
  <2>1. ipMap' = Drop(ipMap, idMap[u]) /\ idMap' = Drop(idMap, u)
    BY <1>2 DEF Stop
  <2>2. /\ DOMAIN ipMap' = DOMAIN ipMap \ {idMap[u]}
        /\ \A x \in DOMAIN ipMap \ {idMap[u]} : ipMap'[x] = ipMap[x]
    BY <2>1, DropValues
  <2>3. /\ DOMAIN idMap' = DOMAIN idMap \ {u}
        /\ \A v \in DOMAIN idMap \ {u} : idMap'[v] = idMap[v]
    BY <2>1, DropValues
  <2>3a. ipMap' \in PartialMap(Ip, Named)
    BY <2>1, DropMap
  <2>3b. idMap' \in PartialMap(Named, Ip)
    BY <2>1, DropMap
  <2>4. Stale' \subseteq Stale
    <3> SUFFICES ASSUME NEW x \in Stale' PROVE x \in Stale
      OBVIOUS
    <3>1. /\ x \in DOMAIN ipMap'
          /\ ipMap'[x] \in DOMAIN idMap' => idMap'[ipMap'[x]] # x
      BY DEF Stale
    <3>2. x \in DOMAIN ipMap /\ x # idMap[u] /\ ipMap'[x] = ipMap[x]
      BY <3>1, <2>2
    <3>3. ipMap[x] \in DOMAIN idMap => idMap[ipMap[x]] # x
      BY <3>1, <3>2, <2>3
    <3> QED
      BY <3>2, <3>3 DEF Stale
  <2> QED
    BY <2>3a, <2>3b, <2>4
<1> QED
  BY <1>1, <1>2

(* Neither does any record.                                                *)
LEMMA AccountKeepsStep ==
  ASSUME TypeOK, NEW r \in Record, Account(r)
  PROVE  /\ ipMap' \in PartialMap(Ip, Named)
         /\ idMap' \in PartialMap(Named, Ip)
         /\ Stale' \subseteq Stale
<1>1. CASE r.user \in Unnamed
  BY <1>1 DEF Account, maps, TypeOK, Stale
<1>2. CASE r.user \notin Unnamed
  <2>1. r.user \in Named /\ r.ip \in Ip
    BY <1>2 DEF Record, Named
  <2>2. /\ ipMap \in PartialMap(Ip, Named)
        /\ idMap \in PartialMap(Named, Ip)
    BY DEF TypeOK
  <2>4. Stop(r.user) \/ Claim(r.user, r.ip)
    BY <1>2, <2>1 DEF Account
  <2> QED
    BY <2>1, <2>2, <2>4, ClaimKeepsStep, StopKeepsStep
<1> QED
  BY <1>1, <1>2

(* Accounting moves its user and no one else in idMap.                     *)
LEMMA AccountMoves ==
  ASSUME NEW r \in Record, Account(r)
  PROVE  /\ r.user \in Unnamed => UNCHANGED <<ipMap, idMap>>
         /\ r.user \notin Unnamed /\ r.type = "STOP" =>
              DOMAIN idMap' = DOMAIN idMap \ {r.user}
         /\ r.user \notin Unnamed /\ r.type # "STOP" =>
              DOMAIN idMap' = DOMAIN idMap \cup {r.user} /\ idMap'[r.user] = r.ip
         /\ \A v \in DOMAIN idMap :
              v # r.user => v \in DOMAIN idMap' /\ idMap'[v] = idMap[v]
<1>1. CASE r.user \in Unnamed
  BY <1>1 DEF Account, maps
<1>2. CASE r.user \notin Unnamed /\ r.type = "STOP"
  <2>1. Stop(r.user)
    BY <1>2 DEF Account
  <2>2. CASE r.user \in DOMAIN idMap
    BY <1>2, <2>1, <2>2, DropValues DEF Stop
  <2>3. CASE r.user \notin DOMAIN idMap
    BY <1>2, <2>1, <2>3 DEF Stop
  <2> QED
    BY <2>2, <2>3
<1>3. CASE r.user \notin Unnamed /\ r.type # "STOP"
  <2>1. Claim(r.user, r.ip)
    BY <1>3 DEF Account
  <2>2. CASE r.user \in DOMAIN idMap /\ idMap[r.user] = r.ip
    BY <1>3, <2>1, <2>2 DEF Claim
  <2>3. CASE ~ (r.user \in DOMAIN idMap /\ idMap[r.user] = r.ip)
    <3>1. idMap' = Put(idMap, r.user, r.ip)
      BY <2>1, <2>3 DEF Claim
    <3> QED
      BY <1>3, <3>1 DEF Put
  <2> QED
    BY <2>2, <2>3
<1> QED
  BY <1>1, <1>2, <1>3 DEF Record

(* What is told stays a map.                                               *)
LEMMA ToldMap ==
  ASSUME NEW m \in PartialMap(Ip, Named), NEW r \in Record
  PROVE  Told(m, r) \in PartialMap(Ip, Named)
<1>1. r.ip \in Ip /\ (r.user \notin Unnamed => r.user \in Named)
  BY DEF Record, Named
<1> QED
  BY <1>1, PutMap, DropMap DEF Told

LEMMA NamedOnlineMap ==
  ASSUME online \in PartialMap(Ip, User)
  PROVE  /\ NamedOnline \in PartialMap(Ip, Named)
         /\ DOMAIN NamedOnline = {i \in DOMAIN online : online[i] \in Named}
         /\ \A i \in DOMAIN NamedOnline : NamedOnline[i] = online[i]
<1>1. /\ DOMAIN NamedOnline = {i \in DOMAIN online : online[i] \in Named}
      /\ \A i \in DOMAIN NamedOnline : NamedOnline[i] = online[i]
  BY DEF NamedOnline
<1>2. DOMAIN online \subseteq Ip
  BY PartialMapDef
<1>3. NamedOnline \in [{i \in DOMAIN online : online[i] \in Named} -> Named]
  BY DEF NamedOnline
<1> QED
  BY <1>1, <1>2, <1>3, PartialMapDef

-----------------------------------------------------------------------------
(* Type correctness.                                                       *)

LEMMA InitType == Init => TypeOK
<1> SUFFICES ASSUME Init PROVE TypeOK
  OBVIOUS
<1>1. /\ ipMap \in PartialMap(Ip, Named)
      /\ idMap \in PartialMap(Named, Ip)
      /\ told \in PartialMap(Ip, Named)
  BY EmptyIsPartial, NamedOnlineMap DEF Init
<1>2. main \in {"start", "loop", "reload"} /\ inFlight \in Seq(Record)
  BY DEF Init
<1>3. INSTANCE_ID \in Nat
  BY UserMapAssumption DEF Init
<1> QED
  BY <1>1, <1>2, <1>3 DEF Init, TypeOK

(* Sending a record.                                                       *)
LEMMA SendType ==
  ASSUME inFlight \in Seq(Record), NEW r \in Record, Send(r)
  PROVE  inFlight' \in Seq(Record)
BY DEF Send

(* Taking a record out.                                                    *)
LEMMA RemoveType ==
  ASSUME NEW s \in Seq(Record), NEW i \in DOMAIN s
  PROVE  RemoveAt(s, i) \in Seq(Record)
<1>1. i \in 1 .. Len(s)
  OBVIOUS
<1>2. SubSeq(s, 1, i - 1) \in Seq(Record)
  BY <1>1
<1>3. SubSeq(s, i + 1, Len(s)) \in Seq(Record)
  BY <1>1
<1> QED
  BY <1>2, <1>3 DEF RemoveAt

(* A user whom a record has placed is in idMap, and stays there until a    *)
(* record of his own takes him out; only a record of his own places him.   *)
LEMMA ApplyPlaces ==
  ASSUME TypeOK, NEW i \in DOMAIN inFlight, Apply(i)
  PROVE  /\ placed' \subseteq DOMAIN idMap'
         /\ placed' \subseteq placed \cup {inFlight[i].user}
<1>1. PICK r \in Record : r = inFlight[i]
  BY DEF TypeOK
<1>2. Account(r)
  BY <1>1 DEF Apply
<1>3. placed' = IF idMap' = idMap THEN placed
                ELSE IF r.user \in DOMAIN idMap' THEN placed \cup {r.user}
                ELSE placed \ {r.user}
  BY <1>1, Zenon DEF Apply
<1>4. \A v \in DOMAIN idMap : v # r.user => v \in DOMAIN idMap'
  BY <1>2, AccountMoves
<1>5. placed \subseteq DOMAIN idMap
  BY DEF TypeOK
<1> QED
  BY <1>1, <1>3, <1>4, <1>5

(* Every step keeps the types.                                             *)
LEMMA NextType == TypeOK /\ [Next]_vars => TypeOK'
<1> SUFFICES ASSUME TypeOK, [Next]_vars PROVE TypeOK'
  OBVIOUS
<1>0. INSTANCE_ID' \in Nat /\ INSTANCE_ID' = INSTANCE_ID
  BY DEF Next, vars, TypeOK
<1>1. ASSUME NEW u \in User, NEW ip \in Ip, Assign(u, ip) PROVE  TypeOK'
  <2> DEFINE r == [type |-> "START", user |-> u, ip |-> ip]
  <2>1. r \in Record
    BY DEF Record
  <2>2. Send(r) /\ inFlight \in Seq(Record)
    BY <1>1 DEF Assign, TypeOK
  <2> HIDE DEF r
  <2>3. inFlight' \in Seq(Record)
    BY <2>1, <2>2, SendType
  <2>4. online' \in PartialMap(Ip, User)
    BY <1>1, PutMap DEF Assign, TypeOK
  <2> QED
    BY <1>0, <1>1, <2>3, <2>4 DEF Assign, TypeOK, maps, history
<1>2. ASSUME NEW ip \in Ip, Interim(ip) PROVE  TypeOK'
  <2> DEFINE r == [type |-> "UPDATE", user |-> online[ip], ip |-> ip]
  <2>1. online[ip] \in User
    BY <1>2, MapValue DEF Interim, TypeOK
  <2>2. r \in Record
    BY <2>1 DEF Record
  <2>3. Send(r) /\ inFlight \in Seq(Record)
    BY <1>2 DEF Interim, TypeOK
  <2> HIDE DEF r
  <2>4. inFlight' \in Seq(Record)
    BY <2>2, <2>3, SendType
  <2> QED
    BY <1>0, <1>2, <2>4 DEF Interim, TypeOK, maps, history
<1>3. ASSUME NEW ip \in Ip, Release(ip) PROVE TypeOK'
  <2> DEFINE r == [type |-> "STOP", user |-> online[ip], ip |-> ip]
  <2>1. online[ip] \in User
    BY <1>3, MapValue DEF Release, TypeOK
  <2>2. r \in Record
    BY <2>1 DEF Record
  <2>3. \/ Send(r) /\ UNCHANGED lost
        \/ lost' = lost \cup {online[ip]} /\ UNCHANGED inFlight
    BY <1>3 DEF Release
  <2> HIDE DEF r
  <2>4. inFlight' \in Seq(Record) /\ lost' \subseteq User
    BY <2>1, <2>2, <2>3, SendType DEF TypeOK
  <2>5. online' \in PartialMap(Ip, User)
    BY <1>3, DropMap DEF Release, TypeOK
  <2> QED
    BY <1>0, <1>3, <2>4, <2>5 DEF Release, TypeOK, maps, history
<1>4. ASSUME NEW i \in DOMAIN inFlight, Apply(i) PROVE TypeOK'
  <2>1. inFlight[i] \in Record /\ Account(inFlight[i])
    BY <1>4 DEF Apply, TypeOK
  <2>2. /\ ipMap' \in PartialMap(Ip, Named)
        /\ idMap' \in PartialMap(Named, Ip)
    BY <2>1, AccountKeepsStep
  <2>3. inFlight' \in Seq(Record)
    BY <1>4, RemoveType DEF Apply, TypeOK
  <2>4. told' \in PartialMap(Ip, Named)
    BY <1>4, <2>1, ToldMap DEF Apply, TypeOK
  <2>5. placed' \subseteq DOMAIN idMap'
    BY <1>4, ApplyPlaces
  <2> QED
    BY <1>0, <1>4, <2>2, <2>3, <2>4, <2>5 DEF Apply, TypeOK
<1>5. CASE Dump
  BY <1>0, <1>5 DEF Dump, TypeOK, maps, network, history
<1>6. CASE ForeignDump
  BY <1>0, <1>6 DEF ForeignDump, TypeOK, maps, network, history
<1>7. CASE Clear
  BY <1>0, <1>7, EmptyIsPartial DEF Clear, TypeOK, network
<1>8. CASE Load
  <2>1. /\ DOMAIN ipMap \subseteq Ip /\ ipMap \in [DOMAIN ipMap -> Named]
        /\ DOMAIN file \subseteq Ip /\ file \in [DOMAIN file -> Named]
        /\ DOMAIN idMap \subseteq Named /\ idMap \in [DOMAIN idMap -> Ip]
    BY PartialMapDef DEF TypeOK
  <2>2. /\ DOMAIN ipMap' = DOMAIN ipMap \cup DOMAIN file
        /\ ipMap' \in [DOMAIN ipMap \cup DOMAIN file -> Named]
    BY <1>8, <2>1 DEF Load
  <2> DEFINE inFile == {file[i] : i \in DOMAIN file}
  <2>3. inFile \subseteq Named
    BY <2>1
  <2>4. PICK last \in [inFile -> Ip] :
          idMap' = [u \in DOMAIN idMap \cup inFile |->
                      IF u \in inFile THEN last[u] ELSE idMap[u]]
    BY <1>8 DEF Load
  <2> HIDE DEF inFile
  <2>5. /\ DOMAIN idMap' = DOMAIN idMap \cup inFile
        /\ idMap' \in [DOMAIN idMap \cup inFile -> Ip]
    BY <2>1, <2>4
  <2>6. DOMAIN idMap' \subseteq Named /\ DOMAIN ipMap' \subseteq Ip
    BY <2>1, <2>2, <2>3, <2>5
  <2>7. ipMap' \in PartialMap(Ip, Named) /\ idMap' \in PartialMap(Named, Ip)
    BY <2>2, <2>5, <2>6, PartialMapDef
  <2> QED
    BY <1>0, <1>8, <2>7 DEF Load, TypeOK, network
<1>9. CASE UNCHANGED vars
  BY <1>0, <1>9 DEF vars, maps, network, history, TypeOK
<1> QED
  BY <1>1, <1>2, <1>3, <1>4, <1>5, <1>6, <1>7, <1>8, <1>9
     DEF Next, Network, MainThread

(* The maps always are maps between named users and addresses.             *)
THEOREM UserMapTypeCorrect == Spec => []TypeOK
BY InitType, NextType, PTL DEF Spec

-----------------------------------------------------------------------------
(* What a load leaves in the maps.                                         *)
LEMMA LoadIs ==
  ASSUME TypeOK, Load
  PROVE  /\ DOMAIN ipMap' = DOMAIN ipMap \cup DOMAIN file
         /\ \A i \in DOMAIN file : ipMap'[i] = file[i]
         /\ \A i \in DOMAIN ipMap \ DOMAIN file : ipMap'[i] = ipMap[i]
         /\ \A i \in DOMAIN file :
              /\ file[i] \in DOMAIN idMap'
              /\ idMap'[file[i]] \in DOMAIN file
              /\ file[idMap'[file[i]]] = file[i]
         /\ \A u \in DOMAIN idMap' :
              (\A i \in DOMAIN file : file[i] # u) =>
                u \in DOMAIN idMap /\ idMap'[u] = idMap[u]
<1>1. /\ DOMAIN ipMap' = DOMAIN ipMap \cup DOMAIN file
      /\ \A i \in DOMAIN ipMap' :
           ipMap'[i] = IF i \in DOMAIN file THEN file[i] ELSE ipMap[i]
  BY DEF Load
<1> DEFINE inFile == {file[i] : i \in DOMAIN file}
<1>2. PICK last \in [inFile -> Ip] :
        /\ \A u \in inFile : LoadedAs(u, last[u])
        /\ idMap' = [u \in DOMAIN idMap \cup inFile |->
                       IF u \in inFile THEN last[u] ELSE idMap[u]]
  BY DEF Load
<1>3. \A i \in DOMAIN file : file[i] \in inFile
  OBVIOUS
<1>4. \A u \in inFile : \E i \in DOMAIN file : file[i] = u
  OBVIOUS
<1> HIDE DEF inFile
<1>5. /\ DOMAIN idMap' = DOMAIN idMap \cup inFile
      /\ \A u \in DOMAIN idMap' :
           idMap'[u] = IF u \in inFile THEN last[u] ELSE idMap[u]
  BY <1>2
<1>6. \A u \in inFile : idMap'[u] \in DOMAIN file /\ file[idMap'[u]] = u
  BY <1>2, <1>5 DEF LoadedAs
<1>7. \A i \in DOMAIN file :
        /\ file[i] \in DOMAIN idMap'
        /\ idMap'[file[i]] \in DOMAIN file
        /\ file[idMap'[file[i]]] = file[i]
  BY <1>3, <1>5, <1>6
<1>8. \A u \in DOMAIN idMap' :
        (\A i \in DOMAIN file : file[i] # u) =>
          u \in DOMAIN idMap /\ idMap'[u] = idMap[u]
  BY <1>4, <1>5
<1> QED
  BY <1>1, <1>7, <1>8

\* What OnlyLoadsMakeStale says of a step.
StaleByLoad ==
  \A ip \in Stale' \ Stale :
    loads' # loads /\ \E i \in DOMAIN file \ {ip} : file[i] = ipMap'[ip]

(* Accounting makes nothing stale, clearing a map neither, and a load only *)
(* what the file itself contradicts.                                       *)
LEMMA StaleStep ==
  ASSUME TypeOK, [Next]_vars
  PROVE  StaleByLoad
<1>0. Stale' \subseteq Stale => StaleByLoad
  BY DEF StaleByLoad
<1>1. CASE UNCHANGED <<ipMap, idMap>>
  BY <1>0, <1>1 DEF Stale
<1>2. ASSUME NEW i \in DOMAIN inFlight, Apply(i) PROVE StaleByLoad
  <2>1. inFlight[i] \in Record /\ Account(inFlight[i])
    BY <1>2 DEF Apply, TypeOK
  <2> QED
    BY <1>0, <2>1, AccountKeepsStep
<1>3. CASE Clear
  BY <1>0, <1>3 DEF Clear, EmptyMap, Stale
<1>4. CASE Load
  <2>1. loads' # loads
    BY <1>4 DEF Load, TypeOK
  <2>2. ASSUME NEW ip \in Stale' \ Stale
        PROVE  \E i \in DOMAIN file \ {ip} : file[i] = ipMap'[ip]
    <3>1. PICK u : u = ipMap'[ip]
      OBVIOUS
    <3>2. ip \in DOMAIN ipMap' /\ (u \in DOMAIN idMap' => idMap'[u] # ip)
      BY <2>2, <3>1 DEF Stale
    <3>3. ip \in DOMAIN ipMap \ DOMAIN file =>
            ipMap[ip] = u /\ u \in DOMAIN idMap /\ idMap[u] = ip
      BY <1>4, <2>2, <3>1, LoadIs DEF Stale
    <3>4. CASE \A i \in DOMAIN file : file[i] # u
      <4>1. ip \in DOMAIN ipMap \ DOMAIN file
        BY <1>4, <3>1, <3>2, <3>4, LoadIs
      <4>2. u \in DOMAIN idMap'
        <5>1. DOMAIN idMap \subseteq DOMAIN idMap'
          BY <1>4 DEF Load
        <5> QED
          BY <3>3, <4>1, <5>1
      <4> QED
        BY <1>4, <3>2, <3>3, <3>4, <4>1, <4>2, LoadIs
    <3>5. CASE \E i \in DOMAIN file : file[i] = u
      <4>1. /\ u \in DOMAIN idMap' /\ idMap'[u] \in DOMAIN file
            /\ file[idMap'[u]] = u
        BY <1>4, <3>5, LoadIs
      <4> QED
        BY <3>1, <3>2, <4>1
    <3> QED
      BY <3>4, <3>5
  <2> QED
    BY <2>1, <2>2 DEF StaleByLoad
<1>5. CASE Network
  BY <1>1, <1>5 DEF Network, Assign, Interim, Release, maps
<1>6. CASE Dump \/ ForeignDump
  BY <1>1, <1>6 DEF Dump, ForeignDump, maps
<1>7. CASE UNCHANGED vars
  BY <1>1, <1>7 DEF vars, maps
<1> QED
  BY <1>2, <1>3, <1>4, <1>5, <1>6, <1>7 DEF Next, MainThread

(* Only a load of the file makes an address stale, whatever the order and  *)
(* the loss of accounting records (updateGlbTable), and it does so only    *)
(* for a user whom the file gives another address (loadAAAData).           *)
THEOREM AccountingKeepsMapsInStep == Spec => OnlyLoadsMakeStale
<1>1. TypeOK /\ [Next]_vars => [StaleByLoad]_vars
  BY StaleStep
<1>2. TypeOK /\ [Next]_vars =>
        [\A ip \in Stale' \ Stale :
           loads' # loads /\ \E i \in DOMAIN file \ {ip} : file[i] = ipMap'[ip]]_vars
  BY <1>1 DEF StaleByLoad
<1> QED
  BY UserMapTypeCorrect, <1>2, PTL DEF Spec, OnlyLoadsMakeStale

\* Where the elements of two sequences in a row are.
LEMMA ConcatAt ==
  ASSUME NEW T, NEW a \in Seq(T), NEW b \in Seq(T), NEW k \in 1 .. (Len(a) + Len(b))
  PROVE  (a \o b)[k] = IF k <= Len(a) THEN a[k] ELSE b[k - Len(a)]
OBVIOUS

(* A record taken out of the line: those behind it move up.                *)
LEMMA RemoveAtIs ==
  ASSUME NEW s \in Seq(Record), NEW i \in DOMAIN s
  PROVE  /\ Len(RemoveAt(s, i)) = Len(s) - 1
         /\ \A k \in 1 .. (Len(s) - 1) :
              RemoveAt(s, i)[k] = IF k < i THEN s[k] ELSE s[k + 1]
<1>1. i \in 1 .. Len(s) /\ Len(s) \in Nat
  OBVIOUS
<1> DEFINE a == SubSeq(s, 1, i - 1)
           b == SubSeq(s, i + 1, Len(s))
<1>2. /\ a \in Seq(Record) /\ Len(a) = i - 1
      /\ \A k \in 1 .. (i - 1) : a[k] = s[k]
  BY <1>1
<1>3. /\ b \in Seq(Record) /\ Len(b) = Len(s) - i
      /\ \A k \in 1 .. (Len(s) - i) : b[k] = s[i + k]
  BY <1>1
<1>4. RemoveAt(s, i) = a \o b
  BY DEF RemoveAt
<1> HIDE DEF a, b
<1>5. Len(a \o b) = Len(s) - 1
  BY <1>1, <1>2, <1>3
<1>6. ASSUME NEW k \in 1 .. (Len(s) - 1)
      PROVE  (a \o b)[k] = IF k < i THEN s[k] ELSE s[k + 1]
  <2>0. (a \o b)[k] = IF k <= Len(a) THEN a[k] ELSE b[k - Len(a)]
    <3>1. a \in Seq(Record) /\ b \in Seq(Record)
      BY <1>2, <1>3
    <3>2. k \in 1 .. (Len(a) + Len(b))
      <4>1. Len(a) = i - 1 /\ Len(b) = Len(s) - i
        BY <1>2, <1>3
      <4> QED
        BY <1>1, <4>1
    <3> QED
      BY <3>1, <3>2, ConcatAt
  <2>1. CASE k < i
    <3>1. k \in 1 .. (i - 1)
      BY <1>1, <2>1
    <3>2. (a \o b)[k] = a[k]
      <4>1. Len(a) = i - 1
        BY <1>2
      <4> QED
        BY <1>1, <2>0, <3>1, <4>1
    <3> QED
      BY <1>2, <2>1, <3>1, <3>2
  <2>2. CASE ~ (k < i)
    <3> DEFINE j == k - (i - 1)
    <3>1. j \in 1 .. (Len(s) - i) /\ i + j = k + 1
      BY <1>1, <2>2
    <3>2. (a \o b)[k] = b[j]
      <4>1. Len(a) = i - 1
        BY <1>2
      <4>2. ~ (k <= Len(a))
        BY <1>1, <2>2, <4>1
      <4> QED
        BY <2>0, <4>1, <4>2
    <3>3. b[j] = s[i + j]
      <4> HIDE DEF j
      <4> QED
        BY <1>3, <3>1
    <3> QED
      BY <2>2, <3>1, <3>2, <3>3
  <2> QED
    BY <2>1, <2>2
<1> QED
  BY <1>4, <1>5, <1>6

-----------------------------------------------------------------------------
(* What the maps know when records come all and in order.  The invariant   *)
(* tells the story behind the maps: the assignments as they will be when   *)
(* each of the records on their way has arrived.                           *)

InMap(m, u) == \E i \in DOMAIN m : m[i] = u

\* A record that tells of a change of the assignments m.
Fits(m, r) ==
  r.user \in Named =>
    IF r.type = "START"
    THEN r.ip \notin DOMAIN m /\ ~ InMap(m, r.user)
    ELSE r.ip \in DOMAIN m /\ m[r.ip] = r.user

\* S[k] are the assignments after k records.
Story(S) ==
  /\ S \in [0 .. Len(inFlight) -> PartialMap(Ip, Named)]
  /\ S[0] = told
  /\ S[Len(inFlight)] = NamedOnline
  /\ \A k \in 1 .. Len(inFlight) :
       Fits(S[k - 1], inFlight[k]) /\ S[k] = Told(S[k - 1], inFlight[k])

StoryTold == inOrder /\ lost = {} => \E S : Story(S)

\* The maps know nothing but the assignments m, and all of them when the
\* main thread is neither before its first load nor between clear and load.
Know(m) ==
  /\ \A i, j \in DOMAIN m : m[i] = m[j] => i = j
  /\ \A u \in DOMAIN idMap : idMap[u] \in DOMAIN m /\ m[idMap[u]] = u
  /\ \A i \in DOMAIN ipMap : ipMap[i] \in DOMAIN idMap /\ idMap[ipMap[i]] = i
  /\ main = "loop" => DOMAIN m \subseteq DOMAIN ipMap

MapsFollow == inOrder /\ lost = {} /\ current => Know(told)

(* The maps follow what they are told.                                     *)
LEMMA AccountFollows ==
  ASSUME NEW r \in Record, Account(r), main' = main,
         NEW m, Know(m), Fits(m, r)
  PROVE  Know(Told(m, r))'
<1> DEFINE u == r.user
           ip == r.ip
<1>0. /\ \A i, j \in DOMAIN m : m[i] = m[j] => i = j
      /\ \A v \in DOMAIN idMap : idMap[v] \in DOMAIN m /\ m[idMap[v]] = v
      /\ \A i \in DOMAIN ipMap : ipMap[i] \in DOMAIN idMap /\ idMap[ipMap[i]] = i
      /\ main = "loop" => DOMAIN m \subseteq DOMAIN ipMap
  BY DEF Know
<1>0a. r.type \in {"START", "UPDATE", "STOP"} /\ (u \notin Unnamed => u \in Named)
  BY DEF Record, Named
<1>1. CASE UNCHANGED <<ipMap, idMap>> /\ Told(m, r) = m
  BY <1>0, <1>1 DEF Know
<1>2. CASE u \notin Unnamed /\ r.type = "UPDATE"
  <2>1. ip \in DOMAIN m /\ m[ip] = u /\ Told(m, r) = m
    BY <1>0a, <1>2 DEF Fits, Told
  <2>2. CASE u \in DOMAIN idMap
    <3>1. idMap[u] = ip
      BY <1>0, <2>1, <2>2
    <3>2. UNCHANGED <<ipMap, idMap>>
      BY <1>2, <2>2, <3>1 DEF Account, Claim
    <3> QED
      BY <1>1, <2>1, <3>2
  <2>3. CASE u \notin DOMAIN idMap
    <3>1. ipMap' = Put(ipMap, ip, u) /\ idMap' = Put(idMap, u, ip)
      BY <1>2, <2>3 DEF Account, Claim
    <3>2. /\ DOMAIN ipMap' = DOMAIN ipMap \cup {ip} /\ ipMap'[ip] = u
          /\ \A i \in DOMAIN ipMap : i # ip => ipMap'[i] = ipMap[i]
          /\ DOMAIN idMap' = DOMAIN idMap \cup {u} /\ idMap'[u] = ip
          /\ \A v \in DOMAIN idMap : v # u => idMap'[v] = idMap[v]
      BY <3>1 DEF Put
    <3>3. Know(m)'
      BY <1>0, <2>1, <2>3, <3>2 DEF Know
    <3> QED
      BY <2>1, <3>3 DEF Know
  <2> QED
    BY <2>2, <2>3
<1>3. CASE u \notin Unnamed /\ r.type = "STOP"
  <2>1. ip \in DOMAIN m /\ m[ip] = u /\ Told(m, r) = Drop(m, ip)
    BY <1>0a, <1>3 DEF Fits, Told
  <2> DEFINE n == Told(m, r)
  <2>2. DOMAIN n = DOMAIN m \ {ip} /\ \A i \in DOMAIN n : n[i] = m[i]
    <3>1. n = Drop(m, ip)
      BY <2>1
    <3> QED
      BY <3>1 DEF Drop
  <2> HIDE DEF n
  <2>3. CASE u \in DOMAIN idMap
    <3>1. idMap[u] = ip
      BY <1>0, <2>1, <2>3
    <3>2. ipMap' = Drop(ipMap, ip) /\ idMap' = Drop(idMap, u)
      BY <1>3, <2>3, <3>1 DEF Account, Stop
    <3>3. /\ DOMAIN ipMap' = DOMAIN ipMap \ {ip}
          /\ \A i \in DOMAIN ipMap' : ipMap'[i] = ipMap[i]
          /\ DOMAIN idMap' = DOMAIN idMap \ {u}
          /\ \A v \in DOMAIN idMap' : idMap'[v] = idMap[v]
      BY <3>2 DEF Drop
    <3>4. Know(n)'
      BY <1>0, <2>1, <2>2, <3>1, <3>3 DEF Know
    <3> QED
      BY <3>4 DEF n
  <2>4. CASE u \notin DOMAIN idMap
    <3>1. UNCHANGED <<ipMap, idMap>>
      BY <1>3, <2>4 DEF Account, Stop
    <3>2. Know(n)'
      BY <1>0, <2>1, <2>2, <2>4, <3>1 DEF Know
    <3> QED
      BY <3>2 DEF n
  <2> QED
    BY <2>3, <2>4
<1>4. CASE u \notin Unnamed /\ r.type = "START"
  <2>1. ip \notin DOMAIN m /\ ~ InMap(m, u) /\ Told(m, r) = Put(m, ip, u)
    BY <1>0a, <1>4 DEF Fits, Told
  <2> DEFINE n == Told(m, r)
  <2>2. /\ DOMAIN n = DOMAIN m \cup {ip} /\ n[ip] = u
        /\ \A i \in DOMAIN m : n[i] = m[i]
    BY <2>1 DEF Put
  <2> HIDE DEF n
  <2>3. u \notin DOMAIN idMap /\ \A i \in DOMAIN m : m[i] # u
    BY <1>0, <2>1 DEF InMap
  <2>4. ipMap' = Put(ipMap, ip, u) /\ idMap' = Put(idMap, u, ip)
    BY <1>4, <2>3 DEF Account, Claim
  <2>5. /\ DOMAIN ipMap' = DOMAIN ipMap \cup {ip} /\ ipMap'[ip] = u
        /\ \A i \in DOMAIN ipMap : i # ip => ipMap'[i] = ipMap[i]
        /\ DOMAIN idMap' = DOMAIN idMap \cup {u} /\ idMap'[u] = ip
        /\ \A v \in DOMAIN idMap : v # u => idMap'[v] = idMap[v]
    BY <2>4 DEF Put
  <2>6. ip \notin DOMAIN ipMap
    BY <1>0, <2>1
  <2>7. Know(n)'
    BY <1>0, <2>1, <2>2, <2>3, <2>5, <2>6 DEF Know
  <2> QED
    BY <2>7 DEF n
<1>5. CASE u \in Unnamed
  BY <1>1, <1>5 DEF Account, maps, Told
<1> QED
  BY <1>0a, <1>2, <1>3, <1>4, <1>5

-----------------------------------------------------------------------------
(* The story goes on: with a record that is sent, and one that arrives.    *)

LEMMA StorySends ==
  ASSUME TypeOK, NEW S, Story(S),
         NEW r \in Record, inFlight' = Append(inFlight, r),
         Fits(NamedOnline, r), NamedOnline' = Told(NamedOnline, r), told' = told
  PROVE  \E T : Story(T)'
<1>1. PICK n : n = Len(inFlight) /\ n \in Nat
  BY DEF TypeOK
<1>2. PICK T : T = [k \in 0 .. (n + 1) |-> IF k = n + 1 THEN Told(S[n], r) ELSE S[k]]
  OBVIOUS
<1>3. /\ Len(inFlight') = n + 1 /\ inFlight'[n + 1] = r
      /\ \A k \in 1 .. n : inFlight'[k] = inFlight[k]
  BY <1>1 DEF TypeOK
<1>4. /\ S \in [0 .. n -> PartialMap(Ip, Named)]
      /\ S[n] = NamedOnline /\ S[0] = told
      /\ \A k \in 1 .. n :
           /\ Fits(S[k - 1], inFlight[k])
           /\ S[k] = Told(S[k - 1], inFlight[k])
  BY <1>1 DEF Story
<1>5. Told(S[n], r) \in PartialMap(Ip, Named)
  BY <1>1, <1>4, ToldMap
<1>6. /\ T \in [0 .. (n + 1) -> PartialMap(Ip, Named)]
      /\ T[n + 1] = Told(S[n], r)
      /\ \A k \in 0 .. n : T[k] = S[k]
  BY <1>1, <1>2, <1>4, <1>5
<1>7. T[n + 1] = NamedOnline'
  BY <1>4, <1>6
<1>8. ASSUME NEW k \in 1 .. (n + 1)
      PROVE  /\ Fits(T[k - 1], inFlight'[k])
             /\ T[k] = Told(T[k - 1], inFlight'[k])
  <2>1. CASE k = n + 1
    <3>1. T[k - 1] = S[n] /\ inFlight'[k] = r
      BY <1>1, <1>3, <1>6, <2>1
    <3> QED
      BY <1>4, <1>6, <2>1, <3>1
  <2>2. CASE k # n + 1
    <3>1. k \in 1 .. n /\ k - 1 \in 0 .. n /\ k \in 0 .. n
      BY <1>1, <2>2
    <3>2. T[k - 1] = S[k - 1] /\ T[k] = S[k] /\ inFlight'[k] = inFlight[k]
      BY <1>3, <1>6, <3>1
    <3> QED
      BY <1>4, <3>1, <3>2
  <2> QED
    BY <2>1, <2>2
<1>9. T[0] = told'
  BY <1>1, <1>4, <1>6
<1> QED
  BY <1>3, <1>6, <1>7, <1>8, <1>9 DEF Story

LEMMA StoryApplies ==
  ASSUME TypeOK, NEW S, Story(S), 1 \in DOMAIN inFlight,
         told' = Told(told, inFlight[1]),
         inFlight' = RemoveAt(inFlight, 1), UNCHANGED online
  PROVE  (\E T : Story(T)') /\ Fits(told, inFlight[1])
<1>1. PICK n : n = Len(inFlight) /\ n \in Nat
  BY DEF TypeOK
<1>2. n >= 1
  BY <1>1 DEF TypeOK
<1>3. PICK T : T = [k \in 0 .. (n - 1) |-> S[k + 1]]
  OBVIOUS
<1>4. /\ S \in [0 .. n -> PartialMap(Ip, Named)]
      /\ S[n] = NamedOnline /\ S[0] = told
      /\ \A k \in 1 .. n :
           /\ Fits(S[k - 1], inFlight[k])
           /\ S[k] = Told(S[k - 1], inFlight[k])
  BY <1>1 DEF Story
<1>5. /\ Len(inFlight') = n - 1
      /\ \A k \in 1 .. (n - 1) : inFlight'[k] = inFlight[k + 1]
  <2>1. inFlight \in Seq(Record)
    BY DEF TypeOK
  <2> QED
    BY <1>1, <1>2, <2>1, RemoveAtIs
<1>6. /\ T \in [0 .. (n - 1) -> PartialMap(Ip, Named)]
      /\ \A k \in 0 .. (n - 1) : T[k] = S[k + 1]
  BY <1>1, <1>2, <1>3, <1>4
<1>7. T[n - 1] = NamedOnline'
  <2>1. T[n - 1] = S[n]
    BY <1>1, <1>2, <1>6
  <2> QED
    BY <1>4, <2>1 DEF NamedOnline
<1>8. ASSUME NEW k \in 1 .. (n - 1)
      PROVE  /\ Fits(T[k - 1], inFlight'[k])
             /\ T[k] = Told(T[k - 1], inFlight'[k])
  <2>1. k + 1 \in 1 .. n /\ (k + 1) - 1 = k
    BY <1>1
  <2>2. T[k - 1] = S[k] /\ T[k] = S[k + 1] /\ inFlight'[k] = inFlight[k + 1]
    <3>1. k - 1 \in 0 .. (n - 1) /\ (k - 1) + 1 = k /\ k \in 0 .. (n - 1)
      BY <1>1
    <3> QED
      BY <1>5, <1>6, <3>1
  <2>3. /\ Fits(S[(k + 1) - 1], inFlight[k + 1])
        /\ S[k + 1] = Told(S[(k + 1) - 1], inFlight[k + 1])
    BY <1>4, <2>1
  <2> QED
    BY <2>1, <2>2, <2>3
<1>9. T[0] = told' /\ Fits(told, inFlight[1])
  <2>1. 1 \in 1 .. n /\ 1 - 1 = 0 /\ 0 \in 0 .. (n - 1) /\ 0 + 1 = 1
    BY <1>1, <1>2
  <2>2. /\ Fits(S[1 - 1], inFlight[1])
        /\ S[1] = Told(S[1 - 1], inFlight[1])
    BY <1>4, <2>1
  <2>3. T[0] = S[1]
    BY <1>6, <2>1
  <2> QED
    BY <1>4, <2>1, <2>2, <2>3
<1>10. \E U : Story(U)'
  BY <1>5, <1>6, <1>7, <1>8, <1>9 DEF Story
<1> QED
  BY <1>9, <1>10

-----------------------------------------------------------------------------
(* What the network tells is true of the assignments.                      *)

OnlineOnce ==
  \A i, j \in DOMAIN online : online[i] = online[j] => i = j

\* A record r that is sent and true, and what it changes of online.
Tells(r) ==
  /\ inFlight' = Append(inFlight, r)
  /\ Fits(NamedOnline, r) /\ NamedOnline' = Told(NamedOnline, r)
  /\ \A i \in DOMAIN online : r.user = online[i] <=> r.ip = i
  /\ \A v \in Named \ {r.user} : \A i :
       (i \in DOMAIN online /\ online[i] = v)
         <=> (i \in DOMAIN online' /\ online'[i] = v)
  /\ IF r.type = "STOP" THEN ~ InMap(online', r.user)
     ELSE r.ip \in DOMAIN online' /\ online'[r.ip] = r.user

\* A STOP that is lost.
Loses ==
  /\ UNCHANGED inFlight
  /\ lost \subseteq lost' /\ lost' # {}
  /\ \A v \in User \ lost' : \A i :
       (i \in DOMAIN online /\ online[i] = v)
         <=> (i \in DOMAIN online' /\ online'[i] = v)

LEMMA AssignTells ==
  ASSUME TypeOK, NEW u \in User, NEW ip \in Ip, Assign(u, ip)
  PROVE  \E r \in Record : Tells(r)
<1>1. PICK r : r = [type |-> "START", user |-> u, ip |-> ip]
  OBVIOUS
<1>2. r \in Record /\ r.user = u /\ r.ip = ip /\ r.type = "START"
  BY <1>1 DEF Record
<1>3. inFlight' = Append(inFlight, r)
  BY <1>1 DEF Assign, Send
<1>4. /\ DOMAIN NamedOnline = {i \in DOMAIN online : online[i] \in Named}
      /\ \A i \in DOMAIN NamedOnline : NamedOnline[i] = online[i]
  BY NamedOnlineMap DEF TypeOK
<1>5. /\ DOMAIN online' = DOMAIN online \cup {ip} /\ online'[ip] = u
      /\ \A i \in DOMAIN online : i # ip => online'[i] = online[i]
  BY DEF Assign, Put
<1>6. ip \notin DOMAIN online /\ \A i \in DOMAIN online : online[i] # u
  BY DEF Assign
<1>7. Fits(NamedOnline, r)
  BY <1>2, <1>4, <1>6 DEF Fits, InMap
<1>8. NamedOnline' = Told(NamedOnline, r)
  <2>1. CASE u \in Unnamed
    <3>1. {i \in DOMAIN online' : online'[i] \in Named}
            = {i \in DOMAIN online : online[i] \in Named}
      BY <1>5, <1>6, <2>1 DEF Named
    <3>2. NamedOnline' = NamedOnline
      BY <1>5, <1>6, <3>1 DEF NamedOnline
    <3> QED
      BY <1>2, <2>1, <3>2 DEF Told
  <2>2. CASE u \notin Unnamed
    <3>1. {i \in DOMAIN online' : online'[i] \in Named} = DOMAIN NamedOnline \cup {ip}
      BY <1>4, <1>5, <1>6, <2>2 DEF Named
    <3>2. NamedOnline' = [x \in DOMAIN NamedOnline \cup {ip} |-> online'[x]]
      BY <3>1 DEF NamedOnline
    <3>3. \A x \in DOMAIN NamedOnline \cup {ip} :
            online'[x] = IF x = ip THEN u ELSE NamedOnline[x]
      BY <1>4, <1>5, <1>6
    <3>4. NamedOnline' = Put(NamedOnline, ip, u)
      BY <3>2, <3>3 DEF Put
    <3> QED
      BY <1>2, <2>2, <3>4 DEF Told
  <2> QED
    BY <2>1, <2>2
<1>9. \A i \in DOMAIN online : r.user = online[i] <=> r.ip = i
  BY <1>2, <1>6
<1>10. \A v \in Named \ {r.user} : \A i :
         (i \in DOMAIN online /\ online[i] = v)
           <=> (i \in DOMAIN online' /\ online'[i] = v)
  BY <1>2, <1>5, <1>6
<1> QED
  BY <1>2, <1>3, <1>5, <1>7, <1>8, <1>9, <1>10 DEF Tells

LEMMA InterimTells ==
  ASSUME TypeOK, OnlineOnce, NEW ip \in Ip, Interim(ip)
  PROVE  \E r \in Record : Tells(r)
<1>1. PICK r : r = [type |-> "UPDATE", user |-> online[ip], ip |-> ip]
  OBVIOUS
<1>2. /\ r \in Record /\ r.user = online[ip] /\ r.ip = ip
      /\ r.type = "UPDATE"
  BY <1>1, MapValue DEF Record, Interim, TypeOK
<1>3. inFlight' = Append(inFlight, r)
  BY <1>1 DEF Interim, Send
<1>4. /\ DOMAIN NamedOnline = {i \in DOMAIN online : online[i] \in Named}
      /\ \A i \in DOMAIN NamedOnline : NamedOnline[i] = online[i]
  BY NamedOnlineMap DEF TypeOK
<1>5. ip \in DOMAIN online /\ online' = online
  BY DEF Interim
<1>6. Fits(NamedOnline, r) /\ NamedOnline' = Told(NamedOnline, r)
  BY <1>2, <1>4, <1>5 DEF Fits, Told, NamedOnline
<1>7. \A i \in DOMAIN online : r.user = online[i] <=> r.ip = i
  BY <1>2, <1>5 DEF OnlineOnce
<1> QED
  BY <1>2, <1>3, <1>5, <1>6, <1>7 DEF Tells

LEMMA ReleaseTells ==
  ASSUME TypeOK, OnlineOnce, NEW ip \in Ip, Release(ip)
  PROVE  ((\E r \in Record : Tells(r)) /\ lost' = lost) \/ Loses
<1>1. PICK u : u = online[ip]
  OBVIOUS
<1>2. PICK r : r = [type |-> "STOP", user |-> u, ip |-> ip]
  OBVIOUS
<1>3. /\ r \in Record /\ r.user = u /\ r.ip = ip
      /\ r.type = "STOP"
  BY <1>1, <1>2, MapValue DEF Record, Release, TypeOK
<1>4. CASE inFlight' = Append(inFlight, r) /\ lost' = lost
  <2>1. /\ DOMAIN NamedOnline = {i \in DOMAIN online : online[i] \in Named}
        /\ \A i \in DOMAIN NamedOnline : NamedOnline[i] = online[i]
    BY NamedOnlineMap DEF TypeOK
  <2>2. /\ DOMAIN online' = DOMAIN online \ {ip}
        /\ \A i \in DOMAIN online' : online'[i] = online[i]
    BY DEF Release, Drop
  <2>3. ip \in DOMAIN online /\ \A i \in DOMAIN online : online[i] = u => i = ip
    BY <1>1 DEF Release, OnlineOnce
  <2>4. Fits(NamedOnline, r)
    BY <1>1, <1>3, <2>1, <2>3 DEF Fits
  <2>5. {i \in DOMAIN online' : online'[i] \in Named} = DOMAIN NamedOnline \ {ip}
    BY <2>1, <2>2
  <2>6. NamedOnline' = [x \in DOMAIN NamedOnline \ {ip} |-> online'[x]]
    BY <2>5 DEF NamedOnline
  <2>7. \A x \in DOMAIN NamedOnline \ {ip} : online'[x] = NamedOnline[x]
    BY <2>1, <2>2
  <2>8. NamedOnline' = Told(NamedOnline, r)
    <3>1. CASE u \in Unnamed
      <4>1. ip \notin DOMAIN NamedOnline
        BY <1>1, <2>1, <3>1 DEF Named
      <4>2. NamedOnline' = NamedOnline
        BY <2>1, <2>2, <2>5, <4>1 DEF NamedOnline
      <4> QED
        BY <1>3, <3>1, <4>2 DEF Told
    <3>2. CASE u \notin Unnamed
      <4>1. NamedOnline' = Drop(NamedOnline, ip)
        BY <2>6, <2>7 DEF Drop
      <4> QED
        BY <1>3, <3>2, <4>1 DEF Told
    <3> QED
      BY <3>1, <3>2
  <2>9. \A i \in DOMAIN online : r.user = online[i] <=> r.ip = i
    BY <1>1, <1>3, <2>3
  <2>10. \A v \in Named \ {r.user} : \A i :
           (i \in DOMAIN online /\ online[i] = v)
             <=> (i \in DOMAIN online' /\ online'[i] = v)
    BY <1>1, <1>3, <2>2
  <2>11. ~ InMap(online', r.user)
    BY <1>3, <2>2, <2>3 DEF InMap
  <2> QED
    BY <1>3, <1>4, <2>4, <2>8, <2>9, <2>10, <2>11 DEF Tells
<1>5. CASE lost' = lost \cup {u} /\ UNCHANGED inFlight
  <2>1. /\ DOMAIN online' = DOMAIN online \ {ip}
        /\ \A i \in DOMAIN online' : online'[i] = online[i]
    BY DEF Release, Drop
  <2> QED
    BY <1>1, <1>5, <2>1 DEF Loses
<1> QED
  BY <1>1, <1>2, <1>4, <1>5 DEF Release, Send

(* The network tells the truth or loses a STOP, and touches no map.        *)
LEMMA NetworkIs ==
  ASSUME TypeOK, OnlineOnce, Network
  PROVE  /\ UNCHANGED <<ipMap, idMap, file, main, loads, inOrder, told, current, placed>>
         /\ ((\E r \in Record : Tells(r)) /\ lost' = lost) \/ Loses
<1>1. ASSUME NEW u \in User, NEW ip \in Ip, Assign(u, ip)
      PROVE  (\E r \in Record : Tells(r)) /\ lost' = lost
  <2>1. lost' = lost
    BY <1>1 DEF Assign
  <2> QED
    BY <1>1, <2>1, AssignTells
<1>2. ASSUME NEW ip \in Ip, Interim(ip)
      PROVE  (\E r \in Record : Tells(r)) /\ lost' = lost
  <2>1. lost' = lost
    BY <1>2 DEF Interim
  <2> QED
    BY <1>2, <2>1, InterimTells
<1>3. ASSUME NEW ip \in Ip, Release(ip)
      PROVE  ((\E r \in Record : Tells(r)) /\ lost' = lost) \/ Loses
  BY <1>3, ReleaseTells
<1>4. UNCHANGED <<ipMap, idMap, file, main, loads, inOrder, told, current, placed>>
  BY DEF Network, Assign, Interim, Release, maps, history
<1> QED
  BY <1>1, <1>2, <1>3, <1>4, Zenon DEF Network

LEMMA OnlineStep ==
  ASSUME OnlineOnce, [Next]_vars
  PROVE  OnlineOnce'
<1>1. CASE UNCHANGED online
  BY <1>1 DEF OnlineOnce
<1>2. ASSUME NEW u \in User, NEW ip \in Ip, Assign(u, ip) PROVE OnlineOnce'
  BY <1>2 DEF OnlineOnce, Assign, Put
<1>3. ASSUME NEW ip \in Ip, Release(ip) PROVE OnlineOnce'
  BY <1>3 DEF OnlineOnce, Release, Drop
<1>4. ASSUME NEW ip \in Ip, Interim(ip) PROVE OnlineOnce'
  BY <1>1, <1>4 DEF Interim
<1>5. ASSUME NEW i \in DOMAIN inFlight, Apply(i) PROVE OnlineOnce'
  BY <1>1, <1>5 DEF Apply
<1>6. CASE MainThread
  BY <1>1, <1>6 DEF MainThread, Dump, ForeignDump, Load, Clear, network
<1>7. CASE UNCHANGED vars
  BY <1>1, <1>7 DEF vars, network
<1> QED
  BY <1>2, <1>3, <1>4, <1>5, <1>6, <1>7 DEF Next, Network

(* What the main thread leaves alone.                                      *)
LEMMA MainThreadIs ==
  ASSUME TypeOK, MainThread \/ UNCHANGED vars
  PROVE  /\ UNCHANGED <<online, inFlight, lost, inOrder, told>>
         /\ current' => current
         /\ placed' = {} \/ UNCHANGED <<idMap, placed>>
<1>1. CASE Dump \/ ForeignDump
  BY <1>1 DEF Dump, ForeignDump, maps, network, history
<1>2. CASE Clear
  BY <1>2 DEF Clear, network
<1>3. CASE Load
  <2>1. current' = (current /\ file = told)
    BY <1>3, Zenon DEF Load
  <2>2. placed' = {} /\ UNCHANGED <<network, inOrder, told>>
    BY <1>3 DEF Load
  <2> QED
    BY <2>1, <2>2 DEF network
<1>4. CASE UNCHANGED vars
  BY <1>4 DEF vars, maps, network, history
<1> QED
  BY <1>1, <1>2, <1>3, <1>4 DEF MainThread

-----------------------------------------------------------------------------
(* Every step carries the story on.                                        *)
LEMMA StoryStep ==
  ASSUME TypeOK, OnlineOnce, StoryTold, [Next]_vars
  PROVE  StoryTold'
<1> SUFFICES ASSUME inOrder', lost' = {} PROVE \E T : Story(T)'
  BY DEF StoryTold
<1>1. CASE Network
  <2>1. PICK r \in Record : Tells(r)
    BY <1>1, NetworkIs DEF Loses
  <2>2. inOrder /\ lost = {} /\ told' = told
    BY <1>1, NetworkIs DEF Loses
  <2>3. PICK S : Story(S)
    BY <2>2 DEF StoryTold
  <2>4. /\ inFlight' = Append(inFlight, r)
        /\ Fits(NamedOnline, r) /\ NamedOnline' = Told(NamedOnline, r)
    BY <2>1 DEF Tells
  <2> QED
    BY <2>2, <2>3, <2>4, StorySends
<1>2. ASSUME NEW i \in DOMAIN inFlight, Apply(i) PROVE \E T : Story(T)'
  <2>1. inOrder' = (inOrder /\ i = 1) /\ lost' = lost
    BY <1>2 DEF Apply
  <2>2. i = 1 /\ inOrder /\ lost = {}
    BY <2>1
  <2>3. PICK S : Story(S)
    BY <2>2 DEF StoryTold
  <2>4. /\ 1 \in DOMAIN inFlight /\ told' = Told(told, inFlight[1])
        /\ inFlight' = RemoveAt(inFlight, 1) /\ UNCHANGED online
    BY <1>2, <2>2 DEF Apply
  <2> QED
    BY <2>3, <2>4, StoryApplies
<1>3. CASE MainThread \/ UNCHANGED vars
  <2>1. UNCHANGED <<online, inFlight, lost, inOrder, told>>
    BY <1>3, MainThreadIs
  <2>2. PICK S : Story(S)
    BY <2>1 DEF StoryTold
  <2>3. Story(S)'
    BY <2>1, <2>2 DEF Story, NamedOnline
  <2> QED
    BY <2>3
<1> QED
  BY <1>1, <1>2, <1>3 DEF Next

(* The maps follow the story: every record, and every load of a file that  *)
(* says what the records said.                                             *)
LEMMA LoadFollows ==
  ASSUME TypeOK, Load, NEW m, Know(m), file = m
  PROVE  Know(m)'
<1>0. /\ \A i, j \in DOMAIN m : m[i] = m[j] => i = j
      /\ \A u \in DOMAIN idMap : idMap[u] \in DOMAIN m /\ m[idMap[u]] = u
      /\ \A i \in DOMAIN ipMap : ipMap[i] \in DOMAIN idMap /\ idMap[ipMap[i]] = i
  BY DEF Know
<1>1. /\ DOMAIN ipMap' = DOMAIN ipMap \cup DOMAIN m
      /\ \A i \in DOMAIN m : ipMap'[i] = m[i]
      /\ \A i \in DOMAIN ipMap \ DOMAIN m : ipMap'[i] = ipMap[i]
      /\ \A i \in DOMAIN m :
           /\ m[i] \in DOMAIN idMap'
           /\ idMap'[m[i]] \in DOMAIN m
           /\ m[idMap'[m[i]]] = m[i]
      /\ \A u \in DOMAIN idMap' :
           (\A i \in DOMAIN m : m[i] # u) => u \in DOMAIN idMap /\ idMap'[u] = idMap[u]
  BY LoadIs
<1>2. ASSUME NEW u \in DOMAIN idMap'
      PROVE  idMap'[u] \in DOMAIN m /\ m[idMap'[u]] = u
  BY <1>0, <1>1
<1>3. ASSUME NEW i \in DOMAIN ipMap'
      PROVE  ipMap'[i] \in DOMAIN idMap' /\ idMap'[ipMap'[i]] = i
  <2>1. i \in DOMAIN m
    BY <1>0, <1>1
  <2> QED
    BY <1>0, <1>1, <2>1
<1> QED
  BY <1>0, <1>1, <1>2, <1>3 DEF Know

LEMMA MapsFollowStep ==
  ASSUME TypeOK, OnlineOnce, StoryTold, MapsFollow, [Next]_vars
  PROVE  MapsFollow'
<1> SUFFICES ASSUME inOrder', lost' = {}, current' PROVE Know(told)'
  BY DEF MapsFollow
<1>0. ASSUME inOrder, lost = {}, current, UNCHANGED <<ipMap, idMap, main, told>>
      PROVE  Know(told)'
  BY <1>0 DEF MapsFollow, Know
<1>1. CASE Network
  <2>1. UNCHANGED <<ipMap, idMap, main, told, inOrder, current>> /\ lost = {}
    BY <1>1, NetworkIs DEF Loses
  <2> QED
    BY <1>0, <2>1
<1>2. ASSUME NEW i \in DOMAIN inFlight, Apply(i) PROVE Know(told)'
  <2>1. inOrder' = (inOrder /\ i = 1) /\ UNCHANGED <<lost, current, main, online>>
    BY <1>2 DEF Apply
  <2>2. i = 1 /\ inOrder /\ lost = {} /\ current
    BY <2>1
  <2>3. PICK S : Story(S)
    BY <2>2 DEF StoryTold
  <2>4. PICK r \in Record : r = inFlight[1]
    BY <1>2, <2>2 DEF TypeOK
  <2>5. /\ 1 \in DOMAIN inFlight /\ told' = Told(told, r)
        /\ inFlight' = RemoveAt(inFlight, 1) /\ Account(r)
    BY <1>2, <2>2, <2>4 DEF Apply
  <2>6. PICK m : m = told
    OBVIOUS
  <2>7. Fits(m, r)
    BY <2>1, <2>3, <2>4, <2>5, <2>6, StoryApplies
  <2>8. Know(m)
    BY <2>2, <2>6 DEF MapsFollow
  <2>9. Know(Told(m, r))'
    BY <2>1, <2>5, <2>7, <2>8, AccountFollows
  <2>10. PICK n : n = Told(m, r)
    OBVIOUS
  <2>11. Know(n)' /\ told' = n
    BY <2>5, <2>6, <2>9, <2>10
  <2> QED
    BY <2>11 DEF Know
<1>3. CASE Load
  <2>1. current' = (current /\ file = told)
    BY <1>3, Zenon DEF Load
  <2>2. current /\ file = told /\ UNCHANGED <<lost, inOrder, told>>
    BY <1>3, <2>1 DEF Load, network
  <2>3. PICK m : m = told
    OBVIOUS
  <2>4. Know(m)
    BY <2>2, <2>3 DEF MapsFollow
  <2>5. Know(m)'
    BY <1>3, <2>2, <2>3, <2>4, LoadFollows
  <2> QED
    BY <2>2, <2>3, <2>5 DEF Know
<1>4. CASE Clear
  <2>1. /\ ipMap' = EmptyMap /\ main' = "reload"
        /\ UNCHANGED <<idMap, lost, inOrder, told, current>>
    BY <1>4 DEF Clear, network
  <2>2. Know(told)
    BY <2>1 DEF MapsFollow
  <2> QED
    BY <2>1, <2>2 DEF Know, EmptyMap
<1>5. CASE Dump \/ ForeignDump \/ UNCHANGED vars
  <2>1. UNCHANGED <<ipMap, idMap, main, told, inOrder, current, lost>>
    BY <1>5 DEF Dump, ForeignDump, vars, maps, network, history
  <2> QED
    BY <1>0, <2>1
<1> QED
  BY <1>1, <1>2, <1>3, <1>4, <1>5 DEF Next, MainThread

-----------------------------------------------------------------------------
(* The last record of a user whose STOPs arrive tells the truth, or idMap  *)
(* does, if a record has placed him there.                                 *)

LastOf(u, k) ==
  /\ inFlight[k].user = u
  /\ \A j \in DOMAIN inFlight : inFlight[j].user = u => j <= k

AtHome(u, ip) == ip \in DOMAIN online /\ online[ip] = u

TellsTruth(u, k) ==
  IF inFlight[k].type = "STOP" THEN ~ InMap(online, u)
  ELSE AtHome(u, inFlight[k].ip)

Awaited(u) == \E k \in DOMAIN inFlight : inFlight[k].user = u

LastTells ==
  \A u \in Named \ lost :
    /\ \A k \in DOMAIN inFlight : LastOf(u, k) => TellsTruth(u, k)
    /\ u \in placed /\ ~ Awaited(u) => AtHome(u, idMap[u])

LEMMA SendTells ==
  ASSUME TypeOK, LastTells, NEW r \in Record, Tells(r),
         UNCHANGED <<idMap, lost, placed>>
  PROVE  LastTells'
<1> SUFFICES ASSUME NEW u \in Named \ lost
             PROVE
      /\ \A k \in DOMAIN inFlight' : LastOf(u, k)' => TellsTruth(u, k)'
      /\ u \in placed /\ ~ Awaited(u)' => AtHome(u, idMap[u])'
  BY DEF LastTells
<1>1. PICK n : n = Len(inFlight) /\ n \in Nat
  BY DEF TypeOK
<1>2. /\ DOMAIN inFlight = 1 .. n /\ DOMAIN inFlight' = 1 .. (n + 1)
      /\ inFlight'[n + 1] = r
      /\ \A k \in 1 .. n : inFlight'[k] = inFlight[k]
  BY <1>1 DEF TypeOK, Tells
<1>3. CASE u = r.user
  <2>1. n + 1 \in DOMAIN inFlight' /\ inFlight'[n + 1].user = u
    BY <1>1, <1>2, <1>3
  <2>2. ASSUME NEW k \in DOMAIN inFlight', LastOf(u, k)' PROVE inFlight'[k] = r
    <3>1. n + 1 <= k
      BY <2>1, <2>2 DEF LastOf
    <3>2. k = n + 1
      BY <1>1, <1>2, <2>2, <3>1
    <3> QED
      BY <1>2, <3>2
  <2>3. IF r.type = "STOP" THEN ~ InMap(online, u)' ELSE AtHome(u, r.ip)'
    BY <1>3 DEF Tells, InMap, AtHome
  <2>4. ASSUME NEW k \in DOMAIN inFlight', LastOf(u, k)' PROVE TellsTruth(u, k)'
    <3>1. inFlight'[k] = r
      BY <2>2, <2>4
    <3> QED
      BY <2>3, <3>1 DEF TellsTruth, AtHome, InMap
  <2>5. Awaited(u)'
    BY <2>1 DEF Awaited
  <2> QED
    BY <2>4, <2>5
<1>4. CASE u # r.user
  <2>1. \A i : AtHome(u, i) <=> AtHome(u, i)'
    BY <1>4 DEF Tells, AtHome
  <2>2. ASSUME NEW k \in DOMAIN inFlight', LastOf(u, k)'
        PROVE  k \in DOMAIN inFlight /\ inFlight'[k] = inFlight[k] /\ LastOf(u, k)
    <3>1. k \in 1 .. n
      BY <1>1, <1>2, <1>4, <2>2 DEF LastOf
    <3>2. \A j \in 1 .. n : inFlight[j].user = u => j <= k
      <4> SUFFICES ASSUME NEW j \in 1 .. n, inFlight[j].user = u PROVE j <= k
        OBVIOUS
      <4>1. j \in DOMAIN inFlight' /\ inFlight'[j].user = u
        BY <1>1, <1>2
      <4> QED
        BY <2>2, <4>1 DEF LastOf
    <3> QED
      BY <1>2, <2>2, <3>1, <3>2 DEF LastOf
  <2>3. Awaited(u) => Awaited(u)'
    BY <1>1, <1>2 DEF Awaited
  <2>4. InMap(online, u)' <=> InMap(online, u)
    BY <2>1 DEF InMap, AtHome
  <2>5. ASSUME NEW k \in DOMAIN inFlight', LastOf(u, k)' PROVE TellsTruth(u, k)'
    <3>1. k \in DOMAIN inFlight /\ inFlight'[k] = inFlight[k] /\ LastOf(u, k)
      BY <2>2, <2>5
    <3>2. TellsTruth(u, k)
      BY <3>1 DEF LastTells
    <3> QED
      BY <2>1, <2>4, <3>1, <3>2 DEF TellsTruth
  <2>6. u \in placed /\ ~ Awaited(u)' => AtHome(u, idMap[u])
    BY <2>3 DEF LastTells
  <2>7. AtHome(u, idMap[u]) => AtHome(u, idMap[u])'
    <3>1. PICK i : i = idMap[u]
      OBVIOUS
    <3> QED
      BY <2>1, <3>1 DEF AtHome
  <2> QED
    BY <2>5, <2>6, <2>7
<1> QED
  BY <1>3, <1>4

(* The records behind one that is taken out move up.                       *)
LEMMA TakenOut ==
  ASSUME TypeOK, NEW i \in DOMAIN inFlight, Apply(i), NEW n \in Nat, n = Len(inFlight)
  PROVE  /\ DOMAIN inFlight = 1 .. n /\ i \in 1 .. n
         /\ DOMAIN inFlight' = 1 .. (n - 1) /\ Len(inFlight') = n - 1
         /\ \A k \in 1 .. (n - 1) :
              inFlight'[k] = IF k < i THEN inFlight[k] ELSE inFlight[k + 1]
<1>1. inFlight \in Seq(Record) /\ inFlight' = RemoveAt(inFlight, i)
  BY DEF TypeOK, Apply
<1>2. inFlight' \in Seq(Record)
  BY <1>1, RemoveType
<1>3. /\ Len(inFlight') = Len(inFlight) - 1
      /\ \A k \in 1 .. (Len(inFlight) - 1) :
           inFlight'[k] = IF k < i THEN inFlight[k] ELSE inFlight[k + 1]
  BY <1>1, RemoveAtIs
<1>4. PICK s : s = inFlight
  OBVIOUS
<1>5. PICK t : t = inFlight'
  OBVIOUS
<1>6. DOMAIN s = 1 .. Len(s) /\ DOMAIN t = 1 .. Len(t)
  BY <1>1, <1>2, <1>4, <1>5
<1>7. Len(s) = n /\ Len(t) = n - 1 /\ i \in 1 .. n
  BY <1>3, <1>4, <1>5, <1>6
<1>8. DOMAIN inFlight = 1 .. n /\ DOMAIN inFlight' = 1 .. (n - 1) /\ Len(inFlight') = n - 1
  BY <1>4, <1>5, <1>6, <1>7, Zenon
<1> QED
  BY <1>3, <1>7, <1>8, Zenon

LEMMA ApplyTells ==
  ASSUME TypeOK, LastTells, NEW i \in DOMAIN inFlight, Apply(i)
  PROVE  LastTells'
<1>0. UNCHANGED <<online, lost>>
  BY DEF Apply
<1> SUFFICES ASSUME NEW u \in Named \ lost
             PROVE
      /\ \A k \in DOMAIN inFlight' : LastOf(u, k)' => TellsTruth(u, k)'
      /\ u \in placed' /\ ~ Awaited(u)' => AtHome(u, idMap[u])'
  BY <1>0 DEF LastTells
<1>1. PICK n \in Nat : n = Len(inFlight)
  BY DEF TypeOK
<1>2. PICK r \in Record : r = inFlight[i]
  BY DEF TypeOK
<1>3. /\ \A j \in 1 .. (i - 1) : inFlight[j].user # r.user
      /\ Account(r)
  BY <1>2 DEF Apply
<1>4. /\ DOMAIN inFlight = 1 .. n /\ i \in 1 .. n
      /\ DOMAIN inFlight' = 1 .. (n - 1)
      /\ \A k \in 1 .. (n - 1) :
           inFlight'[k] = IF k < i THEN inFlight[k] ELSE inFlight[k + 1]
  BY <1>1, TakenOut
<1>6. ASSUME NEW j \in 1 .. n, j # i
      PROVE  LET k == IF j < i THEN j ELSE j - 1
             IN  k \in 1 .. (n - 1) /\ inFlight'[k] = inFlight[j]
  <2>1. CASE j < i
    BY <1>4, <2>1
  <2>2. CASE ~ (j < i)
    <3>1. j - 1 \in 1 .. (n - 1) /\ ~ (j - 1 < i) /\ (j - 1) + 1 = j
      BY <1>4, <1>6, <2>2
    <3> QED
      BY <1>4, <2>2, <3>1
  <2> QED
    BY <2>1, <2>2
<1>9. ASSUME NEW k \in DOMAIN inFlight', LastOf(u, k)' PROVE TellsTruth(u, k)'
  <2>1. PICK l \in 1 .. n : l = (IF k < i THEN k ELSE k + 1) /\ inFlight'[k] = inFlight[l]
    BY <1>4
  <2>2. inFlight[l].user = u
    BY <1>9, <2>1 DEF LastOf
  <2>3. ASSUME NEW j \in 1 .. n, inFlight[j].user = u PROVE j <= l
    <3>1. CASE j = i
      <4>1. k \in Int /\ i \in Int
        BY <1>4
      <4>2. r.user = u
        BY <1>2, <2>3, <3>1
      <4>3. ~ (k < i)
        <5> SUFFICES ASSUME k < i PROVE FALSE
          OBVIOUS
        <5>1. l = k /\ k \in 1 .. (i - 1)
          BY <1>4, <2>1
        <5> QED
          BY <1>3, <2>2, <4>2, <5>1
      <4> QED
        BY <2>1, <3>1, <4>1, <4>3
    <3>2. CASE j # i
      <4>1. PICK h \in 1 .. (n - 1) :
              h = (IF j < i THEN j ELSE j - 1) /\ inFlight'[h] = inFlight[j]
        BY <1>6, <3>2
      <4>2. h <= k
        BY <1>4, <1>9, <2>3, <4>1 DEF LastOf
      <4> QED
        BY <1>4, <2>1, <3>2, <4>1, <4>2
    <3> QED
      BY <3>1, <3>2
  <2>4. LastOf(u, l) /\ l \in DOMAIN inFlight
    BY <1>4, <2>2, <2>3 DEF LastOf
  <2>5. TellsTruth(u, l)
    BY <2>4 DEF LastTells
  <2> QED
    BY <1>0, <2>1, <2>5 DEF TellsTruth, AtHome, InMap
<1>10. ASSUME u \in placed', ~ Awaited(u)' PROVE AtHome(u, idMap[u])'
  <2>1. \A j \in 1 .. n : j # i => inFlight[j].user # u
    BY <1>4, <1>6, <1>10 DEF Awaited
  <2>2. /\ r.user \in Unnamed => UNCHANGED <<ipMap, idMap>>
        /\ r.user \notin Unnamed /\ r.type = "STOP" =>
             DOMAIN idMap' = DOMAIN idMap \ {r.user}
        /\ r.user \notin Unnamed /\ r.type # "STOP" =>
             DOMAIN idMap' = DOMAIN idMap \cup {r.user} /\ idMap'[r.user] = r.ip
        /\ \A v \in DOMAIN idMap :
             v # r.user => v \in DOMAIN idMap' /\ idMap'[v] = idMap[v]
    BY <1>3, AccountMoves
  <2>3. u \in DOMAIN idMap' /\ u \in placed \cup {r.user}
    BY <1>2, <1>10, ApplyPlaces
  <2>4. CASE r.user = u
    <3>1. u \notin Unnamed
      BY DEF Named
    <3>2. r.type # "STOP" /\ idMap'[u] = r.ip
      BY <2>2, <2>3, <2>4, <3>1
    <3>3. LastOf(u, i)
      BY <1>2, <1>4, <2>1, <2>4 DEF LastOf
    <3>4. AtHome(u, r.ip)
      BY <1>2, <3>2, <3>3 DEF LastTells, TellsTruth
    <3> QED
      BY <1>0, <3>2, <3>4 DEF AtHome
  <2>5. CASE r.user # u
    <3>1. u \in placed /\ u \in DOMAIN idMap /\ idMap'[u] = idMap[u]
      BY <2>2, <2>3, <2>5 DEF TypeOK
    <3>2. ~ Awaited(u)
      BY <1>2, <1>4, <2>1, <2>5 DEF Awaited
    <3>3. AtHome(u, idMap[u])
      BY <3>1, <3>2 DEF LastTells
    <3> QED
      BY <1>0, <3>1, <3>3 DEF AtHome
  <2> QED
    BY <2>4, <2>5
<1> QED
  BY <1>9, <1>10

LEMMA TellsStep ==
  ASSUME TypeOK, OnlineOnce, LastTells, [Next]_vars
  PROVE  LastTells'
<1>1. CASE Network
  <2>1. UNCHANGED <<idMap, placed>>
    BY <1>1, NetworkIs
  <2>2. CASE (\E r \in Record : Tells(r)) /\ lost' = lost
    BY <2>1, <2>2, SendTells
  <2>3. CASE Loses
    <3> SUFFICES ASSUME NEW u \in Named \ lost'
                 PROVE
          /\ \A k \in DOMAIN inFlight : LastOf(u, k)' => TellsTruth(u, k)'
          /\ u \in placed /\ ~ Awaited(u)' => AtHome(u, idMap[u])'
      BY <2>1, <2>3 DEF LastTells, Loses
    <3>1. inFlight' = inFlight /\ u \in Named \ lost
      BY <2>3 DEF Loses
    <3>2. \A i : AtHome(u, i) <=> AtHome(u, i)'
      BY <2>3 DEF Loses, AtHome, Named
    <3>3. \A k : (LastOf(u, k)' => LastOf(u, k)) /\ (TellsTruth(u, k) => TellsTruth(u, k)')
      BY <3>1, <3>2 DEF LastOf, TellsTruth, InMap, AtHome
    <3>4. Awaited(u) => Awaited(u)'
      BY <3>1 DEF Awaited
    <3>5. AtHome(u, idMap[u]) => AtHome(u, idMap[u])'
      BY <2>1, <3>2 DEF AtHome
    <3> QED
      BY <3>1, <3>3, <3>4, <3>5 DEF LastTells
  <2> QED
    BY <1>1, <2>2, <2>3, NetworkIs
<1>2. ASSUME NEW i \in DOMAIN inFlight, Apply(i) PROVE LastTells'
  BY <1>2, ApplyTells
<1>3. CASE MainThread \/ UNCHANGED vars
  <2>1. UNCHANGED <<online, inFlight, lost>>
    BY <1>3, MainThreadIs
  <2>2. placed' = {} \/ UNCHANGED <<idMap, placed>>
    BY <1>3, MainThreadIs
  <2> QED
    BY <2>1, <2>2 DEF LastTells, LastOf, TellsTruth, Awaited, AtHome, InMap
<1> QED
  BY <1>1, <1>2, <1>3 DEF Next

-----------------------------------------------------------------------------
(* Who has an address in ipMap.                                            *)

\* Where idMap has a user whom a record has placed, ipMap has him or another
\* one whom a record has placed there, or nobody.
Owned ==
  \A ip \in DOMAIN ipMap : \A u \in placed :
    idMap[u] = ip =>
      ipMap[ip] = u \/ (ipMap[ip] \in placed /\ idMap[ipMap[ip]] = ip)

\* A record does one of three things to the maps.
Moves(u, ip) ==
  /\ ipMap' = Put(IF u \in DOMAIN idMap THEN Drop(ipMap, idMap[u])
                  ELSE ipMap, ip, u)
  /\ idMap' = Put(idMap, u, ip)
  /\ placed' = placed \cup {u}
Erases(u) ==
  /\ u \in DOMAIN idMap
  /\ ipMap' = Drop(ipMap, idMap[u])
  /\ idMap' = Drop(idMap, u)
  /\ placed' = placed \ {u}

LEMMA ApplyIs ==
  ASSUME TypeOK, NEW i \in DOMAIN inFlight, Apply(i),
         NEW r \in Record, r = inFlight[i]
  PROVE  \/ UNCHANGED <<ipMap, idMap, placed>>
         \/ r.type # "STOP" /\ Moves(r.user, r.ip)
         \/ Erases(r.user)
<1>1. Account(r)
  BY DEF Apply
<1>2. placed' = IF idMap' = idMap THEN placed
                ELSE IF r.user \in DOMAIN idMap' THEN placed \cup {r.user}
                ELSE placed \ {r.user}
  BY Zenon DEF Apply
<1>3. CASE UNCHANGED <<ipMap, idMap>>
  BY <1>2, <1>3
<1>4. CASE r.type = "STOP" /\ Stop(r.user) /\ r.user \in DOMAIN idMap
  <2>1. ipMap' = Drop(ipMap, idMap[r.user]) /\ idMap' = Drop(idMap, r.user)
    BY <1>4 DEF Stop
  <2>2. r.user \notin DOMAIN idMap'
    <3>1. DOMAIN idMap' = DOMAIN idMap \ {r.user}
      BY <2>1 DEF Drop
    <3> QED
      BY <3>1
  <2>3. placed' = placed \ {r.user}
    BY <1>2, <1>4, <2>2
  <2> QED
    BY <1>4, <2>1, <2>3 DEF Erases
<1>5. CASE /\ r.type # "STOP" /\ Claim(r.user, r.ip)
           /\ ~ (r.user \in DOMAIN idMap /\ idMap[r.user] = r.ip)
  <2>1. /\ ipMap' = Put(IF r.user \in DOMAIN idMap THEN Drop(ipMap, idMap[r.user])
                        ELSE ipMap, r.ip, r.user)
        /\ idMap' = Put(idMap, r.user, r.ip)
    BY <1>5 DEF Claim
  <2>2. r.user \in DOMAIN idMap' /\ idMap'[r.user] = r.ip
    BY <2>1 DEF Put
  <2>3. placed' = placed \cup {r.user}
    BY <1>2, <1>5, <2>2
  <2> QED
    BY <1>5, <2>1, <2>3 DEF Moves
<1> QED
  BY <1>1, <1>3, <1>4, <1>5 DEF Account, Claim, Stop, maps

\* What a move and an erasure are, key by key.
LEMMA MovesIs ==
  ASSUME NEW u, NEW ip, Moves(u, ip)
  PROVE  /\ ip \in DOMAIN ipMap' /\ ipMap'[ip] = u
         /\ \A x \in DOMAIN ipMap' \ {ip} :
              /\ x \in DOMAIN ipMap /\ ipMap'[x] = ipMap[x]
              /\ u \in DOMAIN idMap => x # idMap[u]
         /\ u \in DOMAIN idMap' /\ idMap'[u] = ip
         /\ \A v \in DOMAIN idMap \ {u} : v \in DOMAIN idMap' /\ idMap'[v] = idMap[v]
         /\ placed' = placed \cup {u}
<1>1. PICK m : m = IF u \in DOMAIN idMap THEN Drop(ipMap, idMap[u]) ELSE ipMap
  OBVIOUS
<1>2. ipMap' = Put(m, ip, u) /\ idMap' = Put(idMap, u, ip) /\ placed' = placed \cup {u}
  BY <1>1 DEF Moves
<1>3. \A x \in DOMAIN m :
        /\ x \in DOMAIN ipMap /\ m[x] = ipMap[x]
        /\ u \in DOMAIN idMap => x # idMap[u]
  BY <1>1 DEF Drop
<1>4. /\ DOMAIN ipMap' = DOMAIN m \cup {ip} /\ ipMap'[ip] = u
      /\ \A x \in DOMAIN m : x # ip => ipMap'[x] = m[x]
  BY <1>2 DEF Put
<1>5. /\ DOMAIN idMap' = DOMAIN idMap \cup {u} /\ idMap'[u] = ip
      /\ \A v \in DOMAIN idMap : v # u => idMap'[v] = idMap[v]
  BY <1>2 DEF Put
<1> QED
  BY <1>2, <1>3, <1>4, <1>5

LEMMA ErasesIs ==
  ASSUME NEW u, Erases(u)
  PROVE  /\ \A x \in DOMAIN ipMap' :
              x \in DOMAIN ipMap /\ ipMap'[x] = ipMap[x] /\ x # idMap[u]
         /\ u \in DOMAIN idMap
         /\ \A v \in DOMAIN idMap \ {u} : v \in DOMAIN idMap' /\ idMap'[v] = idMap[v]
         /\ placed' = placed \ {u}
<1>1. /\ ipMap' = Drop(ipMap, idMap[u]) /\ idMap' = Drop(idMap, u)
      /\ u \in DOMAIN idMap /\ placed' = placed \ {u}
  BY DEF Erases
<1>2. /\ DOMAIN ipMap' = DOMAIN ipMap \ {idMap[u]}
      /\ \A x \in DOMAIN ipMap' : ipMap'[x] = ipMap[x]
  BY <1>1 DEF Drop
<1>3. /\ DOMAIN idMap' = DOMAIN idMap \ {u}
      /\ \A v \in DOMAIN idMap' : idMap'[v] = idMap[v]
  BY <1>1 DEF Drop
<1> QED
  BY <1>1, <1>2, <1>3

LEMMA OwnedStep ==
  ASSUME TypeOK, Owned, OnlineOnce, [Next]_vars
  PROVE  Owned'
<1>0. ASSUME UNCHANGED <<ipMap, idMap, placed>> PROVE Owned'
  BY <1>0 DEF Owned
<1>1. placed \subseteq DOMAIN idMap
  BY DEF TypeOK
<1>2. ASSUME NEW i \in DOMAIN inFlight, Apply(i) PROVE Owned'
  <2>1. PICK r \in Record : r = inFlight[i]
    BY DEF TypeOK
  <2>2. ASSUME NEW u, NEW ip, Moves(u, ip) PROVE Owned'
    <3> SUFFICES ASSUME NEW x \in DOMAIN ipMap', NEW v \in placed', idMap'[v] = x
                 PROVE  \/ ipMap'[x] = v
                        \/ ipMap'[x] \in placed' /\ idMap'[ipMap'[x]] = x
      BY DEF Owned
    <3>1. CASE x = ip
      BY <2>2, <3>1, MovesIs
    <3>2. CASE x # ip
      <4>1. /\ x \in DOMAIN ipMap /\ ipMap'[x] = ipMap[x]
            /\ u \in DOMAIN idMap => x # idMap[u]
        BY <2>2, <3>2, MovesIs
      <4>2. idMap'[u] = ip /\ placed' = placed \cup {u}
        BY <2>2, MovesIs
      <4>3. v # u /\ v \in placed
        BY <3>2, <4>2
      <4>4. \A w \in placed \ {u} : idMap'[w] = idMap[w]
        BY <1>1, <2>2, MovesIs
      <4>5. ipMap[x] = v \/ (ipMap[x] \in placed /\ idMap[ipMap[x]] = x)
        BY <4>1, <4>3, <4>4 DEF Owned
      <4>6. CASE ipMap[x] \in placed /\ idMap[ipMap[x]] = x
        <5>1. ipMap[x] # u
          BY <1>1, <4>1, <4>6
        <5> QED
          BY <4>1, <4>2, <4>4, <4>6, <5>1
      <4> QED
        BY <4>1, <4>5, <4>6
    <3> QED
      BY <3>1, <3>2
  <2>3. ASSUME NEW u, Erases(u) PROVE Owned'
    <3> SUFFICES ASSUME NEW x \in DOMAIN ipMap', NEW v \in placed', idMap'[v] = x
                 PROVE  \/ ipMap'[x] = v
                        \/ ipMap'[x] \in placed' /\ idMap'[ipMap'[x]] = x
      BY DEF Owned
    <3>1. x \in DOMAIN ipMap /\ ipMap'[x] = ipMap[x] /\ x # idMap[u]
      BY <2>3, ErasesIs
    <3>2. placed' = placed \ {u} /\ \A w \in placed' : idMap'[w] = idMap[w]
      BY <1>1, <2>3, ErasesIs
    <3>3. ipMap[x] = v \/ (ipMap[x] \in placed /\ idMap[ipMap[x]] = x)
      BY <3>1, <3>2 DEF Owned
    <3> QED
      BY <3>1, <3>2, <3>3
  <2> QED
    BY <1>0, <1>2, <2>1, <2>2, <2>3, ApplyIs
<1>3. CASE Network
  BY <1>0, <1>3, NetworkIs
<1>4. CASE Load \/ Clear
  BY <1>4 DEF Load, Clear, Owned
<1>5. CASE Dump \/ ForeignDump \/ UNCHANGED vars
  BY <1>0, <1>5 DEF Dump, ForeignDump, vars, maps, history
<1> QED
  BY <1>2, <1>3, <1>4, <1>5 DEF Next, MainThread

-----------------------------------------------------------------------------
(* When no record overtakes another: a user whose STOPs arrive stays where *)
(* he was said to be until a STOP says that he left.                       *)

\* Said to be at ip by idMap (j = 0) or by the j-th record on its way.
Says(u, j, ip) ==
  IF j = 0 THEN u \in placed /\ idMap[u] = ip
  ELSE inFlight[j].user = u /\ inFlight[j].type # "STOP" /\ inFlight[j].ip = ip

\* He does not leave between the j-th and the k-th record.
Until(u, j, k) ==
  \A h \in DOMAIN inFlight :
    j < h /\ h < k => ~ (inFlight[h].user = u /\ inFlight[h].type = "STOP")

Upright(u, j, ip) ==
  /\ \A k \in DOMAIN inFlight :
       j < k /\ Until(u, j, k) => (inFlight[k].user = u <=> inFlight[k].ip = ip)
  /\ Until(u, j, Len(inFlight) + 1) => AtHome(u, ip)

Stays ==
  inOrder =>
    \A u \in Named \ lost : \A ip \in Ip : \A j \in 0 .. Len(inFlight) :
      Says(u, j, ip) => Upright(u, j, ip)

\* Nobody else has his address in ipMap then.
Mine ==
  inOrder =>
    \A u \in placed \ lost : idMap[u] \in DOMAIN ipMap => ipMap[idMap[u]] = u

LEMMA SendStays ==
  ASSUME TypeOK, Stays, NEW r \in Record, Tells(r),
         UNCHANGED <<idMap, lost, placed, inOrder>>
  PROVE  Stays'
<1> SUFFICES ASSUME inOrder, NEW u \in Named \ lost, NEW ip \in Ip,
                    NEW j \in 0 .. Len(inFlight'), Says(u, j, ip)'
             PROVE  Upright(u, j, ip)'
  BY DEF Stays
<1>1. PICK n \in Nat : n = Len(inFlight)
  BY DEF TypeOK
<1>2. /\ DOMAIN inFlight = 1 .. n /\ DOMAIN inFlight' = 1 .. (n + 1)
      /\ Len(inFlight') = n + 1 /\ inFlight'[n + 1] = r
      /\ \A k \in 1 .. n : inFlight'[k] = inFlight[k]
  BY <1>1 DEF TypeOK, Tells
<1>3. /\ \A i \in DOMAIN online : r.user = online[i] <=> r.ip = i
      /\ \A v \in Named \ {r.user} : \A i : AtHome(v, i) <=> AtHome(v, i)'
      /\ r.type # "STOP" => AtHome(r.user, r.ip)'
  BY DEF Tells, AtHome
<1>4. CASE j = n + 1
  <2>1. r.user = u /\ r.type # "STOP" /\ r.ip = ip
    BY <1>2, <1>4 DEF Says
  <2>2. AtHome(u, ip)'
    BY <1>3, <2>1
  <2>3. \A k \in DOMAIN inFlight' : ~ (j < k)
    BY <1>2, <1>4
  <2> QED
    BY <2>2, <2>3 DEF Upright
<1>5. CASE j # n + 1
  <2>1. j \in 0 .. n
    BY <1>2, <1>5
  <2>2. Says(u, j, ip)
    BY <1>2, <2>1 DEF Says
  <2>3. Upright(u, j, ip)
    BY <1>1, <2>1, <2>2 DEF Stays
  <2>4. ASSUME NEW k \in 1 .. (n + 1), Until(u, j, k)' PROVE Until(u, j, k)
    BY <1>2, <2>4 DEF Until
  <2>5. ASSUME NEW k \in DOMAIN inFlight', j < k, Until(u, j, k)'
        PROVE  inFlight'[k].user = u <=> inFlight'[k].ip = ip
    <3>1. Until(u, j, k)
      BY <1>2, <2>4, <2>5
    <3>2. CASE k \in 1 .. n
      <4>1. inFlight[k].user = u <=> inFlight[k].ip = ip
        BY <1>2, <2>3, <2>5, <3>1, <3>2 DEF Upright
      <4> QED
        BY <1>2, <3>2, <4>1
    <3>3. CASE k = n + 1
      <4>1. AtHome(u, ip)
        BY <1>1, <2>3, <3>1, <3>3 DEF Upright
      <4> QED
        BY <1>2, <1>3, <3>3, <4>1 DEF AtHome
    <3> QED
      BY <1>2, <3>2, <3>3
  <2>6. ASSUME Until(u, j, Len(inFlight) + 1)' PROVE AtHome(u, ip)'
    <3>1. Until(u, j, n + 2)'
      <4>1. Len(inFlight') + 1 = n + 2
        BY <1>2
      <4> QED
        BY <2>6, <4>1 DEF Until
    <3>2. Until(u, j, n + 1)'
      BY <1>2, <2>1, <3>1 DEF Until
    <3>3. AtHome(u, ip)
      <4>1. Until(u, j, n + 1)
        BY <2>4, <3>2
      <4> QED
        BY <1>1, <2>3, <4>1 DEF Upright
    <3>4. ~ (r.user = u /\ r.type = "STOP")
      <4>1. n + 1 \in DOMAIN inFlight' /\ j < n + 1 /\ n + 1 < n + 2
        BY <1>2, <2>1
      <4> QED
        BY <1>2, <3>1, <4>1 DEF Until
    <3>5. CASE r.user = u
      <4>1. r.ip = ip
        BY <1>3, <3>3, <3>5 DEF AtHome
      <4> QED
        BY <1>3, <3>4, <3>5, <4>1
    <3>6. CASE r.user # u
      BY <1>3, <3>3, <3>6
    <3> QED
      BY <3>5, <3>6
  <2> QED
    BY <2>5, <2>6 DEF Upright
<1> QED
  BY <1>4, <1>5

LEMMA ApplyStays ==
  ASSUME TypeOK, Stays, NEW i \in DOMAIN inFlight, Apply(i)
  PROVE  Stays'
<1>0. UNCHANGED <<online, lost>> /\ inOrder' = (inOrder /\ i = 1)
  BY DEF Apply
<1> SUFFICES ASSUME inOrder, i = 1, NEW u \in Named \ lost, NEW ip \in Ip,
                    NEW j \in 0 .. Len(inFlight'), Says(u, j, ip)'
             PROVE  Upright(u, j, ip)'
  BY <1>0 DEF Stays
<1>1. PICK n \in Nat : n = Len(inFlight)
  BY DEF TypeOK
<1>2. PICK r \in Record : r = inFlight[1]
  BY DEF TypeOK
<1>3. /\ DOMAIN inFlight = 1 .. n /\ 1 \in 1 .. n
      /\ DOMAIN inFlight' = 1 .. (n - 1) /\ Len(inFlight') = n - 1
      /\ \A k \in 1 .. (n - 1) : inFlight'[k] = inFlight[k + 1]
  BY <1>1, TakenOut

\* Where he was said to be before.
<1>4. \E l \in 0 .. n :
        /\ Says(u, l, ip) /\ l <= j + 1
        /\ \A h \in DOMAIN inFlight :
             l < h /\ h < j + 2 => ~ (inFlight[h].user = u /\ inFlight[h].type = "STOP")
  <2>1. CASE j # 0
    <3>1. j \in 1 .. (n - 1) /\ j + 1 \in 0 .. n /\ j + 1 # 0
      BY <1>3, <2>1
    <3>2. Says(u, j + 1, ip)
      BY <1>3, <2>1, <3>1 DEF Says
    <3>3. \A h \in DOMAIN inFlight : ~ (j + 1 < h /\ h < j + 2)
      BY <1>3, <3>1
    <3> QED
      BY <3>1, <3>2, <3>3
  <2>2. CASE j = 0
    <3>1. u \in placed' /\ idMap'[u] = ip
      BY <2>2 DEF Says
    <3>2. CASE r.user # u
      <4>1. u \in placed /\ idMap'[u] = idMap[u]
        <5>1. u \in placed
          BY <1>2, <3>1, <3>2, ApplyPlaces
        <5>2. u \in DOMAIN idMap /\ Account(r)
          BY <1>2, <5>1 DEF TypeOK, Apply
        <5> QED
          BY <3>2, <5>1, <5>2, AccountMoves
      <4>2. Says(u, 0, ip)
        BY <3>1, <4>1 DEF Says
      <4>3. \A h \in DOMAIN inFlight : 0 < h /\ h < j + 2 => inFlight[h] = r
        BY <1>2, <1>3, <2>2
      <4> QED
        BY <1>1, <2>2, <3>2, <4>2, <4>3
    <3>3. CASE r.user = u
      <4>1. r.user \notin Unnamed /\ Account(r)
        BY <1>2, <3>3 DEF Named, Apply
      <4>2. u \in DOMAIN idMap'
        BY <3>1, ApplyPlaces
      <4>3. r.type # "STOP" /\ r.ip = ip
        BY <3>1, <3>3, <4>1, <4>2, AccountMoves
      <4>4. Says(u, 1, ip)
        BY <1>2, <3>3, <4>3 DEF Says
      <4>5. \A h \in DOMAIN inFlight : ~ (1 < h /\ h < j + 2)
        BY <1>3, <2>2
      <4> QED
        BY <1>3, <2>2, <4>4, <4>5
    <3> QED
      BY <3>2, <3>3
  <2> QED
    BY <2>1, <2>2
<1>5. PICK l \in 0 .. n :
        /\ Says(u, l, ip) /\ l <= j + 1
        /\ \A h \in DOMAIN inFlight :
             l < h /\ h < j + 2 => ~ (inFlight[h].user = u /\ inFlight[h].type = "STOP")
  BY <1>4
<1>6. Upright(u, l, ip)
  BY <1>1, <1>5 DEF Stays
<1>7. j \in 0 .. (n - 1)
  BY <1>3
<1>8. ASSUME NEW k \in Nat, Until(u, j, k)' PROVE Until(u, l, k + 1)
  <2> SUFFICES ASSUME NEW h \in 1 .. n, l < h, h < k + 1,
                      inFlight[h].user = u, inFlight[h].type = "STOP"
               PROVE  FALSE
    BY <1>3 DEF Until
  <2>1. ~ (h < j + 2)
    BY <1>3, <1>5
  <2>2. h - 1 \in 1 .. (n - 1) /\ j < h - 1 /\ h - 1 < k /\ (h - 1) + 1 = h
    BY <1>3, <1>7, <2>1
  <2>3. inFlight'[h - 1] = inFlight[h]
    BY <1>3, <2>2
  <2> QED
    BY <1>3, <1>8, <2>2, <2>3 DEF Until
<1>9. ASSUME NEW k \in DOMAIN inFlight', j < k, Until(u, j, k)'
      PROVE  inFlight'[k].user = u <=> inFlight'[k].ip = ip
  <2>1. k \in 1 .. (n - 1) /\ k + 1 \in 1 .. n /\ k \in Nat /\ l < k + 1
    BY <1>3, <1>5, <1>7, <1>9
  <2>2. Until(u, l, k + 1)
    BY <1>8, <1>9, <2>1
  <2>3. inFlight[k + 1].user = u <=> inFlight[k + 1].ip = ip
    BY <1>3, <1>6, <2>1, <2>2 DEF Upright
  <2> QED
    BY <1>3, <2>1, <2>3
<1>10. ASSUME Until(u, j, Len(inFlight) + 1)' PROVE AtHome(u, ip)'
  <2>1. Len(inFlight') + 1 = n /\ n \in Nat
    BY <1>3
  <2>2. Until(u, j, n)'
    BY <1>10, <2>1 DEF Until
  <2>3. Until(u, l, n + 1)
    BY <1>8, <2>1, <2>2
  <2>4. AtHome(u, ip)
    BY <1>1, <1>6, <2>3 DEF Upright
  <2> QED
    BY <1>0, <2>4 DEF AtHome
<1> QED
  BY <1>9, <1>10 DEF Upright

LEMMA StaysStep ==
  ASSUME TypeOK, OnlineOnce, Stays, [Next]_vars
  PROVE  Stays'
<1>1. CASE Network
  <2>1. UNCHANGED <<idMap, placed, inOrder>>
    BY <1>1, NetworkIs
  <2>2. CASE (\E r \in Record : Tells(r)) /\ lost' = lost
    BY <2>1, <2>2, SendStays
  <2>3. CASE Loses
    <3> SUFFICES ASSUME inOrder, NEW u \in Named \ lost', NEW ip \in Ip,
                        NEW j \in 0 .. Len(inFlight), Says(u, j, ip)
                 PROVE  Upright(u, j, ip)'
      BY <2>1, <2>3 DEF Stays, Says, Loses
    <3>1. u \in Named \ lost /\ inFlight' = inFlight
      BY <2>3 DEF Loses
    <3>2. AtHome(u, ip) <=> AtHome(u, ip)'
      BY <2>3 DEF Loses, AtHome, Named
    <3>3. Upright(u, j, ip)
      BY <3>1 DEF Stays
    <3>4. \A k : Until(u, j, k)' <=> Until(u, j, k)
      BY <3>1 DEF Until
    <3> QED
      BY <3>1, <3>2, <3>3, <3>4 DEF Upright, Until, AtHome
  <2> QED
    BY <1>1, <2>2, <2>3, NetworkIs
<1>2. ASSUME NEW i \in DOMAIN inFlight, Apply(i) PROVE Stays'
  BY <1>2, ApplyStays
<1>3. CASE MainThread \/ UNCHANGED vars
  <2>1. UNCHANGED <<online, inFlight, lost, inOrder>>
    BY <1>3, MainThreadIs
  <2>2. placed' = {} \/ UNCHANGED <<idMap, placed>>
    BY <1>3, MainThreadIs
  <2>3. ASSUME NEW u, NEW j, NEW ip, Says(u, j, ip)' PROVE Says(u, j, ip)
    BY <2>1, <2>2, <2>3 DEF Says
  <2>4. ASSUME NEW u, NEW j, NEW ip, Upright(u, j, ip) PROVE Upright(u, j, ip)'
    BY <2>1, <2>4 DEF Upright, Until, AtHome
  <2> QED
    BY <2>1, <2>3, <2>4 DEF Stays
<1> QED
  BY <1>1, <1>2, <1>3 DEF Next

LEMMA MineStep ==
  ASSUME TypeOK, OnlineOnce, Stays, Mine, [Next]_vars
  PROVE  Mine'
<1>0. placed \subseteq DOMAIN idMap /\ DOMAIN ipMap \subseteq Ip /\ placed \subseteq Named
  BY PartialMapDef DEF TypeOK
<1>1. CASE Network
  <2>1. UNCHANGED <<ipMap, idMap, placed, inOrder>> /\ lost \subseteq lost'
    BY <1>1, NetworkIs DEF Loses
  <2> QED
    BY <2>1 DEF Mine
<1>2. ASSUME NEW i \in DOMAIN inFlight, Apply(i) PROVE Mine'
  <2>0. lost' = lost /\ inOrder' = (inOrder /\ i = 1)
    BY <1>2 DEF Apply
  <2> SUFFICES ASSUME inOrder, i = 1, NEW u \in placed' \ lost, idMap'[u] \in DOMAIN ipMap'
               PROVE  ipMap'[idMap'[u]] = u
    BY <2>0 DEF Mine
  <2>1. PICK r \in Record : r = inFlight[1]
    BY <1>2 DEF TypeOK
  <2>2. CASE UNCHANGED <<ipMap, idMap, placed>>
    BY <2>2 DEF Mine
  <2>3. CASE Moves(r.user, r.ip)
    <3>1. CASE u = r.user
      BY <2>3, <3>1, MovesIs
    <3>2. CASE u # r.user
      <4>1. u \in placed /\ idMap'[u] = idMap[u]
        BY <1>0, <2>3, <3>2, MovesIs
      <4>2. PICK x : x = idMap[u]
        OBVIOUS
      <4>3. x # r.ip
        <5>1. Says(u, 0, x) /\ x \in Ip
          BY <1>0, <4>1, <4>2, PartialMapDef DEF Says, TypeOK
        <5>2. u \in Named \ lost /\ 0 \in 0 .. Len(inFlight)
          BY <1>0, <4>1 DEF TypeOK
        <5>3. Upright(u, 0, x)
          BY <5>1, <5>2 DEF Stays
        <5>4. Until(u, 0, 1) /\ 1 \in DOMAIN inFlight
          BY <1>2 DEF Until, TypeOK
        <5> QED
          BY <2>1, <3>2, <5>3, <5>4 DEF Upright
      <4>4. x \in DOMAIN ipMap /\ ipMap'[x] = ipMap[x]
        BY <2>3, <4>1, <4>2, <4>3, MovesIs
      <4> QED
        BY <4>1, <4>2, <4>4 DEF Mine
    <3> QED
      BY <3>1, <3>2
  <2>4. CASE Erases(r.user)
    <3>1. u \in placed /\ idMap'[u] = idMap[u]
      BY <1>0, <2>4, ErasesIs
    <3>2. idMap[u] \in DOMAIN ipMap /\ ipMap'[idMap[u]] = ipMap[idMap[u]]
      BY <2>4, <3>1, ErasesIs
    <3> QED
      BY <3>1, <3>2 DEF Mine
  <2> QED
    BY <1>2, <2>1, <2>2, <2>3, <2>4, ApplyIs
<1>3. CASE Load \/ Clear
  BY <1>3 DEF Load, Clear, Mine
<1>4. CASE Dump \/ ForeignDump \/ UNCHANGED vars
  BY <1>4 DEF Dump, ForeignDump, vars, maps, network, history, Mine
<1> QED
  BY <1>1, <1>2, <1>3, <1>4 DEF Next, MainThread

-----------------------------------------------------------------------------
UserMapInv ==
  /\ TypeOK /\ OnlineOnce /\ StoryTold /\ MapsFollow
  /\ LastTells /\ Owned /\ Stays /\ Mine

LEMMA UserMapInit == Init => UserMapInv
<1> SUFFICES ASSUME Init PROVE UserMapInv
  OBVIOUS
<1>1. /\ DOMAIN ipMap = {} /\ DOMAIN idMap = {} /\ inFlight = <<>>
      /\ placed = {} /\ told = NamedOnline /\ main = "start"
      /\ \A i, j \in DOMAIN online : online[i] = online[j] => i = j
      /\ online \in PartialMap(Ip, User)
  BY DEF Init, EmptyMap
<1>2. OnlineOnce /\ LastTells /\ Owned /\ Mine
  BY <1>1 DEF OnlineOnce, LastTells, Owned, Mine
<1>3. Stays
  BY <1>1 DEF Stays, Says
<1>4. /\ DOMAIN NamedOnline = {i \in DOMAIN online : online[i] \in Named}
      /\ \A i \in DOMAIN NamedOnline : NamedOnline[i] = online[i]
      /\ NamedOnline \in PartialMap(Ip, Named)
  BY <1>1, NamedOnlineMap
<1>5. MapsFollow
  BY <1>1, <1>4 DEF MapsFollow, Know
<1>6. StoryTold
  <2>1. PICK m : m = NamedOnline
    OBVIOUS
  <2>2. PICK S : S = [k \in 0 .. 0 |-> m]
    OBVIOUS
  <2>3. Len(inFlight) = 0
    BY <1>1
  <2>4. S \in [0 .. 0 -> PartialMap(Ip, Named)] /\ S[0] = m
    BY <1>4, <2>1, <2>2
  <2>5. Story(S)
    BY <1>1, <2>1, <2>3, <2>4 DEF Story
  <2> QED
    BY <2>5 DEF StoryTold
<1> QED
  BY <1>2, <1>3, <1>5, <1>6, InitType DEF UserMapInv

LEMMA UserMapInvAlways == Spec => []UserMapInv
<1>1. UserMapInv /\ [Next]_vars => UserMapInv'
  <2> SUFFICES ASSUME UserMapInv, [Next]_vars PROVE UserMapInv'
    OBVIOUS
  <2>1. /\ TypeOK /\ OnlineOnce /\ StoryTold /\ MapsFollow
        /\ LastTells /\ Owned /\ Stays /\ Mine
    BY DEF UserMapInv
  <2>2. TypeOK' /\ OnlineOnce'
    BY <2>1, NextType, OnlineStep
  <2>3. StoryTold' /\ MapsFollow'
    BY <2>1, StoryStep, MapsFollowStep
  <2>4. LastTells' /\ Owned'
    BY <2>1, TellsStep, OwnedStep
  <2>5. Stays' /\ Mine'
    BY <2>1, StaysStep, MineStep
  <2> QED
    BY <2>2, <2>3, <2>4, <2>5 DEF UserMapInv
<1> QED
  BY <1>1, UserMapInit, PTL DEF Spec

(* With all records and in their order, and loads of files that said what  *)
(* the records had said by then, the maps have exactly the users who are   *)
(* online, each at his address (updateGlbTable, loadAAAData): what a       *)
(* session manager looks up is neither missing nor left over.              *)
THEOREM MapsExactWhenReliable == Spec => []ExactWhenReliable
<1>1. UserMapInv => ExactWhenReliable
  <2> SUFFICES ASSUME UserMapInv, inOrder, inFlight = <<>>, lost = {}, current,
                      main = "loop", NEW ip \in Ip, NEW u \in Named
               PROVE  (ip \in DOMAIN online /\ online[ip] = u)
                        <=> (ip \in DOMAIN ipMap /\ ipMap[ip] = u)
    BY DEF ExactWhenReliable
  <2>1. /\ DOMAIN NamedOnline = {i \in DOMAIN online : online[i] \in Named}
        /\ \A i \in DOMAIN NamedOnline : NamedOnline[i] = online[i]
    BY NamedOnlineMap DEF UserMapInv, TypeOK
  <2>2. told = NamedOnline
    <3>1. PICK S : Story(S)
      BY DEF UserMapInv, StoryTold
    <3>2. Len(inFlight) = 0
      OBVIOUS
    <3> QED
      BY <3>1, <3>2 DEF Story
  <2>3. /\ \A v \in DOMAIN idMap : idMap[v] \in DOMAIN told /\ told[idMap[v]] = v
        /\ \A i \in DOMAIN ipMap : ipMap[i] \in DOMAIN idMap /\ idMap[ipMap[i]] = i
        /\ DOMAIN told \subseteq DOMAIN ipMap
    BY DEF UserMapInv, MapsFollow, Know
  <2>4. ASSUME ip \in DOMAIN online, online[ip] = u
        PROVE  ip \in DOMAIN ipMap /\ ipMap[ip] = u
    <3>1. ip \in DOMAIN told /\ told[ip] = u
      BY <2>1, <2>2, <2>4
    <3> QED
      BY <2>3, <3>1
  <2>5. ASSUME ip \in DOMAIN ipMap, ipMap[ip] = u
        PROVE  ip \in DOMAIN online /\ online[ip] = u
    <3>1. ip \in DOMAIN told /\ told[ip] = u
      BY <2>3, <2>5
    <3> QED
      BY <2>1, <2>2, <3>1
  <2> QED
    BY <2>4, <2>5
<1> QED
  BY <1>1, UserMapInvAlways, PTL

(* After any loads, clears, losses and overtakings: a user whom a record   *)
(* has placed since the last load, and whose STOPs have all arrived, finds *)
(* at his address himself, nobody, or (only after an overtaking) one whose *)
(* STOP was lost.                                                          *)
THEOREM NoOtherUserAttributed == Spec => []NeverAnotherUser
<1>1. UserMapInv => NeverAnotherUser
  <2> SUFFICES ASSUME UserMapInv, inFlight = <<>>,
                      NEW ip \in DOMAIN online \cap DOMAIN ipMap,
                      NEW u \in placed \ lost, u = online[ip]
               PROVE  ipMap[ip] = u \/ (ipMap[ip] \in lost /\ ~ inOrder)
    BY DEF NeverAnotherUser
  <2>1. TypeOK /\ OnlineOnce /\ LastTells /\ Owned /\ Mine
    BY DEF UserMapInv
  <2>2. placed \subseteq Named
    BY <2>1, PartialMapDef DEF TypeOK
  <2>3. \A v \in placed \ lost : AtHome(v, idMap[v])
    BY <2>1, <2>2 DEF LastTells, Awaited
  <2>4. idMap[u] = ip
    BY <2>1, <2>3 DEF AtHome, OnlineOnce
  <2>5. inOrder => ipMap[ip] = u
    BY <2>1, <2>4 DEF Mine
  <2>6. ipMap[ip] = u \/ (ipMap[ip] \in placed /\ idMap[ipMap[ip]] = ip)
    BY <2>1, <2>4 DEF Owned
  <2>7. ASSUME ipMap[ip] \in placed \ lost, idMap[ipMap[ip]] = ip
        PROVE  ipMap[ip] = u
    BY <2>3, <2>7 DEF AtHome
  <2> QED
    BY <2>5, <2>6, <2>7
<1> QED
  BY <1>1, UserMapInvAlways, PTL

-----------------------------------------------------------------------------
(* The lock under which all of this happens.  The inductive invariant says *)
(* who has the mutex, and that the counter is 1 exactly when nobody has    *)
(* the lock.                                                               *)

\* The places at which a thread has the mutex.
WithMutex == {"test", "signal", "give"}

\* The mutex excludes: its holder is the only thread at such a place.
MutexInv == \A t \in Thread : pc[t] \in WithMutex <=> lockCount = t

\* The counter counts the locks that are free.
CountInv == count = 1 <=> Holder = {}

\* Between the signal and the increment, a waiting thread has been woken
\* or there is none.
SignalInv ==
  (\E t \in Thread : pc[t] = "give") /\ (\E t \in Thread : pc[t] = "waiting")
    => \E t \in Thread : pc[t] = "woken"

LockInv ==
  /\ LockTypeOK
  /\ MutexInv
  /\ MutualExclusion
  /\ CountInv
  /\ SignalInv
  /\ NoLostWakeup

(* The invariant holds at the start.                                       *)
LEMMA LockInvInit == LockInit => LockInv
<1> SUFFICES ASSUME LockInit PROVE LockInv
  OBVIOUS
<1> USE DEF LockInit
<1>1. LockTypeOK
  BY DEF LockTypeOK, Place
<1>2. MutexInv
  BY MapLockAssumption DEF MutexInv, WithMutex
<1>3. MutualExclusion /\ CountInv
  BY DEF MutualExclusion, CountInv, Holder
<1>4. SignalInv /\ NoLostWakeup
  BY DEF SignalInv, NoLostWakeup
<1> QED
  BY <1>1, <1>2, <1>3, <1>4 DEF LockInv

(* Every step preserves it.                                                *)
LEMMA LockInvStep == LockInv /\ [LockNext]_lockVars => LockInv'
<1> SUFFICES ASSUME LockInv, [LockNext]_lockVars PROVE LockInv'
  OBVIOUS
<1> USE DEF LockInv
<1>a. NoThread \notin Thread
  BY MapLockAssumption DEF MapLockAssumption
<1> DEFINE Good == LockTypeOK' /\ MutexInv' /\ MutualExclusion' /\ CountInv'
                   /\ SignalInv' /\ NoLostWakeup'
<1>1. ASSUME NEW t \in Thread, Call(t) PROVE Good
  BY <1>1, <1>a DEF Call, Move, LockTypeOK, Place, MutexInv, WithMutex,
     MutualExclusion, CountInv, Holder, SignalInv, NoLostWakeup
<1>2. ASSUME NEW t \in Thread, Leave(t) PROVE Good
  BY <1>2, <1>a DEF Leave, Move, LockTypeOK, Place, MutexInv, WithMutex,
     MutualExclusion, CountInv, Holder, SignalInv, NoLostWakeup
<1>3. ASSUME NEW t \in Thread, SpuriousWakeup(t) PROVE Good
  BY <1>3, <1>a DEF SpuriousWakeup, Move, LockTypeOK, Place, MutexInv, WithMutex,
     MutualExclusion, CountInv, Holder, SignalInv, NoLostWakeup
<1>4. ASSUME NEW t \in Thread, MutexLock(t, "lock", "test") PROVE Good
  BY <1>4, <1>a DEF MutexLock, Move, LockTypeOK, Place, MutexInv, WithMutex,
     MutualExclusion, CountInv, Holder, SignalInv, NoLostWakeup
<1>5. ASSUME NEW t \in Thread, Wait(t) PROVE Good
  BY <1>5, <1>a DEF Wait, Move, LockTypeOK, Place, MutexInv, WithMutex,
     MutualExclusion, CountInv, Holder, SignalInv, NoLostWakeup
<1>6. ASSUME NEW t \in Thread, Relock(t) PROVE Good
  BY <1>6, <1>a DEF Relock, MutexLock, Move, LockTypeOK, Place, MutexInv, WithMutex,
     MutualExclusion, CountInv, Holder, SignalInv, NoLostWakeup
<1>7. ASSUME NEW t \in Thread, Take(t) PROVE Good
  BY <1>7, <1>a DEF Take, Move, LockTypeOK, Place, MutexInv, WithMutex,
     MutualExclusion, CountInv, Holder, SignalInv, NoLostWakeup
<1>8. ASSUME NEW t \in Thread, MutexLock(t, "unlock", "signal") PROVE Good
  BY <1>8, <1>a DEF MutexLock, Move, LockTypeOK, Place, MutexInv, WithMutex,
     MutualExclusion, CountInv, Holder, SignalInv, NoLostWakeup
<1>9. ASSUME NEW t \in Thread, Signal(t) PROVE Good
  <2>1. t \in Holder /\ count = 0 /\ lockCount = t
    BY <1>9 DEF Signal, Holder, CountInv, LockTypeOK, MutexInv, WithMutex
  <2>2. CASE \E u \in Thread : pc[u] = "waiting"
    <3>1. PICK u \in Thread : /\ pc[u] = "waiting"
                              /\ pc' = [pc EXCEPT ![t] = "give", ![u] = "woken"]
      BY <1>9, <2>1, <2>2 DEF Signal
    <3>2. t # u /\ pc[t] = "signal" /\ UNCHANGED <<count, lockCount>>
      BY <1>9, <3>1 DEF Signal
    <3>3. \A v \in Thread :
            pc'[v] = IF v = u THEN "woken" ELSE IF v = t THEN "give" ELSE pc[v]
      BY <3>1, <3>2 DEF LockTypeOK
    <3>3a. pc[u] = "waiting" /\ pc'[u] = "woken"
      BY <3>1, <3>3
    <3>3b. pc[t] = "signal" /\ pc'[t] = "give"
      BY <3>2, <3>3
    <3>4. LockTypeOK'
      BY <3>1, <3>2 DEF LockTypeOK, Place
    <3>5. Holder' = Holder
      <4>1. \A v \in Thread : v \in Holder' <=> v \in Holder
        <5> SUFFICES ASSUME NEW v \in Thread
                     PROVE  v \in Holder' <=> v \in Holder
          OBVIOUS
        <5>1. CASE v = u
          BY <5>1, <3>3a DEF Holder
        <5>2. CASE v = t
          BY <5>2, <3>3b DEF Holder
        <5>3. CASE v # u /\ v # t
          BY <5>3, <3>3 DEF Holder
        <5> QED
          BY <5>1, <5>2, <5>3
      <4>2. Holder \subseteq Thread /\ Holder' \subseteq Thread
        BY DEF Holder
      <4> QED
        BY <4>1, <4>2
    <3>6a. MutexInv'
      <4>1. \A v \in Thread : pc'[v] \in WithMutex <=> pc[v] \in WithMutex
        <5> SUFFICES ASSUME NEW v \in Thread
                     PROVE  pc'[v] \in WithMutex <=> pc[v] \in WithMutex
          OBVIOUS
        <5>1. CASE v = u
          BY <5>1, <3>3a DEF WithMutex
        <5>2. CASE v = t
          BY <5>2, <3>3b DEF WithMutex
        <5>3. CASE v # u /\ v # t
          BY <5>3, <3>3
        <5> QED
          BY <5>1, <5>2, <5>3
      <4> QED
        BY <4>1, <3>2 DEF MutexInv
    <3>6. MutexInv' /\ MutualExclusion' /\ CountInv'
      BY <3>6a, <3>2, <3>5 DEF MutualExclusion, CountInv
    <3>7. SignalInv' /\ NoLostWakeup'
      BY <3>3 DEF SignalInv, NoLostWakeup
    <3> QED
      BY <3>4, <3>6, <3>7
  <2>3. CASE ~ \E u \in Thread : pc[u] = "waiting"
    <3>1. /\ pc' = [pc EXCEPT ![t] = "give"]
          /\ pc[t] = "signal" /\ UNCHANGED <<count, lockCount>>
      BY <1>9, <2>3 DEF Signal
    <3> QED
      BY <3>1, <2>1, <2>3, <1>a DEF LockTypeOK, Place, MutexInv, WithMutex,
         MutualExclusion, CountInv, Holder, SignalInv, NoLostWakeup
  <2> QED
    BY <2>2, <2>3
<1>10. ASSUME NEW t \in Thread, Give(t) PROVE Good
  <2>1. /\ t \in Holder /\ count = 0 /\ lockCount = t
    BY <1>10 DEF Give, Move, Holder, CountInv, LockTypeOK, MutexInv, WithMutex
  <2>2. \A v \in Thread : pc'[v] = IF v = t THEN "out" ELSE pc[v]
    BY <1>10 DEF Give, Move, LockTypeOK
  <2>3. LockTypeOK' /\ count' = 1
    BY <1>10, <2>1 DEF Give, Move, LockTypeOK, Place
  <2>4. Holder' = {}
    BY <2>1, <2>2 DEF Holder, MutualExclusion
  <2>5. MutexInv'
    BY <1>10, <1>a, <2>1, <2>2 DEF Give, MutexInv, WithMutex
  <2>6. MutualExclusion' /\ CountInv'
    BY <2>3, <2>4 DEF MutualExclusion, CountInv
  <2>7. SignalInv'
    BY <2>5, <1>10, <1>a DEF SignalInv, Give, MutexInv, WithMutex
  <2>8. NoLostWakeup'
    BY <1>10, <2>2 DEF NoLostWakeup, SignalInv, Give, Move
  <2> QED
    BY <2>3, <2>5, <2>6, <2>7, <2>8
<1>11. CASE UNCHANGED lockVars
  BY <1>11 DEF lockVars, LockTypeOK, MutexInv, MutualExclusion, CountInv, Holder,
     SignalInv, NoLostWakeup
<1> QED
  BY <1>1, <1>2, <1>3, <1>4, <1>5, <1>6, <1>7, <1>8, <1>9, <1>10, <1>11
     DEF LockNext, Step

(* No two threads are ever at work on the maps (lockAAAMap, lockDnsMap),   *)
(* and the counter is 0 or 1.                                              *)
THEOREM LockExcludes == LockSpec => [](LockTypeOK /\ MutualExclusion)
<1>1. LockInv => LockTypeOK /\ MutualExclusion
  BY DEF LockInv
<1> QED
  BY LockInvInit, LockInvStep, <1>1, PTL DEF LockSpec

(* No wake-up of pthread_cond_signal is lost.                              *)
THEOREM WakeupsArrive == LockSpec => []NoLostWakeup
<1>1. LockInv => NoLostWakeup
  BY DEF LockInv
<1> QED
  BY LockInvInit, LockInvStep, <1>1, PTL DEF LockSpec

-----------------------------------------------------------------------------
(* Start and stop: the order in which threads are spawned and flags are    *)
(* cleared.                                                                *)

SpawnPlace(k) == CHOOSE i \in DOMAIN SpawnOrder : SpawnOrder[i] = k
StageOf(k) == CHOOSE s \in DOMAIN StopOrder : k \in StopOrder[s]

Core == {"timer"} \cup Routers \cup Managers \cup Flushers

LEMMA Kinds ==
  /\ "timer" \in Kind /\ MaxLate \in Nat /\ MaxSignals \in Nat
  /\ \A k \in Kind : k \in Core \cup Agents \cup Statistics
BY LifecycleAssumption DEF Core

LEMMA PlaceIs ==
  /\ SpawnPlace("timer") = 1 /\ SpawnPlace("router") = 2
  /\ SpawnPlace("tcpSM") = 3 /\ SpawnPlace("udpSM") = 4 /\ SpawnPlace("dnsSM") = 5
  /\ SpawnPlace("aaaSM") = 6 /\ SpawnPlace("unmSM") = 7
  /\ SpawnPlace("tcpFl") = 8 /\ SpawnPlace("udpFl") = 9 /\ SpawnPlace("dnsFl") = 10
  /\ SpawnPlace("aaaFl") = 11 /\ SpawnPlace("unmFl") = 12
  /\ SpawnPlace("tcpAgent") = 13 /\ SpawnPlace("udpAgent") = 14
  /\ SpawnPlace("aaaAgent") = 15 /\ SpawnPlace("dnsAgent") = 16
  /\ SpawnPlace("stats") = 17 /\ SpawnPlace("log") = 18
BY DEF SpawnPlace, SpawnOrder

LEMMA PlaceOfSpawned ==
  /\ DOMAIN SpawnOrder = 1 .. 18
  /\ \A i \in DOMAIN SpawnOrder : SpawnPlace(SpawnOrder[i]) = i
  /\ \A k \in Kind : SpawnPlace(k) \in 1 .. 18 /\ SpawnOrder[SpawnPlace(k)] = k
<1>1. DOMAIN SpawnOrder = 1 .. 18
  BY DEF SpawnOrder
<1>2. \A i \in 1 .. 18 : SpawnPlace(SpawnOrder[i]) = i
  BY PlaceIs DEF SpawnOrder
<1>3. ASSUME NEW k \in Kind PROVE SpawnPlace(k) \in 1 .. 18 /\ SpawnOrder[SpawnPlace(k)] = k
  BY PlaceIs, Kinds DEF SpawnOrder, Core, Routers, Managers, Flushers, Agents, Statistics
<1> QED
  BY <1>1, <1>2, <1>3

LEMMA StageIs ==
  /\ StageOf("timer") = 1 /\ StageOf("router") = 2
  /\ StageOf("tcpSM") = 4 /\ StageOf("udpSM") = 5 /\ StageOf("dnsSM") = 6
  /\ StageOf("aaaSM") = 7 /\ StageOf("unmSM") = 8
  /\ StageOf("tcpFl") = 9 /\ StageOf("udpFl") = 10 /\ StageOf("dnsFl") = 11
  /\ StageOf("aaaFl") = 12 /\ StageOf("unmFl") = 13
BY DEF StageOf, StopOrder, Routers, Agents, Statistics

LEMMA StageOfCleared ==
  /\ DOMAIN StopOrder = 1 .. 14 /\ Len(StopOrder) = 14
  /\ \A k \in Kind : StageOf(k) \in 1 .. 14
  /\ \A k \in Kind : \A s \in 1 .. 14 : k \in StopOrder[s] <=> StageOf(k) = s
<1>1. DOMAIN StopOrder = 1 .. 14 /\ Len(StopOrder) = 14
  BY DEF StopOrder
<1>2. ASSUME NEW k \in Kind, NEW s \in 1 .. 14, NEW t \in 1 .. 14,
             k \in StopOrder[s], k \in StopOrder[t]
      PROVE  s = t
  BY <1>2 DEF StopOrder, Routers, Agents, Statistics
<1>3. ASSUME NEW k \in Kind PROVE \E s \in 1 .. 14 : k \in StopOrder[s]
  BY Kinds DEF StopOrder, Core, Routers, Managers, Flushers, Agents, Statistics
<1> QED
  BY <1>1, <1>2, <1>3 DEF StageOf

-----------------------------------------------------------------------------
(* Type correctness of start and stop.                                     *)

LEMMA LifeInitType == LifeInit => LifeTypeOK
<1> SUFFICES ASSUME LifeInit PROVE LifeTypeOK
  OBVIOUS
<1>1. 1 \in Configured
  BY Kinds, PlaceOfSpawned DEF Configured, SpawnOrder
<1>2. /\ flag \in [Kind -> BOOLEAN] /\ ready \in [Kind -> BOOLEAN]
      /\ thread \in [Kind -> {"none", "created", "running", "recv", "drain", "pause",
                           "ended"}]
  BY DEF LifeInit
<1>3. late \in [Kind -> 0 .. MaxLate] /\ signals \in 0 .. MaxSignals
  BY Kinds DEF LifeInit
<1>4. stage \in 0 .. Len(StopOrder) + 1
  BY StageOfCleared DEF LifeInit
<1> QED
  BY <1>1, <1>2, <1>3, <1>4 DEF LifeInit, LifeTypeOK

LEMMA NextKindType ==
  ASSUME LifeTypeOK, NextKind
  PROVE  mainPc' \in {"spawn", "loads"} /\ mainAt' \in Configured
BY DEF NextKind, LifeTypeOK

LEMMA StartType == LifeTypeOK /\ Start => LifeTypeOK'
<1> SUFFICES ASSUME LifeTypeOK, Start PROVE LifeTypeOK'
  OBVIOUS
<1>0. Current \in Kind
  BY DEF LifeTypeOK, Current, Configured
<1>1. CASE SkipStatistics \/ AwaitReady
  BY <1>1, NextKindType DEF SkipStatistics, AwaitReady, LifeTypeOK, handlerVars
<1>2. CASE StatisticsWanted \/ LoadMaps \/ MainEnds
  BY <1>2 DEF StatisticsWanted, LoadMaps, MainEnds, LifeTypeOK, handlerVars
<1>3. CASE Raise
  <2>1. flag' \in [Kind -> BOOLEAN] /\ outlives' \subseteq Kind
    BY <1>0, <1>3 DEF Raise, LifeTypeOK
  <2> QED
    BY <1>3, <2>1 DEF Raise, LifeTypeOK, handlerVars
<1>4. CASE CreateThread
  <2>1. thread' \in [Kind -> {"none", "created", "running", "recv", "drain", "pause",
                             "ended"}]
    BY <1>0, <1>4 DEF CreateThread, LifeTypeOK
  <2>2. mainPc' \in {"spawn", "loads", "await"} /\ mainAt' \in Configured
    BY <1>4, NextKindType DEF CreateThread, LifeTypeOK
  <2> QED
    BY <1>4, <2>1, <2>2 DEF CreateThread, LifeTypeOK, handlerVars
<1>5. CASE EnableServer \/ ReadConfiguration
  <2>1. PRINT_STATS' \in BOOLEAN /\ serverFlag' \in BOOLEAN
    BY <1>5, Zenon DEF EnableServer, ReadConfiguration, LifeTypeOK
  <2>2. mainPc' \in {"config", "spawn"}
    BY <1>5 DEF EnableServer, ReadConfiguration
  <2>3. UNCHANGED <<flag, thread, ready, mainAt, stage, sleeping, signals, cleanTime,
                    late, outlives>>
    BY <1>5 DEF EnableServer, ReadConfiguration, handlerVars
  <2> QED
    BY <2>1, <2>2, <2>3 DEF LifeTypeOK
<1> QED
  BY <1>1, <1>2, <1>3, <1>4, <1>5
     DEF Start, RaiseTimer, RaiseRouter, RaiseManager, RaiseFlusher, RaiseAgent,
         RaiseStatistics

LEMMA HandlerType == LifeTypeOK /\ (SignalArrives \/ Handler) => LifeTypeOK'
<1> SUFFICES ASSUME LifeTypeOK, SignalArrives \/ Handler PROVE LifeTypeOK'
  OBVIOUS
<1>1. CASE SignalArrives
  BY <1>1, Kinds, StageOfCleared DEF SignalArrives, LifeTypeOK, startVars
<1>2. CASE ClearFlags
  <2>1. flag' \in [Kind -> BOOLEAN] /\ PRINT_STATS' \in BOOLEAN
    BY <1>2 DEF ClearFlags
  <2> QED
    BY <1>2, <2>1 DEF ClearFlags, LifeTypeOK, startVars
<1>3. CASE SleepSecond
  <2>1. late' \in [Kind -> 0 .. MaxLate]
    BY <1>3, Kinds DEF SleepSecond, LifeTypeOK
  <2>2. stage' \in 0 .. Len(StopOrder) + 1
    <3>1. stage \in 1 .. 14 /\ stage' = stage + 1
      BY <1>3, StageOfCleared DEF SleepSecond, LifeTypeOK
    <3> QED
      BY <3>1, StageOfCleared
  <2> QED
    BY <1>3, <2>1, <2>2 DEF SleepSecond, LifeTypeOK, startVars
<1>4. CASE ClearServer
  <2>1. stage = 15 /\ stage' = 0 /\ stage' \in 0 .. Len(StopOrder) + 1
    BY <1>4, StageOfCleared DEF ClearServer
  <2>2. ~ sleeping'
    BY <1>4, <2>1, StageOfCleared DEF ClearServer, LifeTypeOK
  <2> QED
    BY <1>4, <2>1, <2>2 DEF ClearServer, LifeTypeOK, startVars
<1> QED
  BY <1>1, <1>2, <1>3, <1>4 DEF Handler

LEMMA ThreadType ==
  ASSUME LifeTypeOK, NEW k \in Kind, ThreadStep(k)
  PROVE  LifeTypeOK'
<1>1. ready' \in [Kind -> BOOLEAN]
  BY DEF ThreadStep, ThreadStarts, ThreadEnds, Recv, PacketArrives, EnterDrain,
         LeaveDrain, WakeFromPause, LifeTypeOK
<1>2. late' \in [Kind -> 0 .. MaxLate]
  BY Kinds DEF ThreadStep, ThreadStarts, ThreadEnds, Recv, PacketArrives, EnterDrain,
         LeaveDrain, WakeFromPause, LifeTypeOK
<1>3. PICK where \in {"running", "ended", "recv", "drain", "pause"} : Becomes(k, where)
  BY DEF ThreadStep, ThreadStarts, ThreadEnds, Recv, PacketArrives, EnterDrain,
         LeaveDrain, WakeFromPause
<1>4. thread' \in [Kind -> {"none", "created", "running", "recv", "drain", "pause",
                             "ended"}]
  BY <1>3 DEF Becomes, LifeTypeOK
<1> QED
  BY <1>1, <1>2, <1>3, <1>4 DEF Becomes, LifeTypeOK, startVars, handlerVars

LEMMA LifeStepType == LifeTypeOK /\ [LifeNext]_lifeVars => LifeTypeOK'
<1> SUFFICES ASSUME LifeTypeOK, [LifeNext]_lifeVars PROVE LifeTypeOK'
  OBVIOUS
<1>1. CASE ClockMoves
  <2>1. cleanTime' \in BOOLEAN
    BY <1>1 DEF ClockMoves
  <2> QED
    BY <1>1, <2>1 DEF ClockMoves, LifeTypeOK, startVars, handlerVars
<1>2. CASE UNCHANGED lifeVars
  BY <1>2 DEF lifeVars, LifeTypeOK, startVars, handlerVars
<1> QED
  BY <1>1, <1>2, StartType, HandlerType, ThreadType DEF LifeNext

(* Threads, flags and the progress of start() and of the handler are what  *)
(* their types say; in particular no thread is later than the code allows. *)
THEOREM LifecycleTypeCorrect == LifeSpec => []LifeTypeOK
BY LifeInitType, LifeStepType, PTL DEF LifeSpec

-----------------------------------------------------------------------------
(* How far start() and the handler are, and what follows for the threads.  *)

\* start() has set the flag of k; it has also seen that k is ready.
Passed(k) == mainPc \in {"loads", "loop", "exited"} \/ SpawnPlace(k) < mainAt
Raised(k) == Passed(k) \/ (SpawnPlace(k) = mainAt /\ mainPc \in {"create", "await"})

\* The handler has been through the stage of k.
Cleared(k) == stage # 0 /\ (StageOf(k) < stage \/ (StageOf(k) = stage /\ sleeping))

\* The thread never works on its ring again, once its flag is down and the
\* clock has stopped.
Gone(k) == thread[k] \in {"ended", "drain", "pause"}

\* The threads that have to be gone before the flag of b comes down.
Before(a, b) ==
  b \in Managers \cup Flushers /\ (a = "timer" \/ <<a, b>> \in FeedsInto)

Spawning ==
  \A k \in Kind :
    /\ thread[k] # "none" => Raised(k)
    /\ k \notin Statistics /\ Passed(k) => thread[k] \notin {"none", "created"}
    /\ ready[k] => thread[k] \notin {"none", "created"}
    /\ mainPc = "create" /\ Current = k => thread[k] = "none"

Whereabouts ==
  \A k \in Kind :
    /\ thread[k] = "ended" => ~ flag[k]
    /\ thread[k] = "recv" => k \in Agents
    /\ thread[k] \in {"drain", "pause"} => k \in {"tcpSM", "udpSM"}

\* A second after its stage a thread may still run, but not two.
Handling ==
  /\ stage # 0 => mainPc # "exited"
  /\ \A k \in Kind : Cleared(k) =>
       /\ ~ flag[k]
       /\ k \in Core /\ Passed(k) /\ thread[k] = "running" =>
            late[k] >= stage - StageOf(k)

\* A flag that comes down finds the flags before it down and their threads
\* gone.
Downstream ==
  \A a, b \in Kind :
    Before(a, b) /\ Raised(b) /\ ~ flag[b] => ~ flag[a] /\ Gone(a)

AfterStop ==
  /\ ~ serverFlag \/ stage # 0 => signals > 0
  /\ ~ serverFlag => \A k \in Kind : flag[k] => k \in outlives
  /\ mainPc = "exited" => ~ serverFlag
  /\ mainPc \in {"loop", "exited"} /\ stage = 0 =>
       \A k \in Kind \cap Core : flag[k] \/ Gone(k)

LifeInv ==
  LifeTypeOK /\ Spawning /\ Whereabouts /\ Handling /\ Downstream /\ AfterStop

(* The threads before b are spawned before it, and two stages of the       *)
(* handler or more lie between them.                                       *)
LEMMA BeforeIs ==
  ASSUME NEW a \in Kind, NEW b \in Kind, Before(a, b)
  PROVE  /\ SpawnPlace(a) < SpawnPlace(b) /\ StageOf(a) + 2 <= StageOf(b)
         /\ a \in Core /\ a \notin Statistics /\ a \notin Agents
BY PlaceIs, StageIs
   DEF Before, FeedsInto, Routers, Managers, Flushers, Core, Agents, Statistics

LEMMA PassedBefore ==
  ASSUME LifeTypeOK, NEW a \in Kind, NEW b \in Kind, SpawnPlace(a) < SpawnPlace(b), Raised(b)
  PROVE  Passed(a)
<1>1. SpawnPlace(a) \in 1 .. 18 /\ SpawnPlace(b) \in 1 .. 18 /\ mainAt \in 1 .. 18
  BY PlaceOfSpawned DEF LifeTypeOK, Configured
<1> QED
  BY <1>1 DEF Raised, Passed

LEMMA CoreIs ==
  \A k \in Core : k \notin Statistics /\ k \notin Agents
BY DEF Core, Routers, Managers, Flushers, Agents, Statistics

(* Two seconds after its stage a thread is gone.                           *)
LEMMA GoneInTime ==
  ASSUME LifeInv, MaxLate <= 1, NEW k \in Kind \cap Core, Passed(k), stage # 0,
         StageOf(k) + 2 <= stage
  PROVE  Gone(k)
<1>1. thread[k] \notin {"none", "created", "recv"}
  BY CoreIs DEF LifeInv, Spawning, Whereabouts
<1>2. Cleared(k)
  BY StageOfCleared DEF Cleared, LifeInv, LifeTypeOK
<1>3. thread[k] # "running"
  <2>1. late[k] <= 1
    BY Kinds DEF LifeInv, LifeTypeOK
  <2>2. stage \in Int /\ StageOf(k) \in Int /\ late[k] \in Int
    BY StageOfCleared, Kinds DEF LifeInv, LifeTypeOK
  <2> QED
    BY <1>2, <2>1, <2>2 DEF LifeInv, Handling
<1> QED
  BY <1>1, <1>3 DEF Gone, LifeInv, LifeTypeOK

-----------------------------------------------------------------------------
(* The steps of start().                                                   *)

LEMMA CurrentIs ==
  ASSUME LifeTypeOK
  PROVE  /\ Current \in Kind /\ SpawnPlace(Current) = mainAt
         /\ \A k \in Kind : SpawnPlace(k) = mainAt => k = Current
BY PlaceOfSpawned DEF LifeTypeOK, Current, Configured

LEMMA NextKindIs ==
  ASSUME LifeTypeOK, mainPc \in {"spawn", "await", "create"}, NextKind
  PROVE  /\ mainPc' \in {"spawn", "loads"}
         /\ \A k \in Kind : /\ Passed(k)' <=> Passed(k) \/ k = Current
                            /\ Raised(k)' <=> Passed(k)'
<1>1. mainPc' \in {"spawn", "loads"} /\ mainAt' \in Configured
  BY NextKindType
<1>2. mainAt \in 1 .. 18 /\ mainAt' \in 1 .. 18
  BY <1>1, PlaceOfSpawned DEF LifeTypeOK, Configured
<1>3. ASSUME NEW k \in Kind PROVE Passed(k)' <=> Passed(k) \/ k = Current
  <2>1. SpawnPlace(k) \in 1 .. 18 /\ SpawnPlace(k) \in Configured
    BY PlaceOfSpawned DEF Configured
  <2>2. Passed(k) \/ k = Current <=> SpawnPlace(k) <= mainAt
    BY <1>2, <2>1, CurrentIs DEF Passed
  <2>3. Passed(k)' <=> mainPc' = "loads" \/ SpawnPlace(k) < mainAt'
    BY <1>1 DEF Passed
  <2>4. CASE mainPc' = "loads"
    BY <1>1, <1>2, <2>1, <2>2, <2>3, <2>4 DEF NextKind
  <2>5. CASE mainPc' = "spawn"
    <3>1. mainAt' > mainAt /\ \A i \in Configured : i > mainAt => mainAt' <= i
      BY <2>5 DEF NextKind
    <3>2. SpawnPlace(k) < mainAt' <=> SpawnPlace(k) <= mainAt
      BY <1>2, <2>1, <3>1
    <3> QED
      BY <2>2, <2>3, <2>5, <3>2
  <2> QED
    BY <1>1, <2>4, <2>5
<1>4. \A k \in Kind : Raised(k)' <=> Passed(k)'
  BY <1>1 DEF Raised
<1> QED
  BY <1>1, <1>3, <1>4

(* start() and the handler do not work at the same time.                   *)
LEMMA NotHandling ==
  ASSUME stage' = 0
  PROVE  Handling'
BY DEF Handling, Cleared

LEMMA StartKeepsInv ==
  ASSUME LifeInv, Start
  PROVE  Spawning' /\ Whereabouts' /\ Handling' /\ Downstream' /\ AfterStop'
<1>0. LifeTypeOK /\ Spawning /\ Whereabouts /\ Downstream /\ AfterStop
  BY DEF LifeInv
<1>a. /\ Current \in Kind /\ SpawnPlace(Current) = mainAt
      /\ \A k \in Kind : SpawnPlace(k) = mainAt => k = Current
  BY <1>0, CurrentIs
<1>b. mainAt \in 1 .. 18 /\ \A k \in Kind : SpawnPlace(k) \in 1 .. 18
  BY <1>0, PlaceOfSpawned DEF LifeTypeOK, Configured
<1>c. \A a, b \in Kind : Before(a, b) => b \notin Statistics
  BY CoreIs DEF Before, Core
<1>1. CASE SkipStatistics
  <2>1. /\ stage = 0 /\ mainPc = "spawn" /\ Current \in Statistics /\ NextKind
        /\ UNCHANGED <<flag, serverFlag, thread, ready, stage, signals, outlives>>
    BY <1>1 DEF SkipStatistics, InStart, handlerVars
  <2>2. /\ mainPc' \in {"spawn", "loads"}
        /\ \A k \in Kind : /\ Passed(k)' <=> Passed(k) \/ k = Current
                           /\ Raised(k)' <=> Passed(k)'
    BY <1>0, <2>1, NextKindIs
  <2>3. \A k \in Kind : Raised(k) <=> Passed(k)
    BY <2>1 DEF Raised
  <2>4. Spawning'
    BY <1>0, <2>1, <2>2, <2>3 DEF Spawning
  <2>5. Whereabouts'
    BY <1>0, <2>1 DEF Whereabouts
  <2>6. Downstream'
    BY <1>0, <1>c, <2>1, <2>2, <2>3 DEF Downstream, Gone
  <2>7. AfterStop'
    BY <1>0, <2>1, <2>2 DEF AfterStop
  <2> QED
    BY <2>1, <2>4, <2>5, <2>6, <2>7, NotHandling
<1>2. CASE StatisticsWanted
  <2>1. /\ stage = 0 /\ mainPc = "spawn" /\ mainPc' = "raise" /\ mainAt' = mainAt
        /\ UNCHANGED <<flag, serverFlag, thread, ready, stage, signals, outlives>>
    BY <1>2 DEF StatisticsWanted, InStart, handlerVars
  <2>2. \A k \in Kind : (Passed(k)' <=> Passed(k)) /\ (Raised(k)' <=> Raised(k))
    BY <2>1 DEF Passed, Raised
  <2>4. Spawning'
    BY <1>0, <2>1, <2>2 DEF Spawning
  <2>5. Whereabouts'
    BY <1>0, <2>1 DEF Whereabouts
  <2>6. Downstream'
    BY <1>0, <2>1, <2>2 DEF Downstream, Gone
  <2>7. AfterStop'
    BY <1>0, <2>1 DEF AfterStop
  <2> QED
    BY <2>1, <2>4, <2>5, <2>6, <2>7, NotHandling
<1>3. ASSUME stage = 0, mainPc \in {"spawn", "raise"}, Raise
      PROVE  Spawning' /\ Whereabouts' /\ Handling' /\ Downstream' /\ AfterStop'
  <2>1. /\ mainPc' = "create" /\ mainAt' = mainAt
        /\ UNCHANGED <<serverFlag, thread, ready, stage, signals>>
    BY <1>3 DEF Raise, handlerVars
  <2>2. \A k \in Kind : /\ k = Current => flag'[k]
                        /\ k # Current => (flag'[k] <=> flag[k])
    BY <1>0, <1>3 DEF Raise, LifeTypeOK
  <2>3. outlives \subseteq outlives' /\ (signals > 0 => Current \in outlives')
    BY <1>3 DEF Raise
  <2>4. \A k \in Kind : /\ Passed(k)' <=> Passed(k)
                        /\ Raised(k)' <=> Raised(k) \/ k = Current
    BY <1>3, <1>a, <2>1 DEF Passed, Raised
  <2>5. ~ Raised(Current) /\ Current' = Current
    BY <1>3, <1>a, <1>b, <2>1 DEF Passed, Raised, Current
  <2>6. thread[Current] = "none"
    BY <1>0, <1>a, <2>5 DEF Spawning
  <2>7. Spawning'
    BY <1>0, <2>1, <2>4, <2>5, <2>6 DEF Spawning
  <2>8. Whereabouts'
    BY <1>0, <2>1, <2>2, <2>6 DEF Whereabouts
  <2>9. Downstream'
    <3> SUFFICES ASSUME NEW a \in Kind, NEW b \in Kind,
                        Before(a, b), Raised(b)', ~ flag'[b]
                 PROVE  ~ flag'[a] /\ Gone(a)
      BY <2>1 DEF Downstream, Gone
    <3>1. b # Current /\ Raised(b)
      BY <2>2, <2>4
    <3>2. Passed(a)
      BY <1>0, <3>1, BeforeIs, PassedBefore
    <3>3. a # Current
      BY <2>5, <3>2 DEF Raised
    <3> QED
      BY <1>0, <2>2, <3>1, <3>3 DEF Downstream
  <2>10. AfterStop'
    BY <1>0, <1>3, <2>1, <2>2, <2>3 DEF AfterStop
  <2> QED
    BY <1>3, <2>1, <2>7, <2>8, <2>9, <2>10, NotHandling
<1>4. CASE CreateThread
  <2>1. /\ stage = 0 /\ mainPc = "create"
        /\ thread' = [thread EXCEPT ![Current] = "created"]
        /\ UNCHANGED <<flag, serverFlag, ready, stage, signals, outlives>>
    BY <1>4 DEF CreateThread, InStart, handlerVars
  <2>2. \A k \in Kind : thread'[k] = IF k = Current THEN "created" ELSE thread[k]
    BY <1>0, <2>1 DEF LifeTypeOK
  <2>3. thread[Current] = "none" /\ ~ ready[Current]
    BY <1>0, <1>a, <2>1 DEF Spawning
  <2>4. \A k \in Kind : Raised(k) <=> Passed(k) \/ k = Current
    BY <1>a, <2>1 DEF Raised
  <2>5. /\ mainPc' \in {"spawn", "loads", "await"}
        /\ \A k \in Kind : Raised(k)' <=> Raised(k)
        /\ \A k \in Kind : Passed(k)' => Passed(k) \/ (k = Current /\ k \in Statistics)
    <3>1. CASE Current \in Statistics
      <4>1. NextKind
        BY <1>4, <3>1 DEF CreateThread
      <4>2. /\ mainPc' \in {"spawn", "loads"}
            /\ \A k \in Kind : /\ Passed(k)' <=> Passed(k) \/ k = Current
                               /\ Raised(k)' <=> Passed(k)'
        BY <1>0, <2>1, <4>1, NextKindIs
      <4> QED
        BY <2>4, <3>1, <4>2
    <3>2. CASE Current \notin Statistics
      <4>1. mainPc' = "await" /\ mainAt' = mainAt
        BY <1>4, <3>2 DEF CreateThread
      <4> QED
        BY <2>1, <4>1 DEF Raised, Passed
    <3> QED
      BY <3>1, <3>2
  <2>6. ~ Passed(Current)
    BY <1>a, <1>b, <2>1 DEF Passed
  <2>7. Spawning'
    BY <1>0, <2>1, <2>2, <2>3, <2>4, <2>5, <2>6 DEF Spawning
  <2>8. Whereabouts'
    BY <1>0, <2>1, <2>2 DEF Whereabouts
  <2>9. Downstream'
    BY <1>0, <2>1, <2>2, <2>3, <2>5 DEF Downstream, Gone
  <2>10. AfterStop'
    BY <1>0, <2>1, <2>5 DEF AfterStop
  <2> QED
    BY <2>1, <2>7, <2>8, <2>9, <2>10, NotHandling
<1>5. CASE AwaitReady
  <2>1. /\ stage = 0 /\ mainPc = "await" /\ ready[Current] /\ NextKind
        /\ UNCHANGED <<flag, serverFlag, thread, ready, stage, signals, outlives>>
    BY <1>5 DEF AwaitReady, InStart, handlerVars
  <2>2. /\ mainPc' \in {"spawn", "loads"}
        /\ \A k \in Kind : /\ Passed(k)' <=> Passed(k) \/ k = Current
                           /\ Raised(k)' <=> Passed(k)'
    BY <1>0, <2>1, NextKindIs
  <2>3. \A k \in Kind : Raised(k)' <=> Raised(k)
    BY <1>a, <2>1, <2>2 DEF Raised
  <2>4. thread[Current] \notin {"none", "created"}
    BY <1>0, <1>a, <2>1 DEF Spawning
  <2>5. Spawning'
    BY <1>0, <2>1, <2>2, <2>3, <2>4 DEF Spawning
  <2>6. Whereabouts'
    BY <1>0, <2>1 DEF Whereabouts
  <2>7. Downstream'
    BY <1>0, <2>1, <2>3 DEF Downstream, Gone
  <2>8. AfterStop'
    BY <1>0, <2>1, <2>2 DEF AfterStop
  <2> QED
    BY <2>1, <2>5, <2>6, <2>7, <2>8, NotHandling
<1>6. CASE LoadMaps
  <2>1. /\ stage = 0 /\ mainPc = "loads" /\ mainPc' = "loop" /\ mainAt' = mainAt
        /\ \A k \in Kind : ~ Overdue(k)
        /\ UNCHANGED <<flag, serverFlag, thread, ready, stage, signals, outlives>>
    BY <1>6 DEF LoadMaps, InStart, handlerVars
  <2>2. \A k \in Kind : Passed(k) /\ Passed(k)' /\ Raised(k) /\ Raised(k)'
    BY <2>1 DEF Passed, Raised
  <2>3. Spawning'
    BY <1>0, <2>1, <2>2 DEF Spawning
  <2>4. Whereabouts'
    BY <1>0, <2>1 DEF Whereabouts
  <2>5. Downstream'
    BY <1>0, <2>1, <2>2 DEF Downstream, Gone
  <2>6. ASSUME NEW k \in Kind \cap Core PROVE flag[k] \/ Gone(k)
    <3>1. k \notin Statistics /\ thread[k] \notin {"none", "created", "recv"}
      BY <1>0, <2>2, CoreIs DEF Spawning, Whereabouts
    <3>2. thread[k] = "running" => flag[k]
      BY <2>1, <3>1 DEF Overdue
    <3> QED
      BY <1>0, <3>1, <3>2 DEF Gone, LifeTypeOK
  <2>7. AfterStop'
    BY <1>0, <2>1, <2>6 DEF AfterStop, Gone
  <2> QED
    BY <2>1, <2>3, <2>4, <2>5, <2>7, NotHandling
<1>7. CASE MainEnds
  <2>1. /\ stage = 0 /\ mainPc = "loop" /\ mainPc' = "exited" /\ mainAt' = mainAt
        /\ ~ serverFlag
        /\ UNCHANGED <<flag, serverFlag, thread, ready, stage, signals, outlives>>
    BY <1>7 DEF MainEnds, InStart, handlerVars
  <2>2. \A k \in Kind : Passed(k) /\ Passed(k)' /\ Raised(k) /\ Raised(k)'
    BY <2>1 DEF Passed, Raised
  <2>3. Spawning'
    BY <1>0, <2>1, <2>2 DEF Spawning
  <2>4. Whereabouts'
    BY <1>0, <2>1 DEF Whereabouts
  <2>5. Downstream'
    BY <1>0, <2>1, <2>2 DEF Downstream, Gone
  <2>6. AfterStop'
    BY <1>0, <2>1 DEF AfterStop, Gone
  <2> QED
    BY <2>1, <2>3, <2>4, <2>5, <2>6, NotHandling
<1>8. CASE EnableServer \/ ReadConfiguration
  <2>1. /\ stage = 0 /\ mainPc \in {"main", "config"} /\ mainPc' \in {"config", "spawn"}
        /\ mainAt' = mainAt /\ (serverFlag' \/ serverFlag' = serverFlag)
        /\ UNCHANGED <<flag, thread, ready, stage, signals, outlives>>
    BY <1>8 DEF EnableServer, ReadConfiguration, InStart, handlerVars
  <2>2. \A k \in Kind : (Passed(k)' <=> Passed(k)) /\ (Raised(k)' <=> Raised(k))
    BY <2>1 DEF Passed, Raised
  <2>3. Spawning'
    BY <1>0, <2>1, <2>2 DEF Spawning
  <2>4. Whereabouts'
    BY <1>0, <2>1 DEF Whereabouts
  <2>5. Downstream'
    BY <1>0, <2>1, <2>2 DEF Downstream, Gone
  <2>6. AfterStop'
    BY <1>0, <2>1 DEF AfterStop
  <2> QED
    BY <2>1, <2>3, <2>4, <2>5, <2>6, NotHandling
<1> QED
  BY <1>1, <1>2, <1>3, <1>4, <1>5, <1>6, <1>7, <1>8
     DEF Start, RaiseTimer, RaiseRouter, RaiseManager, RaiseFlusher, RaiseAgent,
         RaiseStatistics, InStart

-----------------------------------------------------------------------------
(* The steps of the handler.                                               *)

LEMMA HandlerKeepsInv ==
  ASSUME LifeInv, MaxLate <= 1, SignalArrives \/ Handler
  PROVE  Spawning' /\ Whereabouts' /\ Handling' /\ Downstream' /\ AfterStop'
<1>0. LifeTypeOK /\ Spawning /\ Whereabouts /\ Handling /\ Downstream /\ AfterStop
  BY DEF LifeInv
<1>a. UNCHANGED <<mainPc, mainAt, thread, ready>>
  BY DEF SignalArrives, Handler, ClearFlags, SleepSecond, ClearServer, startVars
<1>b. \A k \in Kind : (Passed(k)' <=> Passed(k)) /\ (Raised(k)' <=> Raised(k))
  BY <1>a DEF Passed, Raised
<1>c. Spawning'
  BY <1>0, <1>a, <1>b DEF Spawning, Current
<1>1. CASE SignalArrives
  <2>1. /\ stage = 0 /\ mainPc # "exited" /\ stage' = 1 /\ signals' = signals + 1
        /\ UNCHANGED <<flag, serverFlag, sleeping, late, outlives>>
    BY <1>1 DEF SignalArrives, Exited
  <2>2. ~ sleeping
    BY <1>0, <2>1, StageOfCleared DEF LifeTypeOK
  <2>3. \A k \in Kind : ~ Cleared(k)'
    BY <2>1, <2>2, StageOfCleared DEF Cleared
  <2>4. Handling'
    BY <1>a, <2>1, <2>3 DEF Handling
  <2>5. Whereabouts'
    BY <1>0, <1>a, <2>1 DEF Whereabouts
  <2>6. Downstream'
    BY <1>0, <1>a, <1>b, <2>1 DEF Downstream, Gone
  <2>7. AfterStop'
    BY <1>0, <1>a, <2>1 DEF AfterStop, LifeTypeOK
  <2> QED
    BY <1>c, <2>4, <2>5, <2>6, <2>7
<1>2. CASE ClearFlags
  <2>1. /\ stage \in 1 .. 14 /\ ~ sleeping /\ sleeping'
        /\ outlives' = outlives \ StopOrder[stage]
        /\ UNCHANGED <<serverFlag, stage, signals, late>>
    BY <1>2, StageOfCleared DEF ClearFlags
  <2>2. \A k \in Kind : flag'[k] <=> flag[k] /\ StageOf(k) # stage
    BY <1>2, <2>1, StageOfCleared DEF ClearFlags
  <2>3. \A k \in Kind : Cleared(k)' <=> Cleared(k) \/ StageOf(k) = stage
    BY <2>1, StageOfCleared DEF Cleared
  <2>4. Handling'
    <3> SUFFICES ASSUME NEW k \in Kind, Cleared(k)'
                 PROVE  /\ ~ flag'[k]
                        /\ k \in Core /\ Passed(k) /\ thread[k] = "running" =>
                             late[k] >= stage - StageOf(k)
      BY <1>0, <1>a, <1>b, <2>1 DEF Handling
    <3>1. CASE Cleared(k)
      BY <1>0, <2>2, <3>1 DEF Handling
    <3>2. CASE StageOf(k) = stage
      <4>1. late[k] >= 0 /\ stage - StageOf(k) = 0
        BY <1>0, <2>1, <3>2, Kinds DEF LifeTypeOK
      <4> QED
        BY <2>2, <3>2, <4>1
    <3> QED
      BY <2>3, <3>1, <3>2
  <2>5. Whereabouts'
    BY <1>0, <1>a, <2>2 DEF Whereabouts
  <2>6. Downstream'
    <3> SUFFICES ASSUME NEW a \in Kind, NEW b \in Kind,
                        Before(a, b), Raised(b), ~ flag'[b]
                 PROVE  ~ flag'[a] /\ Gone(a)
      BY <1>a, <1>b DEF Downstream, Gone
    <3>1. CASE ~ flag[b]
      BY <1>0, <2>2, <3>1 DEF Downstream
    <3>2. CASE StageOf(b) = stage
      <4>1. /\ SpawnPlace(a) < SpawnPlace(b) /\ StageOf(a) + 2 <= stage
            /\ a \in Core
        BY <3>2, BeforeIs
      <4>2. Passed(a)
        BY <1>0, <4>1, PassedBefore
      <4>3. Gone(a)
        BY <2>1, <4>1, <4>2, GoneInTime
      <4>4. Cleared(a)
        BY <2>1, <4>1, StageOfCleared DEF Cleared
      <4> QED
        BY <1>0, <2>2, <4>3, <4>4 DEF Handling
    <3> QED
      BY <2>2, <3>1, <3>2
  <2>7. AfterStop'
    <3>1. stage # 0 /\ stage' # 0
      BY <2>1
    <3>2. \A k \in Kind : k \in outlives /\ StageOf(k) # stage => k \in outlives'
      BY <2>1, StageOfCleared
    <3> QED
      BY <1>0, <1>a, <2>1, <2>2, <3>1, <3>2 DEF AfterStop
  <2> QED
    BY <1>c, <2>4, <2>5, <2>6, <2>7
<1>3. CASE SleepSecond
  <2>1. /\ sleeping /\ ~ sleeping' /\ stage' = stage + 1 /\ stage \in 1 .. 14
        /\ UNCHANGED <<flag, serverFlag, signals, outlives>>
    BY <1>0, <1>3, StageOfCleared DEF SleepSecond, LifeTypeOK
  <2>2. \A k \in Kind : late'[k] = IF Overdue(k) THEN late[k] + 1 ELSE late[k]
    BY <1>3 DEF SleepSecond
  <2>3. \A k \in Kind : Cleared(k)' <=> Cleared(k)
    BY <2>1, StageOfCleared DEF Cleared
  <2>4. Handling'
    <3> SUFFICES ASSUME NEW k \in Kind, Cleared(k)
                 PROVE  /\ ~ flag[k]
                        /\ k \in Core /\ Passed(k) /\ thread[k] = "running" =>
                             late'[k] >= (stage + 1) - StageOf(k)
      BY <1>0, <1>a, <1>b, <2>1, <2>3 DEF Handling
    <3>1. ~ flag[k]
      BY <1>0 DEF Handling
    <3>2. ASSUME k \in Core, Passed(k), thread[k] = "running"
          PROVE  late'[k] >= (stage + 1) - StageOf(k)
      <4>1. late'[k] = late[k] + 1
        BY <2>2, <3>1, <3>2, CoreIs DEF Overdue
      <4>2. late[k] >= stage - StageOf(k)
        BY <1>0, <3>2 DEF Handling
      <4>3. late[k] \in Int /\ StageOf(k) \in Int /\ stage \in Int
        BY <1>0, <2>1, StageOfCleared, Kinds DEF LifeTypeOK
      <4> QED
        BY <4>1, <4>2, <4>3
    <3> QED
      BY <3>1, <3>2
  <2>5. Whereabouts'
    BY <1>0, <1>a, <2>1 DEF Whereabouts
  <2>6. Downstream'
    BY <1>0, <1>a, <1>b, <2>1 DEF Downstream, Gone
  <2>7. AfterStop'
    BY <1>0, <1>a, <2>1 DEF AfterStop
  <2> QED
    BY <1>c, <2>4, <2>5, <2>6, <2>7
<1>4. CASE ClearServer
  <2>1. /\ stage = 15 /\ stage' = 0 /\ ~ serverFlag'
        /\ UNCHANGED <<flag, sleeping, signals, late, outlives>>
    BY <1>4, StageOfCleared DEF ClearServer
  <2>2. \A k \in Kind : Cleared(k)
    BY <2>1, StageOfCleared DEF Cleared
  <2>3. \A k \in Kind : ~ flag[k]
    BY <1>0, <2>2 DEF Handling
  <2>4. Whereabouts'
    BY <1>0, <1>a, <2>1 DEF Whereabouts
  <2>5. Downstream'
    BY <1>0, <1>a, <1>b, <2>1 DEF Downstream, Gone
  <2>6. ASSUME mainPc \in {"loop", "exited"}, NEW k \in Kind \cap Core PROVE Gone(k)
    <3>1. Passed(k)
      BY <2>6 DEF Passed
    <3>2. StageOf(k) + 2 <= 15
      BY StageIs DEF Core, Routers, Managers, Flushers
    <3> QED
      BY <2>1, <3>1, <3>2, GoneInTime
  <2>7. AfterStop'
    BY <1>0, <1>a, <2>1, <2>3, <2>6 DEF AfterStop, Gone, Handling
  <2> QED
    BY <1>c, <2>1, <2>4, <2>5, <2>7, NotHandling
<1> QED
  BY <1>1, <1>2, <1>3, <1>4 DEF Handler

-----------------------------------------------------------------------------
(* The steps of the threads.                                               *)

LEMMA ThreadKeepsInv ==
  ASSUME LifeInv, NEW k \in Kind, ThreadStep(k)
  PROVE  Spawning' /\ Whereabouts' /\ Handling' /\ Downstream' /\ AfterStop'
<1>0. LifeTypeOK /\ Spawning /\ Whereabouts /\ Handling /\ Downstream /\ AfterStop
  BY DEF LifeInv
<1>1. PICK where \in {"running", "ended", "recv", "drain", "pause"} : Becomes(k, where)
  BY DEF ThreadStep, ThreadStarts, ThreadEnds, Recv, PacketArrives, EnterDrain,
         LeaveDrain, WakeFromPause
<1>2. /\ mainPc # "exited"
      /\ UNCHANGED <<flag, serverFlag, mainPc, mainAt, stage, sleeping, signals,
                     outlives>>
      /\ \A j \in Kind : thread'[j] = IF j = k THEN where ELSE thread[j]
  BY <1>0, <1>1 DEF Becomes, Exited, startVars, handlerVars, LifeTypeOK
<1>3. /\ \A j \in Kind : (Passed(j)' <=> Passed(j)) /\ (Raised(j)' <=> Raised(j))
      /\ \A j \in Kind : Cleared(j)' <=> Cleared(j)
      /\ Current' = Current
  BY <1>2 DEF Passed, Raised, Cleared, Current
<1>4. thread[k] # "none"
  BY DEF ThreadStep, ThreadStarts, ThreadEnds, Recv, PacketArrives, EnterDrain,
         LeaveDrain, WakeFromPause
<1>5. \A j \in Kind : ready'[j] => ready[j] \/ j = k
  BY <1>0 DEF ThreadStep, ThreadStarts, ThreadEnds, Recv, PacketArrives, EnterDrain,
              LeaveDrain, WakeFromPause, LifeTypeOK
<1>6. Spawning'
  BY <1>0, <1>2, <1>3, <1>4, <1>5 DEF Spawning
<1>7. /\ where = "ended" => ~ flag[k]
      /\ where = "recv" => k \in Agents
      /\ where \in {"drain", "pause"} => k \in {"tcpSM", "udpSM"}
      /\ where = "running" =>
           \/ thread[k] = "created"
           \/ k \in Agents
           \/ thread[k] = "pause" /\ flag[k]
  <2>1. thread'[k] = where
    BY <1>2
  <2>2. CASE ThreadStarts(k) \/ ThreadEnds(k) \/ Recv(k) \/ EnterDrain(k)
    BY <1>0, <2>1, <2>2
       DEF ThreadStarts, ThreadEnds, Recv, EnterDrain, Becomes, LifeTypeOK
  <2>3. CASE PacketArrives(k)
    BY <1>0, <2>1, <2>3 DEF PacketArrives, Becomes, LifeTypeOK, Whereabouts
  <2>4. CASE LeaveDrain(k) \/ WakeFromPause(k)
    BY <1>0, <2>1, <2>4 DEF LeaveDrain, WakeFromPause, Becomes, LifeTypeOK, Whereabouts
  <2> QED
    BY <2>2, <2>3, <2>4 DEF ThreadStep
<1>8. Whereabouts'
  BY <1>0, <1>2, <1>7 DEF Whereabouts
<1>9. Gone(k) => flag[k] \/ where \in {"ended", "pause"}
  <2>1. thread'[k] = where
    BY <1>2
  <2>2. Gone(k) => LeaveDrain(k) \/ WakeFromPause(k)
    BY DEF Gone, ThreadStep, ThreadStarts, ThreadEnds, Recv, PacketArrives,
           EnterDrain
  <2> QED
    BY <1>0, <2>1, <2>2 DEF LeaveDrain, WakeFromPause, Becomes, LifeTypeOK
<1>10. Handling'
  <2> SUFFICES ASSUME NEW j \in Kind, Cleared(j), j \in Core, Passed(j),
                      thread'[j] = "running"
               PROVE  late'[j] >= stage - StageOf(j)
    BY <1>0, <1>2, <1>3 DEF Handling
  <2>1. ~ flag[j] /\ j \notin Agents /\ j \notin Statistics
    BY <1>0, CoreIs DEF Handling
  <2>2. j # k
    BY <1>0, <1>2, <1>7, <2>1 DEF Spawning
  <2>3. thread[j] = "running" /\ late'[j] = late[j]
    BY <1>0, <1>2, <2>2
       DEF ThreadStep, ThreadStarts, ThreadEnds, Recv, PacketArrives, EnterDrain,
           LeaveDrain, WakeFromPause, LifeTypeOK
  <2> QED
    BY <1>0, <2>3 DEF Handling
<1>11. Downstream'
  <2> SUFFICES ASSUME NEW a \in Kind, NEW b \in Kind,
                      Before(a, b), Raised(b), ~ flag[b]
               PROVE  ~ flag[a] /\ Gone(a)'
    BY <1>2, <1>3 DEF Downstream
  <2>1. ~ flag[a] /\ Gone(a)
    BY <1>0 DEF Downstream
  <2> QED
    BY <1>2, <1>9, <2>1 DEF Gone
<1>12. AfterStop'
  <2>1. ASSUME NEW j \in Kind \cap Core, flag[j] \/ Gone(j) PROVE flag[j] \/ Gone(j)'
    BY <1>2, <1>9, <2>1 DEF Gone
  <2>2. UNCHANGED <<serverFlag, stage, signals, mainPc, outlives, flag>>
    BY <1>2
  <2>3. /\ ~ serverFlag' \/ stage' # 0 => signals' > 0
        /\ ~ serverFlag' => \A j \in Kind : flag'[j] => j \in outlives'
        /\ mainPc' = "exited" => ~ serverFlag'
    BY <1>0, <2>2 DEF AfterStop
  <2>4. mainPc' \in {"loop", "exited"} /\ stage' = 0 =>
          \A j \in Kind \cap Core : flag'[j] \/ Gone(j)'
    BY <1>0, <2>1, <2>2 DEF AfterStop
  <2> QED
    BY <2>3, <2>4 DEF AfterStop
<1> QED
  BY <1>6, <1>8, <1>10, <1>11, <1>12

-----------------------------------------------------------------------------
LEMMA LifeInvInit == LifeInit => LifeInv
<1> SUFFICES ASSUME LifeInit PROVE LifeInv
  OBVIOUS
<1>1. /\ stage = 0 /\ ~ sleeping /\ signals = 0 /\ serverFlag
      /\ mainPc = "main" /\ mainAt = 1
      /\ \A k \in Kind : thread[k] = "none" /\ ~ ready[k]
  BY DEF LifeInit
<1>2. ASSUME NEW k \in Kind PROVE ~ Passed(k) /\ ~ Raised(k) /\ ~ Cleared(k)
  <2>1. SpawnPlace(k) \in 1 .. 18
    BY PlaceOfSpawned
  <2>2. ~ (SpawnPlace(k) < mainAt)
    BY <1>1, <2>1
  <2> QED
    BY <1>1, <2>2 DEF Passed, Raised, Cleared
<1>3. Spawning /\ Whereabouts /\ Downstream
  BY <1>1, <1>2 DEF Spawning, Whereabouts, Downstream
<1>4. Handling /\ AfterStop
  BY <1>1, <1>2 DEF Handling, AfterStop
<1> QED
  BY <1>3, <1>4, LifeInitType DEF LifeInv

LEMMA LifeInvStep ==
  ASSUME MaxLate <= 1
  PROVE  LifeInv /\ [LifeNext]_lifeVars => LifeInv'
<1> SUFFICES ASSUME LifeInv, [LifeNext]_lifeVars PROVE LifeInv'
  OBVIOUS
<1>1. LifeTypeOK'
  BY LifeStepType DEF LifeInv
<1>2. CASE ClockMoves \/ UNCHANGED lifeVars
  <2>1. UNCHANGED <<flag, serverFlag, thread, ready, mainPc, mainAt, stage, sleeping,
                    signals, late, outlives>>
    BY <1>2 DEF ClockMoves, lifeVars, startVars, handlerVars
  <2>2. \A k \in Kind : /\ Passed(k)' <=> Passed(k)
                        /\ Raised(k)' <=> Raised(k)
                        /\ Cleared(k)' <=> Cleared(k)
                        /\ Gone(k)' <=> Gone(k)
    BY <2>1 DEF Passed, Raised, Cleared, Gone
  <2>3. Spawning' /\ Whereabouts' /\ Handling'
    BY <2>1, <2>2 DEF LifeInv, Spawning, Whereabouts, Handling, Current
  <2>4. Downstream' /\ AfterStop'
    BY <2>1, <2>2 DEF LifeInv, Downstream, AfterStop
  <2> QED
    BY <1>1, <2>3, <2>4 DEF LifeInv
<1>3. CASE Start
  BY <1>1, <1>3, StartKeepsInv DEF LifeInv
<1>4. CASE SignalArrives \/ Handler
  BY <1>1, <1>4, HandlerKeepsInv DEF LifeInv
<1>5. ASSUME NEW k \in Kind, ThreadStep(k) PROVE LifeInv'
  BY <1>1, <1>5, ThreadKeepsInv DEF LifeInv
<1> QED
  BY <1>2, <1>3, <1>4, <1>5 DEF LifeNext

(* If every thread in its loop looks at its flag within a second, the      *)
(* server stops along its pipeline, whenever the signals come and however  *)
(* many they are (sig_handler and start()): no manager ends before its     *)
(* routers, no flusher before its manager, and exit() cuts none of them    *)
(* off, but for those that start() has spawned behind the handler's back   *)
(* and for managers at their end of the day, in the drain or in the sleep  *)
(* behind it.                                                              *)
THEOREM StopsAlongPipeline == MaxLate <= 1 /\ LifeSpec => []StopsDownstream
<1> SUFFICES ASSUME MaxLate <= 1 PROVE LifeSpec => []StopsDownstream
  OBVIOUS
<1>1. LifeInv => StopsDownstream
  <2> SUFFICES ASSUME LifeInv, NEW a \in Kind, Running(a), ~ LeftBehind(a),
                      \/ \E b \in Kind : <<a, b>> \in FeedsInto /\ thread[b] = "ended"
                      \/ a \in Routers \cup Managers \cup Flushers /\ Exited
               PROVE  FALSE
    BY DEF StopsDownstream
  <2>1. ~ Gone(a)
    BY DEF Running, LeftBehind, Gone
  <2>2. ASSUME NEW b \in Kind, <<a, b>> \in FeedsInto, thread[b] = "ended" PROVE FALSE
    <3>1. Raised(b) /\ ~ flag[b]
      BY <2>2 DEF LifeInv, Spawning, Whereabouts
    <3>2. Before(a, b)
      BY <2>2 DEF Before, FeedsInto, Managers, Flushers
    <3> QED
      BY <2>1, <3>1, <3>2 DEF LifeInv, Downstream
  <2>3. ASSUME a \in Routers \cup Managers \cup Flushers, Exited PROVE FALSE
    <3>1. mainPc = "exited" /\ ~ serverFlag /\ stage = 0 /\ a \in Core
      BY <2>3 DEF Exited, LifeInv, AfterStop, Handling, Core
    <3>2. flag[a]
      BY <2>1, <3>1 DEF LifeInv, AfterStop
    <3>3. a \in outlives
      BY <3>1, <3>2 DEF LifeInv, AfterStop
    <3> QED
      BY <3>3 DEF LeftBehind
  <2> QED
    BY <2>2, <2>3
<1> QED
  BY <1>1, LifeInvInit, LifeInvStep, PTL DEF LifeSpec

-----------------------------------------------------------------------------
(* The times of a report (Reports).  The networks of comparators, first:   *)
(* each comparator only changes the order, and together they sort.         *)

Quadruple == [1 .. 4 -> Int]

LEMMA ReordersAgain ==
  ASSUME NEW u \in Quadruple, NEW v \in Quadruple, NEW w \in Quadruple,
         Reorders(u, v), Reorders(v, w)
  PROVE  Reorders(u, w)
<1>1. PICK p \in [1 .. 4 -> 1 .. 4] :
        /\ \A i, j \in 1 .. 4 : p[i] = p[j] => i = j
        /\ \A i \in 1 .. 4 : v[i] = u[p[i]]
  BY DEF Reorders, Quadruple
<1>2. PICK q \in [1 .. 4 -> 1 .. 4] :
        /\ \A i, j \in 1 .. 4 : q[i] = q[j] => i = j
        /\ \A i \in 1 .. 4 : w[i] = v[q[i]]
  BY DEF Reorders, Quadruple
<1>3. PICK pq \in [1 .. 4 -> 1 .. 4] : \A i \in 1 .. 4 : pq[i] = p[q[i]]
  <2> WITNESS [i \in 1 .. 4 |-> p[q[i]]] \in [1 .. 4 -> 1 .. 4]
  <2> QED
    BY <1>1, <1>2
<1>4. \A i, j \in 1 .. 4 : pq[i] = pq[j] => i = j
  BY <1>1, <1>2, <1>3
<1>5. \A i \in 1 .. 4 : w[i] = u[pq[i]]
  BY <1>1, <1>2, <1>3
<1> QED
  BY <1>3, <1>4, <1>5 DEF Reorders, Quadruple

LEMMA ExchangeIs ==
  ASSUME NEW v \in Quadruple, NEW i \in 1 .. 4, NEW j \in 1 .. 4, i # j
  PROVE  /\ Exchange(v, i, j) \in Quadruple
         /\ Exchange(v, i, j)[i] = IF v[i] > v[j] THEN v[j] ELSE v[i]
         /\ Exchange(v, i, j)[j] = IF v[i] > v[j] THEN v[i] ELSE v[j]
         /\ \A k \in (1 .. 4) \ {i, j} : Exchange(v, i, j)[k] = v[k]
         /\ Reorders(v, Exchange(v, i, j))
<1>1. CASE v[i] > v[j]
  <2>1. Exchange(v, i, j) = [v EXCEPT ![i] = v[j], ![j] = v[i]]
    BY <1>1 DEF Exchange
  <2>2. Exchange(v, i, j) \in Quadruple
    BY <2>1 DEF Quadruple
  <2>3. \A k \in 1 .. 4 : Exchange(v, i, j)[k] =
                            IF k = i THEN v[j] ELSE IF k = j THEN v[i] ELSE v[k]
    BY <2>1 DEF Quadruple
  <2>4. Reorders(v, Exchange(v, i, j))
    <3>1. PICK p \in [1 .. 4 -> 1 .. 4] :
            \A k \in 1 .. 4 : p[k] = IF k = i THEN j ELSE IF k = j THEN i ELSE k
      <4> WITNESS [k \in 1 .. 4 |-> IF k = i THEN j ELSE IF k = j THEN i ELSE k]
                    \in [1 .. 4 -> 1 .. 4]
      <4> QED
        OBVIOUS
    <3>2. \A k, l \in 1 .. 4 : p[k] = p[l] => k = l
      BY <3>1
    <3>3. \A k \in 1 .. 4 : Exchange(v, i, j)[k] = v[p[k]]
      BY <2>3, <3>1
    <3>4. DOMAIN v = 1 .. 4 /\ DOMAIN Exchange(v, i, j) = 1 .. 4
      BY <2>2 DEF Quadruple
    <3> QED
      BY <3>2, <3>3, <3>4 DEF Reorders
  <2> QED
    BY <1>1, <2>2, <2>3, <2>4
<1>2. CASE ~ (v[i] > v[j])
  <2>1. Exchange(v, i, j) = v
    BY <1>2 DEF Exchange
  <2>2. Reorders(v, v)
    <3>1. PICK p \in [1 .. 4 -> 1 .. 4] : \A k \in 1 .. 4 : p[k] = k
      <4> WITNESS [k \in 1 .. 4 |-> k] \in [1 .. 4 -> 1 .. 4]
      <4> QED
        OBVIOUS
    <3>2. DOMAIN v = 1 .. 4
      BY DEF Quadruple
    <3> QED
      BY <3>1, <3>2 DEF Reorders
  <2> QED
    BY <1>2, <2>1, <2>2
<1> QED
  BY <1>1, <1>2

Ascending(v) == \A i, j \in DOMAIN v : i < j => v[i] <= v[j]

LEMMA Swap4Sorts ==
  ASSUME NEW a \in Int, NEW b \in Int, NEW c \in Int, NEW d \in Int
  PROVE  /\ DOMAIN swap4(a, b, c, d) = DOMAIN <<a, b, c, d>>
         /\ Ascending(swap4(a, b, c, d))
         /\ Reorders(<<a, b, c, d>>, swap4(a, b, c, d))
<1> DEFINE v == <<a, b, c, d>>
           v1 == Exchange(v, 1, 2)
           v2 == Exchange(v1, 3, 4)
           v3 == Exchange(v2, 1, 3)
           v4 == Exchange(v3, 2, 4)
           v5 == Exchange(v4, 2, 3)
<1>0. v \in Quadruple /\ swap4(a, b, c, d) = v5
  BY DEF Quadruple, swap4
<1> HIDE DEF v, v1, v2, v3, v4, v5
<1>1. /\ v1 \in Quadruple /\ Reorders(v, v1)
      /\ v1[1] = (IF v[1] > v[2] THEN v[2] ELSE v[1])
      /\ v1[2] = (IF v[1] > v[2] THEN v[1] ELSE v[2])
      /\ v1[3] = v[3] /\ v1[4] = v[4]
  BY <1>0, ExchangeIs DEF v1
<1>2. /\ v2 \in Quadruple /\ Reorders(v1, v2)
      /\ v2[3] = (IF v1[3] > v1[4] THEN v1[4] ELSE v1[3])
      /\ v2[4] = (IF v1[3] > v1[4] THEN v1[3] ELSE v1[4])
      /\ v2[1] = v1[1] /\ v2[2] = v1[2]
  BY <1>1, ExchangeIs DEF v2
<1>3. /\ v3 \in Quadruple /\ Reorders(v2, v3)
      /\ v3[1] = (IF v2[1] > v2[3] THEN v2[3] ELSE v2[1])
      /\ v3[3] = (IF v2[1] > v2[3] THEN v2[1] ELSE v2[3])
      /\ v3[2] = v2[2] /\ v3[4] = v2[4]
  BY <1>2, ExchangeIs DEF v3
<1>4. /\ v4 \in Quadruple /\ Reorders(v3, v4)
      /\ v4[2] = (IF v3[2] > v3[4] THEN v3[4] ELSE v3[2])
      /\ v4[4] = (IF v3[2] > v3[4] THEN v3[2] ELSE v3[4])
      /\ v4[1] = v3[1] /\ v4[3] = v3[3]
  BY <1>3, ExchangeIs DEF v4
<1>5. /\ v5 \in Quadruple /\ Reorders(v4, v5)
      /\ v5[2] = (IF v4[2] > v4[3] THEN v4[3] ELSE v4[2])
      /\ v5[3] = (IF v4[2] > v4[3] THEN v4[2] ELSE v4[3])
      /\ v5[1] = v4[1] /\ v5[4] = v4[4]
  BY <1>4, ExchangeIs DEF v5
<1>6. Reorders(v, v5)
  BY <1>0, <1>1, <1>2, <1>3, <1>4, <1>5, ReordersAgain
<1>7. \A k \in 1 .. 4 : /\ v[k] \in Int /\ v1[k] \in Int /\ v2[k] \in Int
                        /\ v3[k] \in Int /\ v4[k] \in Int /\ v5[k] \in Int
  BY <1>0, <1>1, <1>2, <1>3, <1>4, <1>5 DEF Quadruple
<1>8. v2[1] <= v2[2] /\ v2[3] <= v2[4]
  BY <1>1, <1>2, <1>7
<1>9. /\ v4[1] <= v4[2] /\ v4[1] <= v4[3] /\ v4[1] <= v4[4]
      /\ v4[2] <= v4[4] /\ v4[3] <= v4[4]
  BY <1>3, <1>4, <1>7, <1>8
<1>10. v5[1] <= v5[2] /\ v5[2] <= v5[3] /\ v5[3] <= v5[4]
  BY <1>5, <1>7, <1>9
<1>11. DOMAIN v5 = 1 .. 4 /\ DOMAIN v = 1 .. 4
  BY <1>0, <1>5 DEF Quadruple
<1>12. Ascending(v5)
  BY <1>7, <1>10, <1>11 DEF Ascending
<1> QED
  BY <1>0, <1>6, <1>11, <1>12 DEF v

LEMMA Swap3Sorts ==
  ASSUME NEW a \in Int, NEW b \in Int, NEW c \in Int
  PROVE  /\ DOMAIN swap3(a, b, c) = DOMAIN <<a, b, c>>
         /\ Ascending(swap3(a, b, c))
         /\ Reorders(<<a, b, c>>, swap3(a, b, c))
<1> DEFINE Order(x, y, z) == [i \in 1 .. 3 |-> IF i = 1 THEN x ELSE IF i = 2 THEN y ELSE z]
<1>1. ASSUME NEW x \in 1 .. 3, NEW y \in 1 .. 3, NEW z \in 1 .. 3,
             x # y, y # z, x # z, NEW w, DOMAIN w = 1 .. 3,
             w[1] = <<a, b, c>>[x], w[2] = <<a, b, c>>[y], w[3] = <<a, b, c>>[z]
      PROVE  Reorders(<<a, b, c>>, w)
  <2>1. PICK p \in [1 .. 3 -> 1 .. 3] : p[1] = x /\ p[2] = y /\ p[3] = z
    <3> WITNESS Order(x, y, z) \in [1 .. 3 -> 1 .. 3]
    <3> QED
      OBVIOUS
  <2>2. \A i, j \in 1 .. 3 : p[i] = p[j] => i = j
    BY <1>1, <2>1
  <2>3. \A i \in 1 .. 3 : w[i] = <<a, b, c>>[p[i]]
    BY <1>1, <2>1
  <2> QED
    BY <1>1, <2>1, <2>2, <2>3 DEF Reorders
<1>2. \/ swap3(a, b, c) = <<a, b, c>> /\ a <= b /\ b <= c
      \/ swap3(a, b, c) = <<a, c, b>> /\ a <= c /\ c <= b
      \/ swap3(a, b, c) = <<c, a, b>> /\ c <= a /\ a <= b
      \/ swap3(a, b, c) = <<b, a, c>> /\ b <= a /\ a <= c
      \/ swap3(a, b, c) = <<b, c, a>> /\ b <= c /\ c <= a
      \/ swap3(a, b, c) = <<c, b, a>> /\ c <= b /\ b <= a
  BY DEF swap3
<1>3. DOMAIN swap3(a, b, c) = 1 .. 3 /\ DOMAIN <<a, b, c>> = 1 .. 3
  BY <1>2
<1>4. Ascending(swap3(a, b, c))
  BY <1>2 DEF Ascending
<1>5. Reorders(<<a, b, c>>, swap3(a, b, c))
  BY <1>1, <1>2, <1>3
<1> QED
  BY <1>3, <1>4, <1>5

(* What is made up for a handshake are numbers, and all of it is given in  *)
(* order.                                                                  *)
HasTimes(s) ==
  /\ s.rcv \in [Handshake -> Int] /\ s.start \in Int /\ s.last \in Int
  /\ DOMAIN s = {"rcv", "start", "last", "frames", "frSize", "pLoad", "secs"}

LEMMA GivenInOrder ==
  ASSUME NEW s, HasTimes(s)
  PROVE  /\ DOMAIN Given(s) = DOMAIN Times(s)
         /\ Ascending(Times(s)) /\ Reorders(Given(s), Times(s))
<1>1. PICK a \in Int, b \in Int, c \in Int : FilledIn(s) = <<a, b, c>>
  <2>1. /\ s.rcv["SYN"] \in Int /\ s.rcv["SYNACK"] \in Int /\ s.rcv["ACK"] \in Int
        /\ s.start \in Int
    BY DEF HasTimes, Handshake
  <2> QED
    BY <2>1 DEF FilledIn, Nano, FillIn
<1>2. PICK d \in Int : d = s.rcv["DATA"]
  BY DEF HasTimes, Handshake
<1>3. CASE d # NoTime
  <2>1. Given(s) = <<a, b, c, d>>
    BY <1>1, <1>2, <1>3 DEF Given
  <2>2. Times(s) = swap4(a, b, c, d)
    BY <1>2, <1>3, <2>1 DEF Times
  <2> QED
    BY <2>1, <2>2, Swap4Sorts
<1>4. CASE d = NoTime
  <2>1. Given(s) = <<a, b, c>>
    BY <1>1, <1>2, <1>4 DEF Given
  <2>2. Times(s) = swap3(a, b, c)
    BY <1>2, <1>4, <2>1 DEF Times
  <2> QED
    BY <2>1, <2>2, Swap3Sorts
<1> QED
  BY <1>3, <1>4

LEMMA XdrInOrder ==
  ASSUME NEW s, HasTimes(s)
  PROVE  InOrder(Xdr(s))
<1>1. ASSUME NEW m, m \in {"too_small", "spike", "no_series", "no_start"}
      PROVE  InOrder([made |-> m])
  BY <1>1 DEF InOrder
<1>2. ASSUME NEW vps, Contradiction(s, vps) # "none"
      PROVE  InOrder([made |-> Contradiction(s, vps)])
  BY <1>1, <1>2 DEF Contradiction
<1>3. ASSUME NEW vps PROVE InOrder(Written(s, vps, Given(s), Times(s)))
  BY GivenInOrder DEF InOrder, Written, Ascending
<1>4. ASSUME NEW vps PROVE InOrder(Written(s, vps, <<>>, <<>>))
  <2>1. Reorders(<<>>, <<>>)
    <3>1. [i \in {} |-> i] \in [{} -> {}]
      OBVIOUS
    <3>2. DOMAIN <<>> = {}
      OBVIOUS
    <3> QED
      BY <3>1, <3>2 DEF Reorders
  <2> QED
    BY <2>1 DEF InOrder, Written
<1>5. InOrder(TcpXdr(s))
  BY <1>1, <1>2, <1>3 DEF TcpXdr
<1>6. InOrder(UdpXdr(s))
  BY <1>1, <1>2, <1>4 DEF UdpXdr
<1> QED
  BY <1>5, <1>6 DEF Xdr

LEMMA ExchangeInOrder ==
  ASSUME NEW start \in Int, NEW end \in Int
  PROVE  InOrder(AaaXdr(start, end))
<1>1. CASE start > end
  <2>1. Reorders(<<start, end>>, <<end, start>>)
    <3>1. PICK p \in [1 .. 2 -> 1 .. 2] : \A i \in 1 .. 2 : p[i] = 3 - i
      <4> WITNESS [i \in 1 .. 2 |-> 3 - i] \in [1 .. 2 -> 1 .. 2]
      <4> QED
        OBVIOUS
    <3>2. \A i, j \in 1 .. 2 : p[i] = p[j] => i = j
      BY <3>1
    <3> QED
      BY <3>1, <3>2 DEF Reorders
  <2> QED
    BY <1>1, <2>1 DEF InOrder, AaaXdr
<1>2. CASE ~ (start > end)
  <2>1. Reorders(<<start, end>>, <<start, end>>)
    <3>1. PICK p \in [1 .. 2 -> 1 .. 2] : \A i \in 1 .. 2 : p[i] = i
      <4> WITNESS [i \in 1 .. 2 |-> i] \in [1 .. 2 -> 1 .. 2]
      <4> QED
        OBVIOUS
    <3> QED
      BY <3>1 DEF Reorders
  <2> QED
    BY <1>2, <2>1 DEF InOrder, AaaXdr
<1> QED
  BY <1>1, <1>2

(* The session always has times, whatever packets come.                    *)
RepInv == HasTimes(session) /\ TimesInOrder

LEMMA FreshHasTimes == \A t \in Int : HasTimes(Fresh(t))
BY DEF HasTimes, Fresh, NoTime

LEMMA PacketHasTimes ==
  ASSUME NEW s, HasTimes(s), NEW kind, NEW t \in Int, NEW d, NEW load
  PROVE  HasTimes(Counted(Arrive(s, kind, t), d, load, t))
<1>1. PICK a : a = Arrive(s, kind, t) /\ HasTimes(a)
  <2>1. Nano * t \in Int
    BY DEF Nano
  <2>2. PICK a : a = Arrive(s, kind, t)
    OBVIOUS
  <2>3. /\ DOMAIN a = DOMAIN s /\ a.start = s.start /\ a.last = t
        /\ a.rcv = IF kind \in Handshake /\ proto = "tcp"
                   THEN [s.rcv EXCEPT ![kind] = Nano * t] ELSE s.rcv
    BY <2>2 DEF HasTimes, Arrive
  <2>4. a.rcv \in [Handshake -> Int]
    BY <2>1, <2>3 DEF HasTimes
  <2> QED
    BY <2>2, <2>3, <2>4 DEF HasTimes
<1>2. PICK m : /\ m = IF load > 0 THEN Measured(a, d, load, t) ELSE a
               /\ HasTimes(m)
  <2>1. \A e : HasTimes([a EXCEPT !.secs = e])
    BY <1>1 DEF HasTimes
  <2> QED
    BY <1>1, <2>1 DEF Measured
<1>3. \A e1, e2, e3 : HasTimes([m EXCEPT !.frames = e1, !.frSize = e2, !.pLoad = e3])
  BY <1>2 DEF HasTimes
<1> QED
  BY <1>1, <1>2, <1>3 DEF Counted

LEMMA ReuseHasTimes ==
  ASSUME NEW s, HasTimes(s)
  PROVE  HasTimes(reuse(s))
BY DEF HasTimes, reuse, Fresh

LEMMA OneOrNone ==
  ASSUME NEW a, NEW b, NEW p \in BOOLEAN, NEW q \in BOOLEAN, NEW i,
         i \in DOMAIN ((IF p THEN <<a>> ELSE <<>>) \o (IF q THEN <<b>> ELSE <<>>))
  PROVE  ((IF p THEN <<a>> ELSE <<>>) \o (IF q THEN <<b>> ELSE <<>>))[i] \in {a, b}
<1>0. <<a>> \in Seq({a, b}) /\ <<b>> \in Seq({a, b}) /\ <<>> \in Seq({a, b})
  OBVIOUS
<1>1. (IF p THEN <<a>> ELSE <<>>) \in Seq({a, b})
  BY <1>0
<1>2. (IF q THEN <<b>> ELSE <<>>) \in Seq({a, b})
  BY <1>0
<1>3. (IF p THEN <<a>> ELSE <<>>) \o (IF q THEN <<b>> ELSE <<>>) \in Seq({a, b})
  BY <1>1, <1>2
<1> QED
  BY <1>3

LEMMA PacketKeepsOrder ==
  ASSUME RepInv, NEW kind, NEW d, NEW load, NEW t \in Int, PacketOf(kind, d, load, t)
  PROVE  RepInv'
<1> DEFINE old == IF open THEN session ELSE Fresh(t)
           s == Arrive(old, kind, t)
           c == Counted(s, d, load, t)
           dropped == proto = "udp" /\ ~ Verdict(s, d, load, t)
           slice == ~ dropped /\ (AtPktLimit(c) \/ AtTimeLimit(c))
           after == IF slice THEN reuse(c) ELSE c
<1>1. HasTimes(c)
  <2>1. HasTimes(old)
    BY FreshHasTimes DEF RepInv
  <2> QED
    BY <2>1, PacketHasTimes
<1>2. HasTimes(after)
  BY <1>1, ReuseHasTimes
<1>3. session' \in {Fresh(0), after}
  BY DEF PacketOf
<1>4. reports' = (IF slice THEN <<Xdr(c)>> ELSE <<>>)
                   \o (IF kind = "FIN" THEN <<Xdr(after)>> ELSE <<>>)
  BY DEF PacketOf
<1> HIDE DEF slice, c, after
<1>5. \A i \in DOMAIN reports' : reports'[i] \in {Xdr(c), Xdr(after)}
  BY <1>4, OneOrNone
<1>6. InOrder(Xdr(c)) /\ InOrder(Xdr(after))
  BY <1>1, <1>2, XdrInOrder
<1>7. TimesInOrder'
  BY <1>5, <1>6 DEF TimesInOrder, Reported, InOrder
<1>8. HasTimes(session)'
  BY <1>2, <1>3, FreshHasTimes DEF HasTimes
<1> QED
  BY <1>7, <1>8 DEF RepInv

LEMMA RepInvStep == RepInv /\ [RepNext]_repVars => RepInv'
<1> SUFFICES ASSUME RepInv, [RepNext]_repVars PROVE RepInv'
  OBVIOUS
<1>1. CASE UNCHANGED repVars
  BY <1>1 DEF repVars, RepInv, HasTimes, TimesInOrder, Reported, InOrder
<1>2. CASE ClockTicks
  BY <1>2 DEF ClockTicks, RepInv, HasTimes, TimesInOrder, Reported
<1>3. CASE CleanSession
  <2>1. HasTimes(session)'
    <3>1. session' = Fresh(0) /\ HasTimes(Fresh(0))
      BY <1>3, FreshHasTimes DEF CleanSession
    <3> QED
      BY <3>1 DEF HasTimes
  <2>2. \A i \in DOMAIN reports' : reports'[i] = Xdr(session)
    BY <1>3 DEF CleanSession
  <2>3. InOrder(Xdr(session))
    BY XdrInOrder DEF RepInv
  <2> QED
    BY <2>1, <2>2, <2>3 DEF RepInv, TimesInOrder, Reported, InOrder
<1>4. CASE TcpPacket \/ UdpPacket
  <2>1. ASSUME NEW t \in (clock - MaxLag) .. clock PROVE t \in Int
    OBVIOUS
  <2> QED
    BY <1>4, <2>1, PacketKeepsOrder DEF TcpPacket, UdpPacket
<1>5. \A t \in Stamps : t \in Int
  BY ReportsAssumption DEF Stamps, Second, Nano, NoTime
<1>6. CASE DnsReport
  <2>1. PICK q \in Stamps, a \in Stamps, isName \in BOOLEAN :
          reports' = <<DnsXdr(q, a, isName)>> /\ session' = session
    BY <1>6 DEF DnsReport
  <2>2. InOrder(DnsXdr(q, a, isName))
    BY <1>5 DEF InOrder, DnsXdr
  <2>3. HasTimes(session)'
    BY <2>1 DEF RepInv, HasTimes
  <2> QED
    BY <2>1, <2>2, <2>3 DEF RepInv, TimesInOrder, Reported, InOrder
<1>7. CASE AaaReport
  <2>1. PICK start \in Stamps, end \in Stamps :
          reports' = <<AaaXdr(start, end)>> /\ session' = session
    BY <1>7 DEF AaaReport
  <2>2. InOrder(AaaXdr(start, end))
    BY <1>5, ExchangeInOrder
  <2>3. HasTimes(session)'
    BY <2>1 DEF RepInv, HasTimes
  <2> QED
    BY <2>1, <2>2, <2>3 DEF RepInv, TimesInOrder, Reported, InOrder
<1> QED
  BY <1>1, <1>2, <1>3, <1>4, <1>6, <1>7 DEF RepNext

(* Times are reported in order, whatever is missing, late or repeated:     *)
(* those of the handshake and the data (someTcpChecks, swap3, swap4), and  *)
(* those of exchanges (buildAaaXdr, buildDnsXdr).  And they are the times  *)
(* that were seen or made up, each of them once.                           *)
THEOREM TimesAreInOrder == RepSpec => []TimesInOrder
<1>1. RepInit => RepInv
  BY FreshHasTimes DEF RepInit, RepInv, TimesInOrder, Reported
<1>2. RepInv => TimesInOrder
  BY DEF RepInv
<1> QED
  BY <1>1, <1>2, RepInvStep, PTL DEF RepSpec

-----------------------------------------------------------------------------
(* Sums over finite sets.  The folds of the library are recursive          *)
(* functions, chosen to satisfy their equation; that there is such a       *)
(* function, and only one, is shown by induction over the number of        *)
(* elements, and what a sum does when one element comes or goes from that. *)

\* Induction over the natural numbers, for a set rather than a formula: the
\* pigeonhole principle gives what an induction theorem would.
LEMMA NatsIn ==
  ASSUME NEW P, 0 \in P, \A n \in Nat : n \in P => n + 1 \in P
  PROVE  Nat \subseteq P
<1> SUFFICES ASSUME NEW m \in Nat, m \notin P PROVE FALSE
  OBVIOUS
<1> DEFINE Out == (0 .. m) \ P
           pred == [x \in Out |-> x - 1]
<1>1. m \in Out /\ IsFiniteSet(Out)
  <2>1. IsFiniteSet(0 .. m)
    BY FS_Interval
  <2> QED  BY <2>1, FS_Subset
<1>2. \A x \in Out : x \in Nat /\ x # 0 /\ x - 1 \in Out /\ x - 1 # m
  OBVIOUS
<1>3. IsFiniteSet(Out \ {m}) /\ Cardinality(Out \ {m}) = Cardinality(Out) - 1
  BY <1>1, FS_RemoveElement
<1>4. Cardinality(Out) \in Nat
  BY <1>1, FS_CardinalityType
<1>5. pred \in [Out -> Out \ {m}]
  BY <1>2
<1>6. \E x, y \in Out : x # y /\ pred[x] = pred[y]
  <2> HIDE DEF Out, pred
  <2>1. Cardinality(Out \ {m}) < Cardinality(Out)
    BY <1>3, <1>4
  <2> QED  BY <1>1, <1>3, <1>5, <2>1, FS_PigeonHole
<1> QED  BY <1>2, <1>6

\* Some element of s, as the folds of the library take it.
OneOf(s) == CHOOSE x \in s : TRUE

\* h adds up f over the parts of S that are in D, an element at a time.
AddsUp(h, f, D) ==
  \A s \in D : h[s] = IF s = {} THEN 0 ELSE f[OneOf(s)] + h[s \ {OneOf(s)}]

UpTo(S, n) == {s \in SUBSET S : Cardinality(s) <= n}

LEMMA PartsOf ==
  ASSUME NEW S, IsFiniteSet(S)
  PROVE  /\ \A s \in SUBSET S : IsFiniteSet(s) /\ Cardinality(s) \in Nat
         /\ \A s \in SUBSET S : s \in UpTo(S, Cardinality(S))
         /\ \A s \in SUBSET S : \A x \in s :
              s \ {x} \in SUBSET S /\ Cardinality(s \ {x}) = Cardinality(s) - 1
         /\ \A s \in SUBSET S : Cardinality(s) = 0 <=> s = {}
<1>1. \A s \in SUBSET S : IsFiniteSet(s) /\ Cardinality(s) \in Nat
  BY FS_Subset, FS_CardinalityType
<1>2. \A s \in SUBSET S : Cardinality(s) <= Cardinality(S)
  BY FS_Subset
<1>3. \A s \in SUBSET S : \A x \in s : Cardinality(s \ {x}) = Cardinality(s) - 1
  BY <1>1, FS_RemoveElement
<1>4. \A s \in SUBSET S : Cardinality(s) = 0 <=> s = {}
  BY <1>1, FS_EmptySet
<1> QED  BY <1>1, <1>2, <1>3, <1>4 DEF UpTo

LEMMA UpToSteps ==
  ASSUME NEW S, IsFiniteSet(S)
  PROVE  /\ \A s \in UpTo(S, 0) : s = {}
         /\ \A n \in Nat : \A s \in UpTo(S, n + 1) : \A x \in s : s \ {x} \in UpTo(S, n)
<1>1. ASSUME NEW s \in UpTo(S, 0) PROVE s = {}
  <2>1. s \in SUBSET S /\ Cardinality(s) <= 0
    BY DEF UpTo
  <2>2. Cardinality(s) \in Nat /\ (Cardinality(s) = 0 <=> s = {})
    BY <2>1, PartsOf
  <2> QED  BY <2>1, <2>2
<1>2. ASSUME NEW n \in Nat, NEW s \in UpTo(S, n + 1), NEW x \in s
      PROVE  s \ {x} \in UpTo(S, n)
  <2>1. s \in SUBSET S /\ Cardinality(s) <= n + 1
    BY DEF UpTo
  <2>2. /\ Cardinality(s) \in Nat /\ s \ {x} \in SUBSET S
        /\ Cardinality(s \ {x}) = Cardinality(s) - 1
    BY <2>1, PartsOf
  <2> QED  BY <2>1, <2>2 DEF UpTo
<1> QED  BY <1>1, <1>2

LEMMA AnyIs == \A s : s # {} => OneOf(s) \in s
  BY DEF OneOf

\* There is such a function.
LEMMA AddsUpExists ==
  ASSUME NEW S, IsFiniteSet(S), NEW f, \A x \in S : f[x] \in Int
  PROVE  \E h \in [SUBSET S -> Int] : AddsUp(h, f, SUBSET S)
<1> DEFINE P == {n \in Nat : \E h \in [UpTo(S, n) -> Int] : AddsUp(h, f, UpTo(S, n))}
<1>1. 0 \in P
  <2> DEFINE h == [s \in UpTo(S, 0) |-> 0]
  <2>1. \A s \in UpTo(S, 0) : s = {}
    BY UpToSteps
  <2>2. h \in [UpTo(S, 0) -> Int] /\ AddsUp(h, f, UpTo(S, 0))
    BY <2>1 DEF AddsUp
  <2> QED  BY <2>2
<1>2. ASSUME NEW n \in Nat, n \in P PROVE n + 1 \in P
  <2>1. PICK h \in [UpTo(S, n) -> Int] : AddsUp(h, f, UpTo(S, n))
    BY <1>2
  <2> DEFINE more(s) == IF s = {} THEN 0 ELSE f[OneOf(s)] + h[s \ {OneOf(s)}]
             k == [s \in UpTo(S, n + 1) |-> more(s)]
  <2>2. ASSUME NEW s \in UpTo(S, n + 1), s # {}
        PROVE  OneOf(s) \in S /\ s \ {OneOf(s)} \in UpTo(S, n)
    <3>1. OneOf(s) \in s /\ s \subseteq S
      BY <2>2, AnyIs DEF UpTo
    <3> QED  BY <3>1, UpToSteps
  <2>3. k \in [UpTo(S, n + 1) -> Int]
    <3>1. \A s \in UpTo(S, n + 1) : more(s) \in Int
      BY <2>1, <2>2
    <3> HIDE DEF more
    <3> QED  BY <3>1
  <2>4. \A s \in UpTo(S, n) : s \in UpTo(S, n + 1) /\ k[s] = h[s]
    <3>1. \A s \in UpTo(S, n) : s \in UpTo(S, n + 1)
      BY PartsOf DEF UpTo
    <3>2. \A s \in UpTo(S, n) : h[s] = more(s)
      BY <2>1 DEF AddsUp
    <3> HIDE DEF more
    <3> QED  BY <3>1, <3>2
  <2>5. AddsUp(k, f, UpTo(S, n + 1))
    <3> SUFFICES ASSUME NEW s \in UpTo(S, n + 1)
                 PROVE  k[s] = IF s = {} THEN 0 ELSE f[OneOf(s)] + k[s \ {OneOf(s)}]
      BY DEF AddsUp
    <3>1. k[s] = more(s)
      OBVIOUS
    <3>2. s # {} => k[s \ {OneOf(s)}] = h[s \ {OneOf(s)}]
      BY <2>2, <2>4
    <3> QED  BY <3>1, <3>2
  <2> HIDE DEF k
  <2>6. \E g \in [UpTo(S, n + 1) -> Int] : AddsUp(g, f, UpTo(S, n + 1))
    BY <2>3, <2>5
  <2> QED  BY <2>6
<1>3. Cardinality(S) \in P
  <2>1. Nat \subseteq P
    <3> HIDE DEF P
    <3> QED  BY <1>1, <1>2, NatsIn
  <2>2. Cardinality(S) \in Nat
    BY FS_CardinalityType
  <2> QED  BY <2>1, <2>2
<1>4. UpTo(S, Cardinality(S)) = SUBSET S
  BY PartsOf DEF UpTo
<1> QED  BY <1>3, <1>4

\* ... and but one.
LEMMA AddsUpOnce ==
  ASSUME NEW S, IsFiniteSet(S), NEW f,
         NEW h, AddsUp(h, f, SUBSET S), NEW k, AddsUp(k, f, SUBSET S)
  PROVE  \A s \in SUBSET S : h[s] = k[s]
<1> DEFINE P == {n \in Nat : \A s \in UpTo(S, n) : h[s] = k[s]}
<1>0. ASSUME NEW s \in SUBSET S
      PROVE  /\ s = {} => h[s] = 0 /\ k[s] = 0
             /\ s # {} => /\ OneOf(s) \in s
                          /\ h[s] = f[OneOf(s)] + h[s \ {OneOf(s)}]
                          /\ k[s] = f[OneOf(s)] + k[s \ {OneOf(s)}]
  BY AnyIs DEF AddsUp
<1>1. 0 \in P
  <2>1. \A s \in UpTo(S, 0) : s \in SUBSET S /\ s = {}
    BY UpToSteps DEF UpTo
  <2> QED  BY <1>0, <2>1
<1>2. ASSUME NEW n \in Nat, n \in P PROVE n + 1 \in P
  <2> SUFFICES ASSUME NEW s \in UpTo(S, n + 1) PROVE h[s] = k[s]
    OBVIOUS
  <2>1. s \in SUBSET S
    BY DEF UpTo
  <2>2. CASE s = {}
    BY <1>0, <2>1, <2>2
  <2>3. CASE s # {}
    <3>1. s \ {OneOf(s)} \in UpTo(S, n)
      BY <2>3, UpToSteps, AnyIs
    <3>2. h[s \ {OneOf(s)}] = k[s \ {OneOf(s)}]
      BY <1>2, <3>1
    <3> QED  BY <1>0, <2>1, <2>3, <3>2
  <2> QED  BY <2>2, <2>3
<1>3. Nat \subseteq P
  <2> HIDE DEF P
  <2> QED  BY <1>1, <1>2, NatsIn
<1>4. Cardinality(S) \in P
  BY <1>3, FS_CardinalityType
<1> QED  BY <1>4, PartsOf

\* It also serves for less, and for another function with the same values.
LEMMA AddsUpWithin ==
  ASSUME NEW S, NEW T, T \subseteq S, NEW f, NEW g, \A x \in T : g[x] = f[x],
         NEW h, AddsUp(h, f, SUBSET S)
  PROVE  AddsUp(h, g, SUBSET T)
<1>1. ASSUME NEW s \in SUBSET T
      PROVE  h[s] = IF s = {} THEN 0 ELSE g[OneOf(s)] + h[s \ {OneOf(s)}]
  <2>1. s \in SUBSET S
    OBVIOUS
  <2>2. s # {} => g[OneOf(s)] = f[OneOf(s)]
    BY AnyIs
  <2> QED  BY <2>1, <2>2 DEF AddsUp
<1> QED  BY <1>1 DEF AddsUp

\* It does not matter which element is taken first.
LEMMA AddsUpAnyOrder ==
  ASSUME NEW S, IsFiniteSet(S), NEW f, \A x \in S : f[x] \in Int,
         NEW h \in [SUBSET S -> Int], AddsUp(h, f, SUBSET S)
  PROVE  \A s \in SUBSET S : \A x \in s : h[s] = f[x] + h[s \ {x}]
<1> DEFINE P == {n \in Nat : \A s \in UpTo(S, n) : \A x \in s : h[s] = f[x] + h[s \ {x}]}
<1>1. 0 \in P
  <2>1. \A s \in UpTo(S, 0) : s = {}
    BY UpToSteps
  <2> QED  BY <2>1
<1>2. ASSUME NEW n \in Nat, n \in P PROVE n + 1 \in P
  <2> SUFFICES ASSUME NEW s \in UpTo(S, n + 1), NEW x \in s
               PROVE  h[s] = f[x] + h[s \ {x}]
    OBVIOUS
  <2> DEFINE p == OneOf(s)
  <2>1. s \in SUBSET S /\ p \in s
    BY AnyIs DEF UpTo
  <2>2. h[s] = f[p] + h[s \ {p}]
    BY <2>1 DEF AddsUp
  <2>3. CASE p = x
    BY <2>2, <2>3
  <2>4. CASE p # x
    <3>1. s \ {p} \in UpTo(S, n) /\ s \ {x} \in UpTo(S, n)
      BY <2>1, UpToSteps
    <3> HIDE DEF p
    <3>2. x \in s \ {p} /\ p \in s \ {x} /\ (s \ {p}) \ {x} = (s \ {x}) \ {p}
      BY <2>1, <2>4
    <3>3. /\ h[s \ {p}] = f[x] + h[(s \ {p}) \ {x}]
          /\ h[s \ {x}] = f[p] + h[(s \ {p}) \ {x}]
      <4>1. \A r \in UpTo(S, n) : \A y \in r : h[r] = f[y] + h[r \ {y}]
        BY <1>2
      <4>2. h[s \ {p}] = f[x] + h[(s \ {p}) \ {x}]
        BY <3>1, <3>2, <4>1
      <4>3. h[s \ {x}] = f[p] + h[(s \ {x}) \ {p}]
        BY <3>1, <3>2, <4>1
      <4> QED  BY <3>2, <4>2, <4>3
    <3>4. f[x] \in Int /\ f[p] \in Int /\ h[(s \ {p}) \ {x}] \in Int
      BY <2>1
    <3> QED  BY <2>2, <3>3, <3>4
  <2> QED  BY <2>3, <2>4
<1>3. Nat \subseteq P
  <2> HIDE DEF P
  <2> QED  BY <1>1, <1>2, NatsIn
<1>4. Cardinality(S) \in P
  BY <1>3, FS_CardinalityType
<1> QED  BY <1>4, PartsOf
-----------------------------------------------------------------------------
(* SumFunctionOnSet adds up what a function says of the elements of a set. *)

LEMMA SumIs ==
  ASSUME NEW S, IsFiniteSet(S), NEW f, \A x \in S : f[x] \in Int
  PROVE  \E h \in [SUBSET S -> Int] :
           AddsUp(h, f, SUBSET S) /\ SumFunctionOnSet(f, S) = h[S]
<1> DEFINE Unfolds(h) ==
             h = [s \in SUBSET S |-> IF s = {} THEN 0 ELSE f[OneOf(s)] + h[s \ {OneOf(s)}]]
<1>1. SumFunctionOnSet(f, S) = (CHOOSE h : Unfolds(h))[S]
  BY Zenon DEF SumFunctionOnSet, FoldFunctionOnSet, MapThenFoldSet, OneOf
<1>2. PICK g \in [SUBSET S -> Int] : AddsUp(g, f, SUBSET S)
  BY AddsUpExists
<1>3. Unfolds(g)
  BY <1>2 DEF AddsUp
<1> DEFINE h == CHOOSE h : Unfolds(h)
<1>4. Unfolds(h)
  <2> HIDE DEF Unfolds
  <2> QED  BY <1>3
<1>5. AddsUp(h, f, SUBSET S)
  <2> HIDE DEF h
  <2> QED  BY <1>4 DEF AddsUp
<1>6. h \in [SUBSET S -> Int]
  <2> HIDE DEF h
  <2>1. \A s \in SUBSET S : h[s] = g[s]
    BY <1>2, <1>5, AddsUpOnce
  <2>2. h = [s \in SUBSET S |-> h[s]]
    BY <1>4
  <2> QED  BY <1>2, <2>1, <2>2
<1> HIDE DEF Unfolds
<1> QED  BY <1>1, <1>5, <1>6

LEMMA SumInt ==
  ASSUME NEW S, IsFiniteSet(S), NEW f, \A x \in S : f[x] \in Int
  PROVE  SumFunctionOnSet(f, S) \in Int
<1>1. PICK h \in [SUBSET S -> Int] :
        AddsUp(h, f, SUBSET S) /\ SumFunctionOnSet(f, S) = h[S]
  BY SumIs
<1> QED  BY <1>1

LEMMA SumEmpty == \A f : SumFunctionOnSet(f, {}) = 0
<1> TAKE f
<1>1. PICK h \in [SUBSET {} -> Int] :
        AddsUp(h, f, SUBSET {}) /\ SumFunctionOnSet(f, {}) = h[{}]
  BY SumIs, FS_EmptySet
<1> QED  BY <1>1 DEF AddsUp

LEMMA SumSame ==
  ASSUME NEW S, IsFiniteSet(S), NEW f, NEW g,
         \A x \in S : f[x] \in Int /\ g[x] = f[x]
  PROVE  SumFunctionOnSet(g, S) = SumFunctionOnSet(f, S)
<1>1. PICK h \in [SUBSET S -> Int] :
        AddsUp(h, f, SUBSET S) /\ SumFunctionOnSet(f, S) = h[S]
  BY SumIs
<1>2. PICK k \in [SUBSET S -> Int] :
        AddsUp(k, g, SUBSET S) /\ SumFunctionOnSet(g, S) = k[S]
  BY SumIs
<1>3. AddsUp(k, f, SUBSET S)
  BY <1>2, AddsUpWithin
<1>4. \A s \in SUBSET S : h[s] = k[s]
  BY <1>1, <1>3, AddsUpOnce
<1> QED  BY <1>1, <1>2, <1>4

LEMMA SumTakesOut ==
  ASSUME NEW S, IsFiniteSet(S), NEW f, \A x \in S : f[x] \in Int, NEW x \in S
  PROVE  SumFunctionOnSet(f, S) = f[x] + SumFunctionOnSet(f, S \ {x})
<1> DEFINE T == S \ {x}
<1>1. PICK h \in [SUBSET S -> Int] :
        AddsUp(h, f, SUBSET S) /\ SumFunctionOnSet(f, S) = h[S]
  BY SumIs
<1>2. h[S] = f[x] + h[T]
  BY <1>1, AddsUpAnyOrder
<1>3. IsFiniteSet(T) /\ T \subseteq S /\ \A y \in T : f[y] \in Int
  BY FS_RemoveElement
<1> HIDE DEF T
<1>4. PICK k \in [SUBSET T -> Int] :
        AddsUp(k, f, SUBSET T) /\ SumFunctionOnSet(f, T) = k[T]
  BY <1>3, SumIs
<1>5. AddsUp(h, f, SUBSET T)
  BY <1>1, <1>3, AddsUpWithin
<1>6. \A s \in SUBSET T : k[s] = h[s]
  BY <1>3, <1>4, <1>5, AddsUpOnce
<1>7. SumFunctionOnSet(f, S) = f[x] + SumFunctionOnSet(f, T)
  BY <1>1, <1>2, <1>4, <1>6
<1> QED  BY <1>7 DEF T

LEMMA SumPutsIn ==
  ASSUME NEW S, IsFiniteSet(S), NEW x, x \notin S,
         NEW f, \A y \in S \cup {x} : f[y] \in Int
  PROVE  /\ IsFiniteSet(S \cup {x})
         /\ SumFunctionOnSet(f, S \cup {x}) = f[x] + SumFunctionOnSet(f, S)
<1>1. IsFiniteSet(S \cup {x})
  BY FS_AddElement
<1>2. (S \cup {x}) \ {x} = S
  OBVIOUS
<1> QED  BY <1>1, <1>2, SumTakesOut

\* Only what is not 0 counts.
LEMMA SumOfZeros ==
  ASSUME NEW S, IsFiniteSet(S), NEW f, \A x \in S : f[x] = 0
  PROVE  SumFunctionOnSet(f, S) = 0
<1> DEFINE z == [s \in SUBSET S |-> 0]
<1>0. \A x \in S : f[x] \in Int
  OBVIOUS
<1>1. PICK h \in [SUBSET S -> Int] :
        AddsUp(h, f, SUBSET S) /\ SumFunctionOnSet(f, S) = h[S]
  BY <1>0, SumIs
<1>2. AddsUp(z, f, SUBSET S)
  BY AnyIs DEF AddsUp
<1>3. z[S] = 0
  OBVIOUS
<1> HIDE DEF z
<1>4. \A s \in SUBSET S : h[s] = z[s]
  BY <1>1, <1>2, AddsUpOnce
<1> QED  BY <1>1, <1>3, <1>4

\* One term changes.
LEMMA SumReplaces ==
  ASSUME NEW S, IsFiniteSet(S), NEW x \in S,
         NEW f \in [S -> Int], NEW g \in [S -> Int],
         \A y \in S : y # x => g[y] = f[y]
  PROVE  SumFunctionOnSet(g, S) = SumFunctionOnSet(f, S) + (g[x] - f[x])
<1> DEFINE T == S \ {x}
<1>1. IsFiniteSet(T) /\ \A y \in T : f[y] \in Int /\ g[y] = f[y]
  BY FS_RemoveElement
<1>2. SumFunctionOnSet(f, S) = f[x] + SumFunctionOnSet(f, T)
  <2>1. \A y \in S : f[y] \in Int
    OBVIOUS
  <2> QED  BY <2>1, SumTakesOut
<1>3. SumFunctionOnSet(g, S) = g[x] + SumFunctionOnSet(g, T)
  <2>1. \A y \in S : g[y] \in Int
    OBVIOUS
  <2> QED  BY <2>1, SumTakesOut
<1>4. f[x] \in Int /\ g[x] \in Int
  OBVIOUS
<1> HIDE DEF T
<1>5. SumFunctionOnSet(g, T) = SumFunctionOnSet(f, T) /\ SumFunctionOnSet(f, T) \in Int
  BY <1>1, SumSame, SumInt
<1> QED  BY <1>2, <1>3, <1>4, <1>5

\* One term is added.
LEMMA SumGrows ==
  ASSUME NEW S, IsFiniteSet(S), NEW x, x \notin S, NEW T, T = S \cup {x},
         NEW f \in [S -> Int], NEW g \in [T -> Int], \A y \in S : g[y] = f[y]
  PROVE  SumFunctionOnSet(g, T) = SumFunctionOnSet(f, S) + g[x]
<1>1. SumFunctionOnSet(g, S) = SumFunctionOnSet(f, S) /\ SumFunctionOnSet(f, S) \in Int
  <2>1. \A y \in S : f[y] \in Int /\ g[y] = f[y]
    OBVIOUS
  <2> QED  BY <2>1, SumSame, SumInt
<1>2. g[x] \in Int /\ \A y \in S \cup {x} : g[y] \in Int
  OBVIOUS
<1>3. SumFunctionOnSet(g, S \cup {x}) = g[x] + SumFunctionOnSet(g, S)
  BY <1>2, SumPutsIn
<1> QED  BY <1>1, <1>2, <1>3

\* The image of a finite set, part by part.
LEMMA ImageFinite ==
  ASSUME NEW S, IsFiniteSet(S), NEW e
  PROVE  IsFiniteSet({e[x] : x \in S})
<1> DEFINE T == {e[x] : x \in S}
           h == [x \in S |-> e[x]]
<1>1. h \in Surjection(S, T)
  BY DEF Surjection
<1> HIDE DEF h, T
<1>2. IsFiniteSet(T)
  BY <1>1, FS_Surjection
<1> QED  BY <1>2 DEF T

\* The terms may be called by other names.
LEMMA SumRenames ==
  ASSUME NEW S, IsFiniteSet(S), NEW f, \A x \in S : f[x] \in Int,
         NEW e, \A x, y \in S : e[x] = e[y] => x = y,
         NEW g, \A x \in S : g[e[x]] = f[x]
  PROVE  SumFunctionOnSet(g, {e[x] : x \in S}) = SumFunctionOnSet(f, S)
<1> DEFINE img(s) == {e[x] : x \in s}
           h == [s \in SUBSET S |-> SumFunctionOnSet(g, img(s))]
<1>1. AddsUp(h, f, SUBSET S)
  <2> SUFFICES ASSUME NEW s \in SUBSET S
               PROVE  h[s] = IF s = {} THEN 0 ELSE f[OneOf(s)] + h[s \ {OneOf(s)}]
    BY DEF AddsUp
  <2>1. CASE s = {}
    <3>1. img(s) = {}
      BY <2>1
    <3>2. h[s] = SumFunctionOnSet(g, img(s))
      OBVIOUS
    <3> QED  BY <2>1, <3>1, <3>2, SumEmpty
  <2>2. CASE s # {}
    <3> DEFINE p == OneOf(s)
               T == s \ {p}
    <3>1. p \in s /\ p \in S
      BY <2>2, AnyIs
    <3>2. /\ IsFiniteSet(T) /\ p \notin T /\ T \subseteq S /\ s = T \cup {p}
          /\ T \in SUBSET S
      <4>1. IsFiniteSet(s)
        BY FS_Subset
      <4> QED  BY <3>1, <4>1, FS_RemoveElement
    <3> HIDE DEF T, p
    <3>3. img(s) = img(T) \cup {e[p]} /\ e[p] \notin img(T)
      BY <3>1, <3>2
    <3>4. IsFiniteSet(img(T)) /\ \A y \in img(T) \cup {e[p]} : g[y] \in Int
      BY <3>1, <3>2, ImageFinite
    <3>5. h[s] = SumFunctionOnSet(g, img(s)) /\ h[T] = SumFunctionOnSet(g, img(T))
      BY <3>2
    <3>6. g[e[p]] = f[p]
      BY <3>1
    <3> HIDE DEF img, h
    <3>7. SumFunctionOnSet(g, img(T) \cup {e[p]}) = g[e[p]] + SumFunctionOnSet(g, img(T))
      BY <3>3, <3>4, SumPutsIn
    <3>8. h[s] = f[p] + h[T]
      BY <3>3, <3>5, <3>6, <3>7
    <3> QED  BY <2>2, <3>8 DEF T, p
  <2> QED  BY <2>1, <2>2
<1>2. PICK k \in [SUBSET S -> Int] :
        AddsUp(k, f, SUBSET S) /\ SumFunctionOnSet(f, S) = k[S]
  BY SumIs
<1>3. h[S] = SumFunctionOnSet(g, {e[x] : x \in S})
  OBVIOUS
<1> HIDE DEF h
<1>4. \A s \in SUBSET S : h[s] = k[s]
  BY <1>1, <1>2, AddsUpOnce
<1> QED  BY <1>2, <1>3, <1>4

\* Terms that are 0 may be left out.
LEMMA SumWithoutZeros ==
  ASSUME NEW S, IsFiniteSet(S), NEW f \in [S -> Int],
         NEW T \in SUBSET S, \A x \in S : x \notin T => f[x] = 0
  PROVE  SumFunctionOnSet(f, T) = SumFunctionOnSet(f, S)
<1>0. \A x \in S : f[x] \in Int
  OBVIOUS
<1> DEFINE h == [s \in SUBSET S |-> SumFunctionOnSet(f, s \cap T)]
<1>1. AddsUp(h, f, SUBSET S)
  <2> SUFFICES ASSUME NEW s \in SUBSET S
               PROVE  h[s] = IF s = {} THEN 0 ELSE f[OneOf(s)] + h[s \ {OneOf(s)}]
    BY DEF AddsUp
  <2>1. CASE s = {}
    <3>1. s \cap T = {}
      BY <2>1
    <3>2. h[s] = SumFunctionOnSet(f, s \cap T)
      OBVIOUS
    <3> QED  BY <2>1, <3>1, <3>2, SumEmpty
  <2>2. CASE s # {}
    <3> DEFINE p == OneOf(s)
               r == s \ {p}
    <3>1. p \in s /\ p \in S
      BY <2>2, AnyIs
    <3>2. /\ r \in SUBSET S
          /\ IsFiniteSet(s \cap T) /\ \A x \in s \cap T : f[x] \in Int
      <4>1. IsFiniteSet(s)
        BY FS_Subset
      <4> QED  BY <4>1, FS_Subset
    <3>3. /\ p \in T => p \in s \cap T /\ (s \cap T) \ {p} = r \cap T
          /\ p \notin T => s \cap T = r \cap T /\ f[p] = 0
      BY <3>1
    <3>4. h[s] = SumFunctionOnSet(f, s \cap T) /\ h[r] = SumFunctionOnSet(f, r \cap T)
      BY <3>2
    <3> HIDE DEF h, r, p
    <3>5. h[s] = f[p] + h[r]
      <4>1. p \in T => h[s] = f[p] + h[r]
        BY <3>2, <3>3, <3>4, SumTakesOut
      <4>2. p \notin T => h[s] = f[p] + h[r]
        <5>1. SumFunctionOnSet(f, s \cap T) \in Int
          BY <3>2, SumInt
        <5>2. p \notin T => h[s] = h[r] /\ h[r] \in Int /\ f[p] = 0
          BY <3>3, <3>4, <5>1
        <5> QED  BY <5>2
      <4> QED  BY <4>1, <4>2
    <3> QED  BY <2>2, <3>5 DEF r, p
  <2> QED  BY <2>1, <2>2
<1>2. PICK k \in [SUBSET S -> Int] :
        AddsUp(k, f, SUBSET S) /\ SumFunctionOnSet(f, S) = k[S]
  BY SumIs
<1>3. h[S] = SumFunctionOnSet(f, T)
  <2>1. S \cap T = T
    OBVIOUS
  <2> QED  BY <2>1
<1> HIDE DEF h
<1>4. \A s \in SUBSET S : h[s] = k[s]
  BY <1>1, <1>2, AddsUpOnce
<1> QED  BY <1>2, <1>3, <1>4

\* A finite set of numbers has a smallest one.
LEMMA MinIs ==
  ASSUME NEW S, IsFiniteSet(S), S \subseteq Int, S # {}
  PROVE  Min(S) \in S /\ \A y \in S : Min(S) <= y
<1> DEFINE HasMin(s) == \E x \in s : \A y \in s : x <= y
           P == {n \in Nat : \A s \in UpTo(S, n) : s # {} => HasMin(s)}
<1>1. 0 \in P
  <2>1. \A s \in UpTo(S, 0) : s = {}
    BY UpToSteps
  <2> QED  BY <2>1
<1>2. ASSUME NEW n \in Nat, n \in P PROVE n + 1 \in P
  <2> SUFFICES ASSUME NEW s \in UpTo(S, n + 1), s # {} PROVE HasMin(s)
    OBVIOUS
  <2> DEFINE p == OneOf(s)
  <2>1. s \in SUBSET S /\ p \in s
    BY AnyIs DEF UpTo
  <2>2. s \ {p} \in UpTo(S, n)
    BY <2>1, UpToSteps
  <2> HIDE DEF p
  <2>3. CASE s \ {p} = {}
    BY <2>1, <2>3
  <2>4. CASE s \ {p} # {}
    <3>1. PICK x \in s \ {p} : \A y \in s \ {p} : x <= y
      BY <1>2, <2>2, <2>4
    <3>2. CASE p <= x
      BY <2>1, <3>1, <3>2
    <3>3. CASE ~ (p <= x)
      BY <2>1, <3>1, <3>3
    <3> QED  BY <3>2, <3>3
  <2> QED  BY <2>3, <2>4
<1>3. HasMin(S)
  <2>1. Nat \subseteq P
    <3> HIDE DEF P
    <3> QED  BY <1>1, <1>2, NatsIn
  <2>2. Cardinality(S) \in P
    BY <2>1, FS_CardinalityType
  <2> QED  BY <2>2, PartsOf
<1> QED  BY <1>3 DEF Min

----------------------------------------------------------------------
(* What a line says adds up.                                               *)

LEMMA VolumeIs ==
  ASSUME NEW S, IsFiniteSet(S), \A e \in S : e[3] \in Int
  PROVE  Volume(S) = SumFunctionOnSet([e \in S |-> e[3]], S)
<1> DEFINE f == [e \in S |-> e[3]]
           Unfolds(h) ==
             h = [s \in SUBSET S |-> IF s = {} THEN 0 ELSE OneOf(s)[3] + h[s \ {OneOf(s)}]]
<1>1. Volume(S) = (CHOOSE h : Unfolds(h))[S]
  BY Zenon DEF Volume, MapThenSumSet, MapThenFoldSet, OneOf
<1>2. \A e \in S : f[e] = e[3] /\ f[e] \in Int
  OBVIOUS
<1> HIDE DEF f
<1>3. PICK g \in [SUBSET S -> Int] :
        AddsUp(g, f, SUBSET S) /\ SumFunctionOnSet(f, S) = g[S]
  BY <1>2, SumIs
<1>4. Unfolds(g)
  <2>1. \A s \in SUBSET S : s # {} => OneOf(s) \in S /\ f[OneOf(s)] = OneOf(s)[3]
    BY <1>2, AnyIs
  <2> QED  BY <1>3, <2>1 DEF AddsUp
<1> DEFINE h == CHOOSE h : Unfolds(h)
<1>5. Unfolds(h)
  <2> HIDE DEF Unfolds
  <2> QED  BY <1>4
<1>6. AddsUp(h, f, SUBSET S)
  <2>1. \A s \in SUBSET S : s # {} => OneOf(s) \in S /\ f[OneOf(s)] = OneOf(s)[3]
    BY <1>2, AnyIs
  <2> HIDE DEF h
  <2> QED  BY <1>5, <2>1 DEF AddsUp
<1> HIDE DEF Unfolds
<1>7. Volume(S) = h[S]
  BY <1>1
<1> HIDE DEF h
<1>8. \A s \in SUBSET S : h[s] = g[s]
  BY <1>3, <1>6, AddsUpOnce
<1>9. Volume(S) = SumFunctionOnSet(f, S)
  BY <1>3, <1>7, <1>8
<1> QED  BY <1>9 DEF f

SecondRec == [vol : [Dir -> Nat], pkts : [Dir -> Nat]]

\* The volumes of the seconds of s, in one direction.
Vols(s, d) == [u \in DOMAIN s.secs |-> s.secs[u].vol[d]]

\* The two ways of counting agree, and no frame is all payload.
CountsAgree(s) ==
  /\ IsFiniteSet(DOMAIN s.secs) /\ DOMAIN s.secs \subseteq Int
  /\ s.secs \in [DOMAIN s.secs -> SecondRec]
  /\ s.frSize \in [Dir -> Nat] /\ s.pLoad \in [Dir -> Nat]
  /\ \A d \in Dir : /\ s.pLoad[d] <= s.frSize[d]
                    /\ SumFunctionOnSet(Vols(s, d), DOMAIN s.secs) = s.pLoad[d]

Reportable(s) ==
  CountsAgree(s) /\ Cardinality(DOMAIN s.secs) <= SeriesLen /\ s.start # 0

SaysWhatItCounts(r) ==
  /\ r.made \notin {"no_start", "spike", "no_series"}
  /\ r.made = "line" => \A d \in Dir : Volume(r.series[d]) = r.pLoad[d]

LEMMA SeriesVolume ==
  ASSUME NEW s, Reportable(s), NEW d \in Dir
  PROVE  /\ Volume(Series(s, d)) = s.pLoad[d]
         /\ Series(s, d) = {} => s.pLoad[d] = 0
<1> DEFINE D == DOMAIN s.secs
           B == Busy(s, d)
           f == Vols(s, d)
           first == Min(D)
           e == [t \in B |-> <<t - first, s.secs[t].pkts[d], s.secs[t].vol[d]>>]
           S == {e[t] : t \in B}
           g == [x \in S |-> x[3]]
<1>1. /\ IsFiniteSet(D) /\ D \subseteq Int /\ s.secs \in [D -> SecondRec]
      /\ SumFunctionOnSet(f, D) = s.pLoad[d] /\ Cardinality(D) <= SeriesLen
  BY DEF Reportable, CountsAgree
<1>2. \A t \in D : f[t] = s.secs[t].vol[d] /\ f[t] \in Nat
  BY <1>1 DEF Vols, SecondRec
<1>3. /\ B \subseteq D /\ \A t \in D \ B : f[t] = 0
      /\ \A t \in B : s.secs[t].vol[d] = f[t] /\ f[t] \in Int
  BY <1>2 DEF Busy
<1>4. IsFiniteSet(B) /\ Cardinality(B) <= SeriesLen
  <2>1. IsFiniteSet(B) /\ Cardinality(B) <= Cardinality(D)
    BY <1>1, <1>3, FS_Subset
  <2>2. Cardinality(B) \in Nat /\ Cardinality(D) \in Nat /\ SeriesLen \in Nat
    BY <1>1, <2>1, FS_CardinalityType, ReportsAssumption
  <2> QED  BY <1>1, <2>1, <2>2
<1>5. \A t \in B : Cardinality({u \in B : u < t}) < SeriesLen
  <2> TAKE t \in B
  <2>1. {u \in B : u < t} \in SUBSET (B \ {t})
    BY <1>1, <1>3
  <2>2. IsFiniteSet(B \ {t}) /\ Cardinality(B \ {t}) = Cardinality(B) - 1
    BY <1>4, FS_RemoveElement
  <2>3. Cardinality({u \in B : u < t}) <= Cardinality(B \ {t})
    BY <2>1, <2>2, FS_Subset
  <2>4. IsFiniteSet({u \in B : u < t})
    BY <2>1, <2>2, FS_Subset
  <2>5. /\ Cardinality({u \in B : u < t}) \in Nat /\ Cardinality(B) \in Nat
        /\ SeriesLen \in Nat
    BY <1>4, <2>4, FS_CardinalityType, ReportsAssumption
  <2> QED  BY <1>4, <2>2, <2>3, <2>5
<1>6. Series(s, d) = S
  <2>1. {t \in B : Cardinality({u \in B : u < t}) < SeriesLen} = B
    BY <1>5
  <2> QED  BY <2>1 DEF Series
<1>7. B # {} => first \in Int
  BY <1>1, <1>3, MinIs
<1>8. \A t \in B : e[t] \in S /\ g[e[t]] = f[t]
  BY <1>3
<1>9. \A t, u \in B : e[t] = e[u] => t = u
  BY <1>1, <1>3, <1>7
<1>10. IsFiniteSet(S) /\ \A x \in S : x[3] \in Int
  <2>1. \A t \in B : e[t][3] \in Int
    BY <1>3
  <2> HIDE DEF e, B
  <2> QED  BY <1>4, <2>1, ImageFinite
<1>11. Volume(S) = SumFunctionOnSet(g, S)
  <2> HIDE DEF S
  <2> QED  BY <1>10, VolumeIs
<1>12. SumFunctionOnSet(g, S) = SumFunctionOnSet(f, B)
  <2> HIDE DEF g, e, f, B
  <2> QED  BY <1>3, <1>4, <1>8, <1>9, SumRenames
<1>13. SumFunctionOnSet(f, B) = SumFunctionOnSet(f, D)
  <2>1. f \in [D -> Int]
    <3>1. f = [u \in D |-> s.secs[u].vol[d]]
      BY DEF Vols
    <3>2. \A u \in D : s.secs[u].vol[d] \in Int
      BY <1>2
    <3> HIDE DEF f, D
    <3> QED  BY <3>1, <3>2
  <2>2. B \in SUBSET D /\ \A t \in D : t \notin B => f[t] = 0
    BY <1>3
  <2> HIDE DEF f, B, D
  <2> QED  BY <1>1, <2>1, <2>2, SumWithoutZeros
<1>14. S = {} => SumFunctionOnSet(f, B) = 0
  <2>1. S = {} => B = {}
    OBVIOUS
  <2> HIDE DEF S, B
  <2> QED  BY <2>1, SumEmpty
<1> HIDE DEF S, g, f, B, D
<1> QED  BY <1>1, <1>6, <1>11, <1>12, <1>13, <1>14

LEMMA XdrSaysWhatItCounts ==
  ASSUME NEW s, Reportable(s)
  PROVE  SaysWhatItCounts(Xdr(s))
<1>1. /\ "UP" \in Dir /\ "DOWN" \in Dir
      /\ s.pLoad \in [Dir -> Nat] /\ s.frSize \in [Dir -> Nat]
      /\ \A d \in Dir : s.pLoad[d] <= s.frSize[d]
  BY DEF Dir, Reportable, CountsAgree
<1>2. FrSize(s) \in Nat /\ PLoadSize(s) \in Nat /\ ~ (FrSize(s) < PLoadSize(s))
  BY <1>1 DEF FrSize, PLoadSize
<1>3. ASSUME NEW vps, vps.series = [d \in Dir |-> Series(s, d)]
      PROVE  /\ Contradiction(s, vps) = "none"
             /\ \A given, times : SaysWhatItCounts(Written(s, vps, given, times))
  <2>1. \A d \in Dir : vps.series[d] = {} => ~ (s.pLoad[d] > 0)
    BY <1>3, SeriesVolume
  <2>2. Contradiction(s, vps) = "none"
    BY <1>2, <2>1 DEF Contradiction
  <2>3. \A d \in Dir : Volume(vps.series[d]) = s.pLoad[d]
    BY <1>3, SeriesVolume
  <2> QED  BY <2>2, <2>3 DEF SaysWhatItCounts, Written
<1>4. SaysWhatItCounts([made |-> "too_small"])
  BY DEF SaysWhatItCounts
<1>5. SaysWhatItCounts(TcpXdr(s))
  <2>1. getTcpVPS(s).series = [d \in Dir |-> Series(s, d)]
    BY DEF getTcpVPS
  <2> QED  BY <1>3, <1>4, <2>1 DEF TcpXdr
<1>6. SaysWhatItCounts(UdpXdr(s))
  <2>1. getUdpVPS(s).series = [d \in Dir |-> Series(s, d)]
    BY DEF getUdpVPS
  <2>2. s.start # 0
    BY DEF Reportable
  <2> QED  BY <1>3, <1>4, <2>1, <2>2 DEF UdpXdr
<1> QED  BY <1>5, <1>6 DEF Xdr

LEMMA FreshAgrees ==
  ASSUME NEW t
  PROVE  CountsAgree(Fresh(t)) /\ DOMAIN Fresh(t).secs = {} /\ Fresh(t).start = t
<1> DEFINE s == Fresh(t)
<1>1. s.secs = [u \in {} |-> NoSecond] /\ s.start = t
      /\ s.frSize = [d \in Dir |-> 0] /\ s.pLoad = [d \in Dir |-> 0]
  BY DEF Fresh
<1>2. IsFiniteSet({})
  BY FS_EmptySet
<1> HIDE DEF s
<1>3. DOMAIN s.secs = {} /\ s.secs \in [{} -> SecondRec]
  BY <1>1
<1>4. \A d \in Dir : SumFunctionOnSet(Vols(s, d), DOMAIN s.secs) = s.pLoad[d]
  BY <1>1, <1>3, SumEmpty
<1>5. CountsAgree(s)
  BY <1>1, <1>2, <1>3, <1>4 DEF CountsAgree
<1> QED  BY <1>1, <1>3, <1>5 DEF s

\* What becomes of session a when a packet of that size is measured.
Measures(a, d, load, t, m) ==
  /\ HasTimes(m) /\ m.start = a.start /\ m.last = a.last
  /\ m.frSize = a.frSize /\ m.pLoad = a.pLoad
  /\ DOMAIN m.secs = DOMAIN a.secs \cup {t}
  /\ ~ WithinVps(a, d, t) => t \in DOMAIN a.secs
  /\ IsFiniteSet(DOMAIN m.secs) /\ DOMAIN m.secs \subseteq Int
  /\ m.secs \in [DOMAIN m.secs -> SecondRec]
  /\ \A e \in Dir : SumFunctionOnSet(Vols(m, e), DOMAIN m.secs)
       = IF e = d /\ WithinVps(a, d, t) THEN a.pLoad[e] + load ELSE a.pLoad[e]

LEMMA MeasuredAgrees ==
  ASSUME NEW a, HasTimes(a), CountsAgree(a), NEW d \in Dir, NEW load \in Nat, NEW t \in Int
  PROVE  Measures(a, d, load, t, Measured(a, d, load, t))
<1> DEFINE m == Measured(a, d, load, t)
<1> DEFINE D == DOMAIN a.secs
           old == SecondOf(a, t)
           new == IF WithinVps(a, d, t)
                  THEN [old EXCEPT !.vol[d] = @ + load, !.pkts[d] = @ + 1] ELSE old
<1>1. /\ IsFiniteSet(D) /\ D \subseteq Int /\ a.secs \in [D -> SecondRec]
      /\ \A e \in Dir : SumFunctionOnSet(Vols(a, e), D) = a.pLoad[e]
      /\ a.pLoad \in [Dir -> Nat]
  BY DEF CountsAgree
<1>2. /\ old \in SecondRec
      /\ t \in D => old = a.secs[t]
      /\ t \notin D => \A e \in Dir : old.vol[e] = 0 /\ old.pkts[e] = 0
  BY <1>1 DEF SecondOf, NoSecond, SecondRec
<1>3. /\ new \in SecondRec
      /\ \A e \in Dir : new.vol[e] = IF e = d /\ WithinVps(a, d, t)
                                     THEN old.vol[e] + load ELSE old.vol[e]
  <2> HIDE DEF old
  <2> DEFINE v == [old.vol EXCEPT ![d] = @ + load]
             p == [old.pkts EXCEPT ![d] = @ + 1]
  <2>1. [old EXCEPT !.vol[d] = @ + load, !.pkts[d] = @ + 1]
          = [old EXCEPT !.vol = v, !.pkts = p]
    OBVIOUS
  <2>2. /\ old.vol \in [Dir -> Nat] /\ old.pkts \in [Dir -> Nat]
        /\ old.vol[d] + load \in Nat /\ old.pkts[d] + 1 \in Nat
    BY <1>2 DEF SecondRec
  <2>3. /\ v \in [Dir -> Nat] /\ p \in [Dir -> Nat]
        /\ \A e \in Dir : v[e] = IF e = d THEN old.vol[e] + load ELSE old.vol[e]
    BY <2>2
  <2> HIDE DEF v, p
  <2>4. CASE WithinVps(a, d, t)
    <3>1. new = [old EXCEPT !.vol = v, !.pkts = p]
      BY <2>1, <2>4
    <3> HIDE DEF new
    <3>2. new \in SecondRec /\ new.vol = v
      BY <1>2, <2>3, <3>1 DEF SecondRec
    <3> QED  BY <2>3, <2>4, <3>2
  <2>5. CASE ~ WithinVps(a, d, t)
    BY <1>2, <2>5
  <2> QED  BY <2>4, <2>5
<1>4. ~ WithinVps(a, d, t) => t \in D
  BY <1>2, ReportsAssumption DEF WithinVps
<1> HIDE DEF new, old
<1>5. m = [a EXCEPT !.secs = [u \in D \cup {t} |-> IF u = t THEN new ELSE a.secs[u]]]
  BY DEF Measured, new, old
<1> HIDE DEF m
<1>6. /\ HasTimes(m) /\ m.start = a.start /\ m.last = a.last
      /\ m.frSize = a.frSize /\ m.pLoad = a.pLoad
      /\ m.secs = [u \in D \cup {t} |-> IF u = t THEN new ELSE a.secs[u]]
  BY <1>5 DEF HasTimes
<1>7. /\ DOMAIN m.secs = D \cup {t}
      /\ m.secs \in [D \cup {t} -> SecondRec]
  BY <1>1, <1>3, <1>6
<1>8. IsFiniteSet(D \cup {t}) /\ D \cup {t} \subseteq Int
  BY <1>1, FS_AddElement
<1>9. ASSUME NEW e \in Dir
      PROVE  SumFunctionOnSet(Vols(m, e), D \cup {t})
              = IF e = d /\ WithinVps(a, d, t) THEN a.pLoad[e] + load ELSE a.pLoad[e]
  <2> DEFINE f == Vols(a, e)
             g == Vols(m, e)
  <2>1. \A u \in D : f[u] = a.secs[u].vol[e] /\ f[u] \in Int
    BY <1>1 DEF Vols, SecondRec
  <2>2. g[t] = new.vol[e] /\ \A u \in D \ {t} : g[u] = f[u]
    BY <1>6, <1>7, <2>1 DEF Vols
  <2>3. /\ new.vol[e] \in Nat /\ old.vol[e] \in Nat
        /\ t \in D => f[t] = old.vol[e]
        /\ t \notin D => old.vol[e] = 0
        /\ SumFunctionOnSet(f, D) = a.pLoad[e] /\ a.pLoad[e] \in Nat
    BY <1>1, <1>2, <1>3, <2>1 DEF SecondRec
  <2>4. new.vol[e] = IF e = d /\ WithinVps(a, d, t) THEN old.vol[e] + load ELSE old.vol[e]
    BY <1>3
  <2> HIDE DEF f, g
  <2>5. /\ t \in D => SumFunctionOnSet(g, D \cup {t}) = SumFunctionOnSet(f, D) + (g[t] - f[t])
        /\ t \notin D => SumFunctionOnSet(g, D \cup {t}) = SumFunctionOnSet(f, D) + g[t]
    <3> DEFINE T == D \cup {t}
    <3>1. f \in [D -> Int] /\ g \in [T -> Int]
      <4>1. f \in [D -> Int]
        BY <2>1 DEF f, Vols
      <4>2. \A u \in T : g[u] \in Int
        BY <2>1, <2>2, <2>3
      <4>3. g = [u \in T |-> g[u]]
        BY <1>7 DEF g, Vols
      <4> QED  BY <4>1, <4>2, <4>3
    <3>2. \A y \in D : y # t => g[y] = f[y]
      BY <2>2
    <3>3. IsFiniteSet(D) /\ (t \in D => T = D)
      BY <1>1
    <3>4. ASSUME t \in D
          PROVE  SumFunctionOnSet(g, T) = SumFunctionOnSet(f, D) + (g[t] - f[t])
      <4> HIDE DEF D, T
      <4>1. g \in [D -> Int]
        BY <3>1, <3>3, <3>4
      <4>2. SumFunctionOnSet(g, D) = SumFunctionOnSet(f, D) + (g[t] - f[t])
        BY <3>1, <3>2, <3>3, <3>4, <4>1, SumReplaces
      <4> QED  BY <3>3, <3>4, <4>2
    <3>5. t \notin D => SumFunctionOnSet(g, T) = SumFunctionOnSet(f, D) + g[t]
      <4> HIDE DEF D
      <4>1. T = D \cup {t}
        OBVIOUS
      <4> HIDE DEF T
      <4> QED  BY <3>1, <3>2, <3>3, <4>1, SumGrows
    <3> QED  BY <3>4, <3>5
  <2>6. SumFunctionOnSet(g, D \cup {t}) = a.pLoad[e] + (new.vol[e] - old.vol[e])
    BY <2>2, <2>3, <2>5
  <2>7. SumFunctionOnSet(g, D \cup {t})
          = IF e = d /\ WithinVps(a, d, t) THEN a.pLoad[e] + load ELSE a.pLoad[e]
    BY <2>3, <2>4, <2>6
  <2> QED  BY <2>7 DEF g
<1>10. Measures(a, d, load, t, m)
  BY <1>4, <1>6, <1>7, <1>8, <1>9 DEF Measures
<1> QED  BY <1>10 DEF m

\* A packet is counted in its second and in the totals, or in neither.
LEMMA CountedAgrees ==
  ASSUME NEW a, HasTimes(a), CountsAgree(a), NEW d \in Dir, NEW load \in Nat, NEW t \in Int,
         NEW c, c = Counted(a, d, load, t)
  PROVE  /\ CountsAgree(c) /\ c.start = a.start /\ c.last = a.last
         /\ DOMAIN c.secs \subseteq DOMAIN a.secs \cup {t}
         /\ proto = "udp" /\ ~ Verdict(a, d, load, t) => DOMAIN c.secs = DOMAIN a.secs
<1> DEFINE m == IF load > 0 THEN Measured(a, d, load, t) ELSE a
           kept == IF Verdict(a, d, load, t) THEN load ELSE 0
<1>1. /\ HasTimes(m) /\ m.start = a.start /\ m.last = a.last
      /\ m.frSize = a.frSize /\ m.pLoad = a.pLoad
      /\ DOMAIN m.secs \subseteq DOMAIN a.secs \cup {t}
      /\ ~ Verdict(a, d, load, t) => DOMAIN m.secs = DOMAIN a.secs
      /\ IsFiniteSet(DOMAIN m.secs) /\ DOMAIN m.secs \subseteq Int
      /\ m.secs \in [DOMAIN m.secs -> SecondRec]
  <2>1. CASE load > 0
    <3>1. m = Measured(a, d, load, t) /\ Verdict(a, d, load, t) = WithinVps(a, d, t)
      BY <2>1 DEF Verdict
    <3>2. Measures(a, d, load, t, Measured(a, d, load, t))
      BY MeasuredAgrees
    <3> HIDE DEF m
    <3> QED  BY <3>1, <3>2 DEF Measures
  <2>2. CASE ~ (load > 0)
    <3>1. m = a
      BY <2>2
    <3> QED  BY <3>1 DEF CountsAgree
  <2> QED  BY <2>1, <2>2
<1>2. \A e \in Dir : SumFunctionOnSet(Vols(m, e), DOMAIN m.secs)
                       = IF e = d THEN a.pLoad[e] + kept ELSE a.pLoad[e]
  <2>1. CASE load > 0
    <3>1. m = Measured(a, d, load, t) /\ Verdict(a, d, load, t) = WithinVps(a, d, t)
      BY <2>1 DEF Verdict
    <3>2. \A e \in Dir : a.pLoad[e] \in Nat
      BY DEF CountsAgree
    <3>3. \A e \in Dir : SumFunctionOnSet(Vols(m, e), DOMAIN m.secs)
              = IF e = d /\ WithinVps(a, d, t) THEN a.pLoad[e] + load ELSE a.pLoad[e]
      <4>1. Measures(a, d, load, t, m)
        BY <3>1, MeasuredAgrees
      <4> HIDE DEF m
      <4> QED  BY <4>1 DEF Measures
    <3>4. kept = IF WithinVps(a, d, t) THEN load ELSE 0
      BY <3>1
    <3> HIDE DEF m, kept
    <3> QED  BY <3>2, <3>3, <3>4
  <2>2. CASE ~ (load > 0)
    <3>1. m = a /\ kept = 0
      BY <2>2
    <3>2. \A e \in Dir : /\ a.pLoad[e] \in Nat
                         /\ SumFunctionOnSet(Vols(a, e), DOMAIN a.secs) = a.pLoad[e]
      BY DEF CountsAgree
    <3> QED  BY <3>1, <3>2
  <2> QED  BY <2>1, <2>2
<1>3. /\ a.frSize \in [Dir -> Nat] /\ a.pLoad \in [Dir -> Nat]
      /\ \A e \in Dir : a.pLoad[e] <= a.frSize[e]
      /\ kept \in Nat /\ kept <= load
      /\ ~ Verdict(a, d, load, t) => kept = 0
  BY DEF CountsAgree
<1>4. c = IF proto = "udp" /\ ~ Verdict(a, d, load, t) THEN m
          ELSE [m EXCEPT !.frames = @ + 1, !.frSize[d] = @ + HeaderSize + load,
                         !.pLoad[d] = @ + kept]
  BY DEF Counted
<1> HIDE DEF m, kept
<1>5. CASE proto = "udp" /\ ~ Verdict(a, d, load, t)
  <2>1. c = m
    BY <1>4, <1>5
  <2>2. \A e \in Dir : SumFunctionOnSet(Vols(m, e), DOMAIN m.secs) = a.pLoad[e]
    BY <1>2, <1>3, <1>5
  <2>3. CountsAgree(m)
    BY <1>1, <1>3, <2>2 DEF CountsAgree
  <2> QED  BY <1>1, <1>5, <2>1, <2>3
<1>6. CASE ~ (proto = "udp" /\ ~ Verdict(a, d, load, t))
  <2> DEFINE fr == [m.frSize EXCEPT ![d] = @ + HeaderSize + load]
             pl == [m.pLoad EXCEPT ![d] = @ + kept]
  <2>1. /\ c.start = a.start /\ c.last = a.last /\ c.secs = m.secs
        /\ c.frSize = fr /\ c.pLoad = pl
    <3>1. c = [m EXCEPT !.frames = @ + 1, !.frSize = fr, !.pLoad = pl]
      BY <1>4, <1>6
    <3> HIDE DEF fr, pl
    <3> QED  BY <1>1, <3>1 DEF HasTimes
  <2>2. /\ HeaderSize \in Nat
        /\ \A e \in Dir : a.frSize[e] \in Nat /\ a.pLoad[e] \in Nat
    BY <1>3, ReportsAssumption
  <2>3. /\ \A e \in Dir : fr[e] = IF e = d THEN a.frSize[e] + HeaderSize + load
                                  ELSE a.frSize[e]
        /\ \A e \in Dir : pl[e] = IF e = d THEN a.pLoad[e] + kept ELSE a.pLoad[e]
    BY <1>1, <1>3
  <2>4. fr \in [Dir -> Nat] /\ pl \in [Dir -> Nat]
    BY <1>1, <1>3, <2>2
  <2> HIDE DEF fr, pl
  <2>5. \A e \in Dir : pl[e] <= fr[e]
    BY <1>3, <2>2, <2>3
  <2>6. \A e \in Dir : Vols(c, e) = Vols(m, e)
    BY <2>1 DEF Vols
  <2>7. \A e \in Dir : SumFunctionOnSet(Vols(c, e), DOMAIN c.secs) = c.pLoad[e]
    BY <1>2, <2>1, <2>3, <2>6
  <2>8. CountsAgree(c)
    BY <1>1, <2>1, <2>4, <2>5, <2>7 DEF CountsAgree
  <2> QED  BY <1>1, <1>6, <2>1, <2>8
<1> QED  BY <1>5, <1>6

LEMMA ArriveCounts ==
  ASSUME NEW s, HasTimes(s), CountsAgree(s), NEW kind, NEW t \in Int,
         NEW a, a = Arrive(s, kind, t)
  PROVE  /\ HasTimes(a) /\ CountsAgree(a)
         /\ a.start = s.start /\ a.last = t /\ a.secs = s.secs
<1>1. Nano * t \in Int
  BY DEF Nano
<1>2. /\ DOMAIN a = DOMAIN s /\ a.start = s.start /\ a.last = t /\ a.secs = s.secs
      /\ a.frSize = s.frSize /\ a.pLoad = s.pLoad
      /\ a.rcv = IF kind \in Handshake /\ proto = "tcp"
                 THEN [s.rcv EXCEPT ![kind] = Nano * t] ELSE s.rcv
  BY DEF HasTimes, Arrive
<1>3. HasTimes(a)
  BY <1>1, <1>2 DEF HasTimes
<1>4. CountsAgree(a)
  BY <1>2 DEF CountsAgree, Vols
<1> QED  BY <1>2, <1>3, <1>4

(* What carries it: the seconds of a session lie between the latest packet *)
(* before its start and its time limit, so that a line has room for all of *)
(* them, and the session never starts at 0.                                *)
Seconds(s) == (s.start - MaxLag) .. (s.start + SESSION_TIME_LIMIT - 1)

SumInv ==
  /\ RepInv
  /\ clock \in Int /\ clock >= FirstSec
  /\ open => /\ CountsAgree(session)
             /\ session.start > 0 /\ session.start <= clock
             /\ DOMAIN session.secs \subseteq Seconds(session)
  /\ SeriesAddUp

LEMMA SecondsFit ==
  ASSUME NEW start \in Int, NEW t, NEW S,
         S \subseteq ((start - MaxLag) .. (start + SESSION_TIME_LIMIT - 1)) \cup {t}
  PROVE  IsFiniteSet(S) /\ Cardinality(S) <= SeriesLen
<1> DEFINE I == (start - MaxLag) .. (start + SESSION_TIME_LIMIT - 1)
<1>0. /\ MaxLag \in Nat /\ SESSION_TIME_LIMIT \in Nat \ {0} /\ SeriesLen \in Nat
      /\ SeriesLen >= SESSION_TIME_LIMIT + 1 + MaxLag
  BY ReportsAssumption, SeriesHasRoom
<1>1. IsFiniteSet(I) /\ Cardinality(I) = SESSION_TIME_LIMIT + MaxLag
  <2>1. PICK lo \in Int, hi \in Int :
           lo = start - MaxLag /\ hi = start + SESSION_TIME_LIMIT - 1
    BY <1>0
  <2>2. IsFiniteSet(lo .. hi) /\ Cardinality(lo .. hi) = IF lo > hi THEN 0 ELSE hi - lo + 1
    BY FS_Interval
  <2> QED  BY <1>0, <2>1, <2>2
<1> HIDE DEF I
<1>2. /\ IsFiniteSet(I \cup {t})
      /\ Cardinality(I \cup {t}) = IF t \in I THEN Cardinality(I) ELSE Cardinality(I) + 1
  BY <1>1, FS_AddElement
<1>3. S \in SUBSET (I \cup {t})
  BY DEF I
<1>4. IsFiniteSet(S) /\ Cardinality(S) <= Cardinality(I \cup {t})
  BY <1>2, <1>3, FS_Subset
<1>5. Cardinality(S) \in Nat
  BY <1>4, FS_CardinalityType
<1>6. Cardinality(I \cup {t}) \in Int /\ Cardinality(I \cup {t}) <= SeriesLen
  BY <1>0, <1>1, <1>2
<1> QED  BY <1>0, <1>4, <1>5, <1>6

LEMMA PacketAddsUp ==
  ASSUME SumInv, NEW kind, NEW d \in Dir, NEW load \in Nat,
         NEW t \in (clock - MaxLag) .. clock, PacketOf(kind, d, load, t)
  PROVE  SumInv'
<1> DEFINE old == IF open THEN session ELSE Fresh(t)
           s == Arrive(old, kind, t)
           c == Counted(s, d, load, t)
           dropped == proto = "udp" /\ ~ Verdict(s, d, load, t)
           slice == ~ dropped /\ (AtPktLimit(c) \/ AtTimeLimit(c))
           after == IF slice THEN reuse(c) ELSE c
<1>0. /\ clock \in Int /\ t \in Int /\ t > 0 /\ t <= clock /\ t >= clock - MaxLag
      /\ MaxLag \in Nat /\ SESSION_TIME_LIMIT \in Nat \ {0}
      /\ clock >= FirstSec
  BY ReportsAssumption DEF SumInv
<1>1. /\ HasTimes(old) /\ CountsAgree(old)
      /\ old.start \in Int /\ old.start > 0 /\ old.start <= clock
      /\ DOMAIN old.secs \subseteq (old.start - MaxLag) .. (old.start + SESSION_TIME_LIMIT - 1)
  <2>1. CASE open
    BY <2>1 DEF SumInv, RepInv, HasTimes, Seconds
  <2>2. CASE ~ open
    <3>1. old = Fresh(t)
      BY <2>2
    <3>2. HasTimes(Fresh(t)) /\ CountsAgree(Fresh(t))
          /\ DOMAIN Fresh(t).secs = {} /\ Fresh(t).start = t
      BY <1>0, FreshHasTimes, FreshAgrees
    <3> HIDE DEF old
    <3> QED  BY <1>0, <3>1, <3>2
  <2> QED  BY <2>1, <2>2
<1> HIDE DEF old
<1>2. /\ HasTimes(s) /\ CountsAgree(s)
      /\ s.start = old.start /\ s.last = t /\ s.secs = old.secs
  BY <1>0, <1>1, ArriveCounts
<1> HIDE DEF s
<1>3. /\ CountsAgree(c) /\ c.start = s.start /\ c.last = s.last
      /\ DOMAIN c.secs \subseteq DOMAIN s.secs \cup {t}
      /\ dropped => DOMAIN c.secs = DOMAIN s.secs
  BY <1>0, <1>2, CountedAgrees
<1> HIDE DEF c
<1>4. Reportable(c)
  <2>1. Cardinality(DOMAIN c.secs) <= SeriesLen
    BY <1>1, <1>2, <1>3, SecondsFit
  <2> QED  BY <1>1, <1>2, <1>3, <2>1 DEF Reportable
<1>5. /\ CountsAgree(after) /\ after.start > 0 /\ after.start <= clock
      /\ DOMAIN after.secs \subseteq Seconds(after)
  <2>1. CASE slice
    <3>1. after = reuse(c)
      BY <2>1
    <3>2. c.last = t
      BY <1>2, <1>3
    <3> HIDE DEF after, slice
    <3>3. /\ after.secs = Fresh(t).secs /\ after.start = Fresh(t).start
          /\ after.frSize = Fresh(t).frSize /\ after.pLoad = Fresh(t).pLoad
      BY <3>1, <3>2 DEF reuse, Fresh
    <3>4. CountsAgree(Fresh(t)) /\ DOMAIN Fresh(t).secs = {} /\ Fresh(t).start = t
      BY FreshAgrees
    <3>5. CountsAgree(after)
      BY <3>3, <3>4 DEF CountsAgree, Vols
    <3> QED  BY <1>0, <3>3, <3>4, <3>5
  <2>2. CASE ~ slice
    <3>1. after = c
      BY <2>2
    <3>2. DOMAIN c.secs \subseteq Seconds(c)
      <4>1. CASE dropped
        BY <1>1, <1>2, <1>3, <4>1 DEF Seconds
      <4>2. CASE ~ dropped
        <5>1. ~ AtTimeLimit(c)
          BY <2>2, <4>2
        <5>2. t <= c.start + SESSION_TIME_LIMIT - 1
          BY <1>0, <1>1, <1>2, <1>3, <5>1 DEF AtTimeLimit
        <5>3. t \in (c.start - MaxLag) .. (c.start + SESSION_TIME_LIMIT - 1)
          BY <1>0, <1>1, <1>2, <1>3, <5>2
        <5> QED  BY <1>1, <1>2, <1>3, <5>3 DEF Seconds
      <4> QED  BY <4>1, <4>2
    <3> HIDE DEF after, slice, dropped
    <3> QED  BY <1>1, <1>2, <1>3, <3>1, <3>2
  <2> QED  BY <2>1, <2>2
<1>6. Reportable(after)
  <2>1. after.start \in Int /\ DOMAIN after.secs \subseteq Seconds(after) \cup {0}
    <3>1. c.start \in Int /\ c.last \in Int
      BY <1>0, <1>1, <1>2, <1>3
    <3> QED  BY <1>5, <3>1 DEF reuse, Fresh
  <2>2. Cardinality(DOMAIN after.secs) <= SeriesLen
    <3> HIDE DEF after
    <3> QED  BY <2>1, SecondsFit DEF Seconds
  <2> QED  BY <1>5, <2>2 DEF Reportable
<1>7. /\ reports' = (IF slice THEN <<Xdr(c)>> ELSE <<>>)
                      \o (IF kind = "FIN" THEN <<Xdr(after)>> ELSE <<>>)
      /\ session' = IF kind = "FIN" THEN Fresh(0) ELSE after
      /\ open' = (kind # "FIN") /\ clock' = clock
  BY DEF PacketOf, old, s, c
<1> HIDE DEF slice, after, dropped
<1>8. \A i \in DOMAIN reports' : reports'[i] \in {Xdr(c), Xdr(after)}
  BY <1>7, OneOrNone
<1>9. SaysWhatItCounts(Xdr(c)) /\ SaysWhatItCounts(Xdr(after))
  BY <1>4, <1>6, XdrSaysWhatItCounts
<1>10. SeriesAddUp'
  BY <1>8, <1>9 DEF SeriesAddUp, Reported, SaysWhatItCounts
<1>11. RepInv'
  BY <1>0, PacketKeepsOrder DEF SumInv
<1>12. open' => /\ CountsAgree(session') /\ session'.start > 0 /\ session'.start <= clock'
                /\ DOMAIN session'.secs \subseteq Seconds(session')
  BY <1>5, <1>7
<1> QED  BY <1>0, <1>7, <1>10, <1>11, <1>12 DEF SumInv, CountsAgree, Seconds, Vols, SecondRec

LEMMA SumInvStep == SumInv /\ [RepNext]_repVars => SumInv'
<1> SUFFICES ASSUME SumInv, [RepNext]_repVars PROVE SumInv'
  OBVIOUS
<1>0. RepInv'
  BY RepInvStep DEF SumInv
<1>1. CASE UNCHANGED repVars
  BY <1>0, <1>1 DEF repVars, SumInv, CountsAgree, Vols, SecondRec, Seconds, SeriesAddUp, Reported
<1>2. CASE ClockTicks
  <2>1. clock' \in Int /\ clock' >= FirstSec /\ clock' >= clock
    BY <1>2, ReportsAssumption DEF ClockTicks, SumInv
  <2>2. session' = session /\ open' = open /\ reports' = <<>>
    BY <1>2 DEF ClockTicks
  <2>3. SeriesAddUp'
    BY <2>2 DEF SeriesAddUp, Reported
  <2>4. open' => /\ CountsAgree(session)' /\ session.start' > 0 /\ session.start' <= clock'
                 /\ DOMAIN session.secs' \subseteq Seconds(session)'
    <3>1. session.start \in Int /\ clock \in Int
      BY DEF SumInv, RepInv, HasTimes
    <3>2. open => /\ CountsAgree(session)
                  /\ session.start > 0 /\ session.start <= clock'
                  /\ DOMAIN session.secs \subseteq Seconds(session)
      BY <2>1, <3>1 DEF SumInv
    <3> QED  BY <2>2, <3>2 DEF CountsAgree, Vols, SecondRec, Seconds
  <2> QED  BY <1>0, <2>1, <2>3, <2>4 DEF SumInv
<1>3. CASE CleanSession
  <2>1. /\ open /\ open' = FALSE /\ clock' = clock
        /\ reports' = <<>> \/ reports' = <<Xdr(session)>>
    BY <1>3 DEF CleanSession
  <2>2. Reportable(session)
    <3>1. session.start \in Int
      BY DEF SumInv, RepInv, HasTimes
    <3>2. Cardinality(DOMAIN session.secs) <= SeriesLen
      <4>1. DOMAIN session.secs \subseteq Seconds(session) \cup {0}
        BY <2>1 DEF SumInv
      <4> QED  BY <3>1, <4>1, SecondsFit DEF Seconds
    <3> QED  BY <2>1, <3>1, <3>2 DEF SumInv, Reportable
  <2>3. SaysWhatItCounts(Xdr(session))
    BY <2>2, XdrSaysWhatItCounts
  <2>4. SeriesAddUp'
    BY <2>1, <2>3 DEF SeriesAddUp, Reported, SaysWhatItCounts
  <2> QED  BY <1>0, <2>1, <2>4 DEF SumInv
<1>4. CASE TcpPacket
  <2>1. PICK t \in (clock - MaxLag) .. clock :
          \/ \E kind \in {"SYN", "ACK"} : PacketOf(kind, "UP", 0, t)
          \/ PacketOf("SYNACK", "DOWN", 0, t)
          \/ \E d \in Dir, load \in Payload : PacketOf("DATA", d, load, t)
          \/ \E load \in Payload \cup {0} : PacketOf("FIN", "UP", load, t)
    BY <1>4 DEF TcpPacket
  <2>2. /\ "UP" \in Dir /\ "DOWN" \in Dir
        /\ \A load \in Payload \cup {0} : load \in Nat
    BY ReportsAssumption DEF Dir
  <2>3. ASSUME NEW kind, NEW d \in Dir, NEW load \in Nat, PacketOf(kind, d, load, t)
        PROVE  SumInv'
    BY <2>3, PacketAddsUp
  <2> QED  BY <2>1, <2>2, <2>3
<1>5. CASE UdpPacket
  <2>1. PICK t \in (clock - MaxLag) .. clock, d \in Dir, load \in Payload \cup {0} :
          PacketOf("DATA", d, load, t)
    BY <1>5 DEF UdpPacket
  <2>2. load \in Nat
    BY ReportsAssumption
  <2> QED  BY <2>1, <2>2, PacketAddsUp
<1>6. CASE DnsReport \/ AaaReport
  <2>1. UNCHANGED <<clock, open, session>>
    BY <1>6 DEF DnsReport, AaaReport
  <2>2. \A i \in DOMAIN reports' :
          reports'[i].made \notin {"no_start", "spike", "no_series", "line"}
    BY <1>6 DEF DnsReport, AaaReport, DnsXdr, AaaXdr
  <2>3. SeriesAddUp'
    BY <2>2 DEF SeriesAddUp, Reported
  <2> QED  BY <1>0, <2>1, <2>3 DEF SumInv, CountsAgree, Vols, SecondRec, Seconds
<1> QED
  BY <1>1, <1>2, <1>3, <1>4, <1>5, <1>6 DEF RepNext

(* The seconds of a line add up to its payload, in each direction, and the *)
(* checks of buildTcpXdr and buildUdpXdr never drop a session: for any     *)
(* sizes and limits, any number of slices, of late packets and of packets  *)
(* that updateVPS refuses, as long as a series has room for a slice.       *)
THEOREM SecondsMakeUpPayload == RepSpec => []SeriesAddUp
<1>1. RepInit => SumInv
  <2> SUFFICES ASSUME RepInit PROVE SumInv
    OBVIOUS
  <2>1. RepInv
    BY FreshHasTimes DEF RepInit, RepInv, TimesInOrder, Reported
  <2> QED
    BY <2>1, ReportsAssumption DEF RepInit, SumInv, SeriesAddUp, Reported
<1>2. SumInv => SeriesAddUp
  BY DEF SumInv
<1> QED
  BY <1>1, <1>2, SumInvStep, PTL DEF RepSpec

-----------------------------------------------------------------------------
(* Requests and responses, for any exchanges and any keys.  The invariant  *)
(* that carries it: what waits under a key was handled, has that key, and  *)
(* has not been joined before.                                             *)

HalfInv == HalfTypeOK /\ WaitingIsFresh /\ PairsWereSeen /\ OnePartner

(* The invariant holds at the start.                                       *)
LEMMA HalfInvInit == HalfInit => HalfInv
BY DEF HalfInit, HalfInv, HalfTypeOK, WaitingIsFresh, PairsWereSeen, OnePartner

(* A half begins to wait.                                                  *)
LEMMA AwaitInv ==
  ASSUME KeysFit, HalfInv, NEW side \in Side, NEW x \in Tx, Await(side, x)
  PROVE  HalfInv'
<1> DEFINE h == <<side, x>>
<1>1. /\ h \in Half /\ h \notin seen /\ seen' = seen \cup {h} /\ pairs' = pairs
      /\ waiting' = [waiting EXCEPT ![KeyOf[x]] = h]
  BY DEF Await, See, Half
<1>2. KeyOf[x] \in Key /\ Nobody \notin Half
  BY DEF KeysFit
<1>3. HalfTypeOK'
  BY <1>1, <1>2 DEF HalfInv, HalfTypeOK
<1>4. PairsWereSeen'
  BY <1>1 DEF HalfInv, PairsWereSeen
<1>5. OnePartner'
  BY <1>1 DEF HalfInv, OnePartner
<1>6. WaitingIsFresh'
  <2> SUFFICES ASSUME NEW k \in Key, waiting'[k] # Nobody
               PROVE  /\ waiting'[k] \in seen'
                      /\ KeyOf[waiting'[k][2]] = k
                      /\ \A p \in pairs' : waiting'[k] \notin
                           {<<"request", p[1]>>, <<"response", p[2]>>}
    BY DEF WaitingIsFresh
  <2>1. CASE k = KeyOf[x]
    <3>1. waiting'[k] = h
      BY <2>1, <1>1, <1>2 DEF HalfInv, HalfTypeOK
    <3>2. \A p \in pairs : h \notin {<<"request", p[1]>>, <<"response", p[2]>>}
      BY <1>1 DEF HalfInv, PairsWereSeen
    <3> QED
      BY <2>1, <3>1, <3>2, <1>1
  <2>2. CASE k # KeyOf[x]
    <3>1. waiting'[k] = waiting[k]
      BY <2>2, <1>1 DEF HalfInv, HalfTypeOK
    <3> QED
      BY <3>1, <1>1 DEF HalfInv, WaitingIsFresh
  <2> QED
    BY <2>1, <2>2
<1> QED
  BY <1>3, <1>4, <1>5, <1>6 DEF HalfInv

(* A half is joined with the one that waits.                               *)
LEMMA JoinInv ==
  ASSUME KeysFit, HalfInv, NEW side \in Side, NEW x \in Tx, NEW y \in Tx, Join(side, x, y)
  PROVE  HalfInv'
<1> DEFINE h == <<side, x>>
           g == <<Other(side), y>>
           new == Pair(side, x, y)
<1>1. /\ h \notin seen /\ seen' = seen \cup {h}
      /\ waiting[KeyOf[x]] = g
      /\ waiting' = [waiting EXCEPT ![KeyOf[x]] = Nobody]
      /\ pairs' = pairs \cup {new}
  BY DEF Join, See
<1>2. KeyOf[x] \in Key /\ Nobody \notin Half
  BY DEF KeysFit
<1>3. h \in Half /\ g \in Half /\ g # Nobody
  BY <1>2 DEF Half, Side, Other
<1>4. /\ g \in seen /\ KeyOf[y] = KeyOf[x]
      /\ \A p \in pairs : g \notin {<<"request", p[1]>>, <<"response", p[2]>>}
  BY <1>1, <1>2, <1>3 DEF HalfInv, WaitingIsFresh
<1>5. \A p \in pairs : h \notin {<<"request", p[1]>>, <<"response", p[2]>>}
  BY <1>1 DEF HalfInv, PairsWereSeen
<1>6. /\ new \in Tx \X Tx
      /\ {<<"request", new[1]>>, <<"response", new[2]>>} = {h, g}
      /\ KeyOf[new[1]] = KeyOf[new[2]]
  BY <1>4 DEF Pair, Side, Other
<1>7. HalfTypeOK'
  <2>1. waiting' \in [Key -> Half \cup {Nobody}]
    BY <1>1 DEF HalfInv, HalfTypeOK
  <2>2. seen' \subseteq Half /\ pairs' \subseteq Tx \X Tx
    BY <1>1, <1>3, <1>6 DEF HalfInv, HalfTypeOK
  <2> QED
    BY <2>1, <2>2 DEF HalfTypeOK
<1>8. PairsWereSeen'
  BY <1>1, <1>4, <1>6 DEF HalfInv, PairsWereSeen
<1>9. OnePartner'
  <2>1. \A p \in pairs : p[1] # new[1] /\ p[2] # new[2]
    BY <1>4, <1>5, <1>6
  <2> HIDE DEF new
  <2> QED
    BY <2>1, <1>1, <1>6 DEF HalfInv, OnePartner
<1>10. WaitingIsFresh'
  <2> SUFFICES ASSUME NEW k \in Key, waiting'[k] # Nobody
               PROVE  /\ waiting'[k] \in seen'
                      /\ KeyOf[waiting'[k][2]] = k
                      /\ \A p \in pairs' : waiting'[k] \notin
                           {<<"request", p[1]>>, <<"response", p[2]>>}
    BY DEF WaitingIsFresh
  <2>1. k # KeyOf[x] /\ waiting'[k] = waiting[k]
    BY <1>1 DEF HalfInv, HalfTypeOK
  <2>2. /\ waiting[k] \in seen /\ KeyOf[waiting[k][2]] = k
        /\ \A p \in pairs : waiting[k] \notin
             {<<"request", p[1]>>, <<"response", p[2]>>}
    BY <2>1 DEF HalfInv, WaitingIsFresh
  <2>3. waiting[k] \notin {h, g}
    BY <2>1, <2>2, <1>1, <1>4
  <2> HIDE DEF h, g, new
  <2> QED
    BY <2>1, <2>2, <2>3, <1>1, <1>6
<1> QED
  BY <1>7, <1>8, <1>9, <1>10 DEF HalfInv

(* A half is ignored.                                                      *)
LEMMA IgnoreInv ==
  ASSUME HalfInv, NEW side \in Side, NEW x \in Tx, Ignore(side, x)
  PROVE  HalfInv'
<1>1. /\ seen' = seen \cup {<<side, x>>} /\ <<side, x>> \in Half
      /\ waiting' = waiting /\ pairs' = pairs
  BY DEF Ignore, See, Half
<1> QED
  BY <1>1 DEF HalfInv, HalfTypeOK, WaitingIsFresh, PairsWereSeen, OnePartner

(* Halves are given up.                                                    *)
LEMMA GiveUpInv ==
  ASSUME HalfInv, NEW K \in SUBSET Key, GiveUp(K)
  PROVE  HalfInv'
<1>1. /\ waiting' \in [Key -> Half \cup {Nobody}]
      /\ \A k \in Key : waiting'[k] # Nobody => waiting'[k] = waiting[k]
      /\ seen' = seen /\ pairs' = pairs
  BY DEF GiveUp, HalfInv, HalfTypeOK
<1> QED
  BY <1>1 DEF HalfInv, HalfTypeOK, WaitingIsFresh, PairsWereSeen, OnePartner

(* Every step keeps the invariant.                                         *)
LEMMA HalfInvStep == KeysFit /\ HalfInv /\ [HalfNext]_halfVars => HalfInv'
<1> SUFFICES ASSUME KeysFit, HalfInv, [HalfNext]_halfVars PROVE HalfInv'
  OBVIOUS
<1>1. ASSUME NEW side \in Side, NEW x \in Tx, Come(side, x) PROVE HalfInv'
  BY <1>1, AwaitInv, JoinInv, IgnoreInv DEF Come
<1>2. ASSUME NEW K \in SUBSET Key, GiveUp(K) PROVE HalfInv'
  BY <1>2, GiveUpInv
<1>3. CASE UNCHANGED halfVars
  BY <1>3 DEF halfVars, HalfInv, HalfTypeOK, WaitingIsFresh, PairsWereSeen, OnePartner
<1> QED
  BY <1>1, <1>2, <1>3 DEF HalfNext

(* A request has one response and a response one request in what is        *)
(* reported.  DnsSession and AaaSession implement HalfJoin, so it holds of *)
(* their reports.                                                          *)
THEOREM EveryHalfHasOnePartner == KeysFit /\ HalfSpec => []OnePartner
<1>1. HalfInv => OnePartner
  BY DEF HalfInv
<1>2. CASE KeysFit
  <2>1. HalfInv /\ [HalfNext]_halfVars => HalfInv'
    BY <1>2, HalfInvStep
  <2> QED
    BY HalfInvInit, <2>1, <1>1, PTL DEF HalfSpec
<1> QED
  BY <1>2
==============================================================================
