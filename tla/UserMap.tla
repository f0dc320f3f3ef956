------------------------------- MODULE UserMap --------------------------------
(***************************************************************************)
(* The maps that attribute traffic to subscribers: aaaGlbUserIpMap gives   *)
(* the user of an address, aaaGlbUserIdMap the address of a user.          *)
(* Accounting records change them (AaaSMInterface::updateGlbTable); the    *)
(* main thread dumps them to a file, and loads or clears them              *)
(* (Initialize.cpp, the loop of SpectaProbe::start).  Everything here      *)
(* happens inside lockAAAMap (see MapLock), one section at a time.         *)
(*                                                                         *)
(* The network is part of the model: it assigns addresses to users, and    *)
(* its accounting records reach the maps late, in another order than those *)
(* of other users (each is handled by one of several session managers), or *)
(* not at all.                                                             *)
(***************************************************************************)
EXTENDS Integers, Sequences, FiniteSets, SequencesExt

CONSTANTS
  User,         \* the user names
  Unnamed,      \* those among them shorter than 3 or with a ":" (MAC address)
  Ip,           \* IPv4 addresses, as the numbers the code keeps
  Instance,     \* the probes: 1 keeps and dumps the maps, others load them
  MaxInFlight,  \* bound: records on their way
  MaxLost,      \* bound: users of whom STOP records never arrive
  MaxEvents,    \* bound: assignments and releases of addresses
  MaxLoads      \* bound: loads of the file

ASSUME UserMapAssumption ==
  /\ Unnamed \subseteq User
  /\ Ip \subseteq Nat
  /\ Instance \subseteq Nat
  /\ MaxInFlight \in Nat /\ MaxLost \in Nat
  /\ MaxEvents \in Nat /\ MaxLoads \in Nat

VARIABLES
  INSTANCE_ID, \* SMGlobal::INSTANCE_ID, which never changes
  ipMap,    \* aaaGlbUserIpMap: address -> user
  idMap,    \* aaaGlbUserIdMap: user -> allocatedIpLong
  file,     \* aaaUserIpv4.csv: address -> user
  main,     \* the main thread: before its first load, in its loop, or between
            \* clear and load
  \* The network:
  online,   \* address -> user it is assigned to
  inFlight, \* accounting records on their way to the maps
  lost,     \* the users of whom a STOP record was lost
  events,   \* how many assignments and releases there were
  loads,    \* how many loads there were
  \* History:
  inOrder,  \* no record has overtaken another
  told,     \* what the records that came in say: address -> user
  current,  \* every load so far was of a file that said the same as they
  placed    \* the users whose entry in idMap a record has made since the last
            \* load or clear

maps == <<ipMap, idMap>>
network == <<online, inFlight, lost, events>>
history == <<inOrder, told, current, placed>>
vars == <<INSTANCE_ID, maps, file, main, network, loads, history>>

\* std::map operations.
Put(m, k, v) == [x \in DOMAIN m \cup {k} |-> IF x = k THEN v ELSE m[x]]
Drop(m, k) == [x \in DOMAIN m \ {k} |-> m[x]]

PartialMap(S, T) == UNION {[D -> T] : D \in SUBSET S}
EmptyMap == [x \in {} |-> x]

Named == User \ Unnamed

Record ==
  [type : {"START", "UPDATE", "STOP"}, user : User, ip : Ip]

-----------------------------------------------------------------------------
(* updateGlbTable.                                                         *)

\* Mutant: a user does not replace the one who had the address.
ClaimKeepsOwner(u, ip) ==
  IF u \in DOMAIN idMap /\ idMap[u] = ip
  THEN UNCHANGED <<ipMap, idMap>>
  ELSE /\ ipMap' = LET m == IF u \in DOMAIN idMap THEN Drop(ipMap, idMap[u])
                            ELSE ipMap
                   IN  IF ip \in DOMAIN m THEN m ELSE Put(m, ip, u)
       /\ idMap' = Put(idMap, u, ip)

\* Mutant: the former address of a user is not erased.
ClaimKeepsOldAddress(u, ip) ==
  IF u \in DOMAIN idMap /\ idMap[u] = ip
  THEN UNCHANGED <<ipMap, idMap>>
  ELSE ipMap' = Put(ipMap, ip, u) /\ idMap' = Put(idMap, u, ip)

\* START and UPDATE.  A user at the address already known is left as it is.
Claim(u, ip) ==
  IF u \in DOMAIN idMap /\ idMap[u] = ip
  THEN UNCHANGED <<ipMap, idMap>>
  ELSE /\ ipMap' = Put(IF u \in DOMAIN idMap THEN Drop(ipMap, idMap[u])
                       ELSE ipMap, ip, u)
       /\ idMap' = Put(idMap, u, ip)

\* STOP.  The address is the one in the map, not the one of the record.
Stop(u) ==
  IF u \in DOMAIN idMap
  THEN /\ ipMap' = Drop(ipMap, idMap[u])
       /\ idMap' = Drop(idMap, u)
  ELSE UNCHANGED <<ipMap, idMap>>

\* One record.  The section for IPv6 prefixes behind it never runs: nothing
\* sets ipv6AddressPrefixFlag.
Account(r) ==
  IF r.user \in Unnamed THEN UNCHANGED maps
  ELSE IF r.type = "STOP" THEN Stop(r.user)
  ELSE Claim(r.user, r.ip)

-----------------------------------------------------------------------------
(* The network and the AAA session managers.                               *)

Send(r) ==
  /\ Len(inFlight) < MaxInFlight
  /\ inFlight' = Append(inFlight, r)

\* A free address is assigned to a user without one.
Assign(u, ip) ==
  /\ events < MaxEvents
  /\ ip \notin DOMAIN online
  /\ \A i \in DOMAIN online : online[i] # u
  /\ online' = Put(online, ip, u)
  /\ Send([type |-> "START", user |-> u, ip |-> ip])
  /\ events' = events + 1
  /\ UNCHANGED <<maps, file, main, lost, loads, history>>

\* The periodic record of a user who is online.
Interim(ip) ==
  /\ ip \in DOMAIN online
  /\ Send([type |-> "UPDATE", user |-> online[ip], ip |-> ip])
  /\ UNCHANGED <<maps, file, main, online, lost, events, loads, history>>

Release(ip) ==
  /\ events < MaxEvents
  /\ ip \in DOMAIN online
  /\ online' = Drop(online, ip)
  /\ \/ /\ Send([type |-> "STOP", user |-> online[ip], ip |-> ip])
        /\ UNCHANGED lost
     \/ /\ lost' = lost \cup {online[ip]}
        /\ Cardinality(lost') <= MaxLost
        /\ UNCHANGED inFlight
  /\ events' = events + 1
  /\ UNCHANGED <<maps, file, main, loads, history>>

\* What is said after a record: who has which address.
Told(m, r) ==
  IF r.user \in Unnamed \/ r.type = "UPDATE" THEN m
  ELSE IF r.type = "START" THEN Put(m, r.ip, r.user) ELSE Drop(m, r.ip)

\* Request and response of a record have met (AaaSession): it is applied.
\* Records of one user arrive in order.  The AAA agent of a probe that does
\* not dump refuses every packet: its maps come from the files it loads.
Apply(i) ==
  /\ INSTANCE_ID = 1
  /\ \A j \in 1 .. (i - 1) : inFlight[j].user # inFlight[i].user
  /\ Account(inFlight[i])
  /\ inFlight' = RemoveAt(inFlight, i)
  /\ inOrder' = (inOrder /\ i = 1)
  /\ told' = Told(told, inFlight[i])
  /\ LET u == inFlight[i].user
     IN  placed' = IF idMap' = idMap THEN placed
                   ELSE IF u \in DOMAIN idMap' THEN placed \cup {u}
                   ELSE placed \ {u}
  /\ UNCHANGED <<file, main, online, lost, events, loads, current>>

-----------------------------------------------------------------------------
(* The main thread.                                                        *)

\* dumpAAAData, into a new file that replaces the old one.
Dump ==
  /\ INSTANCE_ID = 1
  /\ main = "loop"
  /\ file' = ipMap
  /\ UNCHANGED <<maps, main, network, loads, history>>

\* Another probe has dumped its map.
ForeignDump ==
  /\ INSTANCE_ID # 1
  /\ loads < MaxLoads
  /\ file' \in PartialMap(Ip, Named)
  /\ UNCHANGED <<maps, main, network, loads, history>>

\* loadAAAData goes through the file by address, so that of two addresses
\* of one user the last one stays in idMap.  The probe that dumps loads
\* after its start and after a clear, the others again and again.
LoadedAs(u, ip) ==
  /\ ip \in DOMAIN file /\ file[ip] = u
  /\ \A i \in DOMAIN file : file[i] = u => i <= ip

Load ==
  /\ main # "loop" \/ INSTANCE_ID # 1
  /\ loads < MaxLoads
  /\ loads' = loads + 1
  /\ main' = "loop"
  /\ ipMap' = [i \in DOMAIN ipMap \cup DOMAIN file |->
                 IF i \in DOMAIN file THEN file[i] ELSE ipMap[i]]
  /\ LET inFile == {file[i] : i \in DOMAIN file}
     IN  \E last \in [inFile -> Ip] :
           /\ \A u \in inFile : LoadedAs(u, last[u])
           /\ idMap' = [u \in DOMAIN idMap \cup inFile |->
                          IF u \in inFile THEN last[u] ELSE idMap[u]]
  /\ current' = (current /\ file = told)
  /\ placed' = {}
  /\ UNCHANGED <<file, network, inOrder, told>>

\* Mutant: the load behind the clear is forgotten.
ClearAlone ==
  /\ INSTANCE_ID = 1
  /\ loads < MaxLoads
  /\ main = "loop"
  /\ ipMap' = EmptyMap
  /\ placed' = {}
  /\ UNCHANGED <<idMap, file, main, network, loads, inOrder, told, current>>

\* clearAAAData at the change of the day: one map only, and the load that
\* follows is a lock section of its own.
Clear ==
  /\ INSTANCE_ID = 1
  /\ loads < MaxLoads
  /\ main = "loop"
  /\ ipMap' = EmptyMap
  /\ main' = "reload"
  /\ placed' = {}
  /\ UNCHANGED <<idMap, file, network, loads, inOrder, told, current>>

-----------------------------------------------------------------------------
\* The addresses of the users with a name.
NamedOnline == [ip \in {i \in DOMAIN online : online[i] \in Named} |-> online[ip]]

\* Users are online when the probe starts, and the file is what earlier runs
\* have left.
Init ==
  /\ INSTANCE_ID \in Instance
  /\ ipMap = EmptyMap /\ idMap = EmptyMap
  /\ file \in PartialMap(Ip, Named)
  /\ main = "start"
  /\ online \in PartialMap(Ip, User)
  /\ \A i, j \in DOMAIN online : online[i] = online[j] => i = j
  /\ inFlight = <<>>
  /\ lost = {} /\ events = 0 /\ loads = 0
  /\ inOrder = TRUE /\ told = NamedOnline /\ current = TRUE /\ placed = {}

Network ==
  \E ip \in Ip : Interim(ip) \/ Release(ip) \/ \E u \in User : Assign(u, ip)

MainThread == Dump \/ ForeignDump \/ Clear \/ Load

Next ==
  /\ \/ Network
     \/ \E i \in DOMAIN inFlight : Apply(i)
     \/ MainThread
  /\ UNCHANGED INSTANCE_ID

Spec == Init /\ [][Next]_vars

-----------------------------------------------------------------------------
(* Properties.                                                             *)

TypeOK ==
  /\ ipMap \in PartialMap(Ip, Named)
  /\ idMap \in PartialMap(Named, Ip)
  /\ file \in PartialMap(Ip, Named)
  /\ main \in {"start", "loop", "reload"}
  /\ online \in PartialMap(Ip, User)
  /\ inFlight \in Seq(Record)
  /\ lost \subseteq User /\ events \in Nat /\ loads \in Nat
  /\ INSTANCE_ID \in Nat /\ inOrder \in BOOLEAN
  /\ told \in PartialMap(Ip, Named) /\ current \in BOOLEAN
  /\ placed \subseteq DOMAIN idMap

\* The addresses attributed to a user who is not known to have them.
Stale ==
  {ip \in DOMAIN ipMap :
     ipMap[ip] \in DOMAIN idMap => idMap[ipMap[ip]] # ip}

(* Accounting records alone keep the two maps in step, whatever order they *)
(* come in and whichever are lost, and clearing one map does.  A load      *)
(* leaves no address with a user whom idMap knows elsewhere or not at all, *)
(* unless the file gives that user another address.                        *)
OnlyLoadsMakeStale ==
  [][\A ip \in Stale' \ Stale :
       loads' # loads /\ \E i \in DOMAIN file \ {ip} : file[i] = ipMap'[ip]]_vars

(* What loads of old files have spoilt, accounting repairs, user by user:  *)
(* after any number of loads and day changes, once a record has placed a   *)
(* user and all records are in, his address may be attributed to nobody,   *)
(* but not to another user.  Nor do lost STOPs of other users do so, or    *)
(* records that overtake each other: it takes both, and then the address   *)
(* is attributed to a user whose STOP was lost.                            *)
NeverAnotherUser ==
  inFlight = <<>> =>
    \A ip \in DOMAIN online \cap DOMAIN ipMap :
      online[ip] \in placed \ lost =>
        \/ ipMap[ip] = online[ip]
        \/ ipMap[ip] \in lost /\ ~ inOrder

(* With records that come all and in order, the maps are exact, as long as *)
(* the loads at the start and at day changes were of files that said what  *)
(* the records said by then: a load of a dump that no record has overtaken *)
(* keeps the maps exact.  (Between clear and load, and before the first    *)
(* load, they are not.)  A probe that only loads hears of no record: it is *)
(* exact after a load of the true addresses, until somebody comes or goes. *)
ExactWhenReliable ==
  (inOrder /\ inFlight = <<>> /\ lost = {} /\ current /\ main = "loop")
    => \A ip \in Ip : \A u \in Named :
         (ip \in DOMAIN online /\ online[ip] = u)
           <=> (ip \in DOMAIN ipMap /\ ipMap[ip] = u)
=============================================================================
