---------------------------- MODULE Configuration -----------------------------
(***************************************************************************)
(* How server.config is read (GConfig.cpp).  The file is read 15 times,    *)
(* once per group of settings.  Each pass goes through the words of the    *)
(* file and compares each with the keys of its group; on a match the next  *)
(* word is the value.  Nothing else tells a key from a value or a comment. *)
(*                                                                         *)
(* A line of the file is a key and its value, or a key alone.  A value is  *)
(* a list of groups of words: "1,2-3" is <<<<"1","2">>, <<"3">>>>.  Only   *)
(* ROUTER_CORE has more than one group: to the other getters "-" is a      *)
(* character as any other.  Arrays of SMGlobal are shown up to the last    *)
(* element that was ever written; no list is longer than its array.        *)
(***************************************************************************)
EXTENDS Integers, Sequences, FiniteSets, FiniteSetsExt, SequencesExt, Functions, TLC

CONSTANTS
  Line,     \* the lines of which files are made: [key, value]
  FileLen,  \* bound: lines of a file
  Numeral,  \* the numbers among the words
  Subnet    \* the networks among them: [addr, bits], addr the last octet

ASSUME ConfigurationAssumption ==
  /\ \A l \in Line : l.key \in STRING /\ l.value \in Seq(Seq(STRING))
  /\ FileLen \in Nat
  /\ \A w \in DOMAIN Numeral : Numeral[w] \in Nat
  /\ \A w \in DOMAIN Subnet :
       Subnet[w].addr \in 0 .. 255 /\ Subnet[w].bits \in 0 .. 32

VARIABLES
  file,  \* the lines
  pass,  \* the pass, and after the last one 16
  pos,   \* where it is
  conf   \* the settings of SMGlobal

confVars == <<file, pass, pos, conf>>

-----------------------------------------------------------------------------
(* What the getters do with their value, in the order of the source.       *)

Getter(how, limit) == [how |-> how, limit |-> limit]
Number == Getter("number", "none")
Flag == Getter("flag", "none")
Text == Getter("text", "none")
Words == Getter("words", "none")
WordsUpTo(limit) == Getter("words", limit)
Longs == Getter("longs", "none")
LongsUpTo(limit) == Getter("longs", limit)
NumbersUpTo(limit) == Getter("numbers", limit)
Groups == Getter("groups", "NO_OF_INTERFACE_SUPPORT")
Networks == Getter("networks", "none")

As(keys, getter) == [k \in keys |-> getter]

Peers1 == As({"PEERING_I3DNET", "PEERING_VERISIGN", "PEERING_SUBSPACE",
              "PEERING_EDGECAST", "PEERING_FASTLY"}, Networks)
Peers2 == As({"PEERING_PKT_CLEARING_HOUSE", "PEERING_HUAWEI_CLOUD",
              "PEERING_TENCENT", "PEERING_ALIBABA", "PEERING_QUANTIL"}, Networks)
Peers3 == As({"PEERING_MICROSOFT", "PEERING_LIMELIGHT", "PEERING_ZENLAYER",
              "PEERING_CLOUDFLARE", "PEERING_DE_CIX"}, Networks)
Peers4 == As({"PEERING_AKAMAI", "PEERING_NETFLIX", "PEERING_GOOGLE",
              "PEERING_FACEBOOK", "PEERING_AMAZON"}, Networks)
Pools == As({"UNKNOWN_SOURCE_POOL", "CACHE_IP_POOL"}, Networks)

LogGetters ==
  As({"INSTANCE_ID", "PROBE_ID", "LOG_LEVEL", "PRINT_STATS_FREQ_SEC",
      "LOG_STATS_FREQ_SEC"}, Number)
    @@ As({"PRINT_STATS"}, Flag)

DirGetters == As({"LOG_DIR", "XDR_DIR", "UNM_DIR"}, Text) @@ As({"DATA_DIR"}, Words)

AdminGetters ==
  As({"ADMIN_FLAG"}, Flag) @@ As({"ADMIN_PORT"}, Text)
    @@ As({"DNS_LOAD_FREQ_SEC", "AAA_LOAD_FREQ_SEC", "AAA_DUMP_FREQ_SEC",
           "TIMER_THREAD_CORE"}, Number)

InterfaceGetters ==
  As({"NO_OF_INTERFACE_SUPPORT"}, Number) @@ As({"INTERFACE_NAME"}, Words)

\* Only the list for TCP is cut.
PpsGetters ==
  As({"TCP_PPS_PER_INTERFACE"}, LongsUpTo("NO_OF_INTERFACE_SUPPORT"))
    @@ As({"UDP_PPS_PER_INTERFACE", "AAA_PPS_PER_INTERFACE",
           "DNS_PPS_PER_INTERFACE"}, Longs)

AddressGetters ==
  As({"TCP_SERVER_ADDRESS", "UDP_SERVER_ADDRESS", "AAA_SERVER_ADDRESS",
      "DNS_SERVER_ADDRESS"}, WordsUpTo("NO_OF_INTERFACE_SUPPORT"))

AgentCoreGetters ==
  As({"TCP_AGENT_CORE", "UDP_AGENT_CORE", "AAA_AGENT_CORE",
      "DNS_AGENT_CORE"}, NumbersUpTo("NO_OF_INTERFACE_SUPPORT"))

RouterGetters ==
  As({"ROUTER_PER_INTERFACE"}, NumbersUpTo("NO_OF_INTERFACE_SUPPORT"))
    @@ As({"ROUTER_CORE"}, Groups)

LimitGetters ==
  As({"SESSION_PKT_LIMIT", "SESSION_TIME_LIMIT", "VPS_PACKET_PER_SEC",
      "DAY_CLEAN_HOUR", "DAY_CLEAN_MIN", "DAY_CLEAN_SEC"}, Number)

TcpGetters ==
  As({"TCP_SM_INSTANCES", "TCP_FLUSHER_INSTANCE", "TCP_CLEAN_UP_TIMEOUT_SEC"}, Number)
    @@ As({"TCP_SM_CORE"}, NumbersUpTo("TCP_SM_INSTANCES"))
    @@ As({"TCP_FLUSHER_CORE"}, NumbersUpTo("TCP_FLUSHER_INSTANCE"))
    @@ As({"TCP_FILE_PREFIX"}, Text)
    @@ As({"CHECK_DUPLICATE_PKT", "PROCESS_ACK", "ACK_CREATE_SESSION"}, Flag)

UdpGetters ==
  As({"UDP_SM_INSTANCES", "UDP_FLUSHER_INSTANCE", "UDP_CLEAN_UP_TIMEOUT_SEC"}, Number)
    @@ As({"UDP_SM_CORE"}, NumbersUpTo("UDP_SM_INSTANCES"))
    @@ As({"UDP_FLUSHER_CORE"}, NumbersUpTo("UDP_FLUSHER_INSTANCE"))
    @@ As({"UDP_FILE_PREFIX"}, Text) @@ As({"UDP_XDR_FOR_DNS"}, Flag)

DnsGetters ==
  As({"DNS_SM_INSTANCES", "DNS_FLUSHER_INSTANCE", "DNS_CLEAN_UP_TIMEOUT_SEC"}, Number)
    @@ As({"DNS_SM_CORE"}, NumbersUpTo("DNS_SM_INSTANCES"))
    @@ As({"DNS_FLUSHER_CORE"}, NumbersUpTo("DNS_FLUSHER_INSTANCE"))
    @@ As({"DNS_FILE_PREFIX"}, Text)

AaaGetters ==
  As({"AAA_SM_INSTANCES", "AAA_FLUSHER_INSTANCE", "AAA_CLEAN_UP_TIMEOUT_SEC"}, Number)
    @@ As({"AAA_SM_CORE"}, NumbersUpTo("AAA_SM_INSTANCES"))
    @@ As({"AAA_FLUSHER_CORE"}, NumbersUpTo("AAA_FLUSHER_INSTANCE"))
    @@ As({"AAA_FILE_PREFIX"}, Text)

UnmGetters ==
  As({"UNM_SM_INSTANCES", "UNM_FLUSHER_CORE"}, Number)
    @@ As({"UNM_SM_CORE"}, NumbersUpTo("UNM_SM_INSTANCES"))

GetterOf ==
  Peers1 @@ Peers2 @@ Peers3 @@ Peers4 @@ Pools @@ LogGetters @@ DirGetters
    @@ AdminGetters @@ InterfaceGetters @@ PpsGetters @@ AddressGetters
    @@ AgentCoreGetters @@ RouterGetters @@ LimitGetters @@ TcpGetters
    @@ UdpGetters @@ DnsGetters @@ AaaGetters @@ UnmGetters

Key == DOMAIN GetterOf

-----------------------------------------------------------------------------
(* The passes.                                                             *)

InterfaceKeys == {"NO_OF_INTERFACE_SUPPORT", "INTERFACE_NAME", "INSTANCE_ID"}
AgentKeys == DOMAIN AddressGetters \cup DOMAIN PpsGetters \cup DOMAIN AgentCoreGetters
RouterKeys == DOMAIN RouterGetters
ManagerKeys ==
  {"TCP_SM_INSTANCES", "UDP_SM_INSTANCES", "DNS_SM_INSTANCES",
   "AAA_SM_INSTANCES", "UNM_SM_INSTANCES", "TCP_SM_CORE", "UDP_SM_CORE",
   "DNS_SM_CORE", "AAA_SM_CORE", "UNM_SM_CORE"}
FlusherKeys ==
  {"TCP_FLUSHER_INSTANCE", "UDP_FLUSHER_INSTANCE", "DNS_FLUSHER_INSTANCE",
   "AAA_FLUSHER_INSTANCE", "TCP_FLUSHER_CORE", "UDP_FLUSHER_CORE",
   "DNS_FLUSHER_CORE", "AAA_FLUSHER_CORE", "UNM_FLUSHER_CORE"}
PrefixKeys ==
  {"TCP_FILE_PREFIX", "UDP_FILE_PREFIX", "DNS_FILE_PREFIX", "AAA_FILE_PREFIX"}
CleanUpKeys ==
  {"TCP_CLEAN_UP_TIMEOUT_SEC", "UDP_CLEAN_UP_TIMEOUT_SEC",
   "DNS_CLEAN_UP_TIMEOUT_SEC", "AAA_CLEAN_UP_TIMEOUT_SEC"}
EndOfDayKeys == {"DAY_CLEAN_HOUR", "DAY_CLEAN_MIN", "DAY_CLEAN_SEC"}
TimerKeys == {"TIMER_THREAD_CORE"}
DirKeys == DOMAIN DirGetters
TcpKeys ==
  {"VPS_PACKET_PER_SEC", "SESSION_PKT_LIMIT", "SESSION_TIME_LIMIT",
   "CHECK_DUPLICATE_PKT", "PROCESS_ACK", "ACK_CREATE_SESSION"}
UdpKeys == {"UDP_XDR_FOR_DNS"}
AdminKeys ==
  {"ADMIN_FLAG", "ADMIN_PORT", "DNS_LOAD_FREQ_SEC", "AAA_LOAD_FREQ_SEC",
   "AAA_DUMP_FREQ_SEC"}
LogKeys ==
  {"PRINT_STATS", "PROBE_ID", "LOG_LEVEL", "PRINT_STATS_FREQ_SEC",
   "LOG_STATS_FREQ_SEC"}
PeeringKeys ==
  DOMAIN Peers1 \cup DOMAIN Peers2 \cup DOMAIN Peers3 \cup DOMAIN Peers4
    \cup DOMAIN Pools

PassKeys ==
  <<InterfaceKeys, AgentKeys, RouterKeys, ManagerKeys, FlusherKeys, PrefixKeys,
    CleanUpKeys, EndOfDayKeys, TimerKeys, DirKeys, TcpKeys, UdpKeys, AdminKeys,
    LogKeys, PeeringKeys>>

-----------------------------------------------------------------------------
(* What is set before a file is read.                                      *)

NumberDefaults ==
  As({"NO_OF_INTERFACE_SUPPORT", "TCP_SM_INSTANCES", "UDP_SM_INSTANCES",
      "DNS_SM_INSTANCES", "AAA_SM_INSTANCES", "UNM_SM_INSTANCES",
      "TCP_FLUSHER_INSTANCE", "UDP_FLUSHER_INSTANCE", "DNS_FLUSHER_INSTANCE",
      "AAA_FLUSHER_INSTANCE"}, 1)
    @@ As(CleanUpKeys, 120)
    @@ ("DAY_CLEAN_HOUR" :> 23) @@ ("DAY_CLEAN_MIN" :> 59) @@ ("DAY_CLEAN_SEC" :> 30)
    @@ As({"UNM_FLUSHER_CORE", "TIMER_THREAD_CORE", "INSTANCE_ID"}, 0)

LimitDefaults ==
  ("VPS_PACKET_PER_SEC" :> 1000) @@ ("SESSION_PKT_LIMIT" :> 5000)
    @@ ("SESSION_TIME_LIMIT" :> 900) @@ ("PROBE_ID" :> 10) @@ ("LOG_LEVEL" :> 4)
    @@ As({"PRINT_STATS_FREQ_SEC", "LOG_STATS_FREQ_SEC"}, 30)
    @@ ("DNS_LOAD_FREQ_SEC" :> 480) @@ ("AAA_LOAD_FREQ_SEC" :> 600)
    @@ ("AAA_DUMP_FREQ_SEC" :> 180)

TextDefaults ==
  ("TCP_FILE_PREFIX" :> <<<<"tcp">>>>) @@ ("UDP_FILE_PREFIX" :> <<<<"udp">>>>)
    @@ ("DNS_FILE_PREFIX" :> <<<<"dns">>>>) @@ ("AAA_FILE_PREFIX" :> <<<<"aaa">>>>)

\* All flags are down, everything else is empty.
Defaults ==
  NumberDefaults @@ LimitDefaults @@ TextDefaults
    @@ [k \in Key |-> IF GetterOf[k].how = "flag" THEN FALSE ELSE <<>>]

-----------------------------------------------------------------------------
(* Values.                                                                 *)

\* The words of a list, that is of the only group of a value.
Elements(value) == IF value = <<>> THEN <<>> ELSE value[1]

\* The arrays lists are written into.  No getter knows them: lists are cut by
\* another setting, which nothing checks, or not at all.
Room(k) ==
  CASE GetterOf[k].how = "networks" -> 2000
    [] k \in {"TCP_SM_CORE", "UDP_SM_CORE"} -> 25
    [] k = "DNS_SM_CORE" -> 15
    [] k \in {"AAA_SM_CORE", "DATA_DIR"} -> 5
    [] k = "UNM_SM_CORE" -> 4
    [] k \in {"TCP_FLUSHER_CORE", "UDP_FLUSHER_CORE", "DNS_FLUSHER_CORE",
              "AAA_FLUSHER_CORE"} -> 8
    [] OTHER -> 16

\* What the files are assumed not to do, for the code would write or read
\* past the end of an array: a list longer than its array; a network of fewer
\* than three characters, whose length less that of a mask is negative.
ASSUME FileAssumption ==
  \A l \in Line : l.key \in Key =>
    /\ l.key # "ROUTER_CORE" => Len(l.value) <= 1
    /\ Len(l.value) <= 16 /\ Len(Elements(l.value)) <= Room(l.key)
    /\ l.key = "ROUTER_CORE" => \A i \in DOMAIN l.value : Len(l.value[i]) <= 8
    /\ (GetterOf[l.key].how = "networks" /\ l.value # <<>>)
         => ToSet(Elements(l.value)) \subseteq DOMAIN Subnet

Atoi(word) == IF word \in DOMAIN Numeral THEN Numeral[word] ELSE 0

\* atoi stops at the first comma; the settings are uint16_t.
NumberIn(value) ==
  IF Elements(value) = <<>> THEN 0 ELSE Atoi(value[1][1]) % 2^16

\* Mutant: the test is made before the count goes up.
OneMore(s, limit) == SubSeq(s, 1, Min({Len(s), limit + 1}))

\* A list that is cut: the first element is stored in any case.
UpTo(s, limit) ==
  SubSeq(s, 1, Min({Len(s), IF limit = 0 THEN 1 ELSE limit}))

LimitOf(k, c) == c[GetterOf[k].limit]
Cut(k, s, c) == IF GetterOf[k].limit = "none" THEN s ELSE UpTo(s, LimitOf(k, c))

\* Elements beyond the new ones stay as they were.
Overwrite(old, new) == new \o SubSeq(old, Len(new) + 1, Len(old))

\* The groups of ROUTER_CORE, each in the place of the one before.
OverwriteGroups(old, new) ==
  Overwrite(old, [i \in DOMAIN new |->
                    Overwrite(IF i \in DOMAIN old THEN old[i] ELSE <<>>, new[i])])

\* converSubNetToRange and ipToLong: <<address, bits of the mask>>.  The last
\* three characters are taken for the mask; of "/8" nothing is left, and the
\* address is a digit short (1 is what ipToLong says of a bad address).  A word
\* that is no network is a key that was taken for a value, and longer than that.
Network(word) ==
  IF word \notin DOMAIN Subnet THEN <<1, 0>>
  ELSE LET n == Subnet[word]
       IN  IF n.bits > 9 THEN <<n.addr, n.bits>>
           ELSE <<IF n.addr < 10 THEN 1 ELSE n.addr \div 10, 0>>

-----------------------------------------------------------------------------
(* The passes at work.                                                     *)

\* The words of the file, a value being one word.
Tokens ==
  FlattenSeq([i \in DOMAIN file |->
    IF file[i].value = <<>> THEN << <<<<file[i].key>>>> >>
    ELSE << <<<<file[i].key>>>>, file[i].value >>])

KeyIn(token) == IF Len(token) = 1 /\ Len(token[1]) = 1 THEN token[1][1] ELSE ""

\* Where this pass will find keys, as far as values do not hide them.
Ahead == {q \in pos .. Len(Tokens) : KeyIn(Tokens[q]) \in PassKeys[pass]}
At == Min(Ahead)
KeyAt == KeyIn(Tokens[At])
ValueAt == IF At < Len(Tokens) THEN Tokens[At + 1] ELSE <<>>

FilesUpTo(n) == UNION {[1 .. m -> Line] : m \in 0 .. n}

ConfInit ==
  /\ file \in FilesUpTo(FileLen)
  /\ pass = 1 /\ pos = 1
  /\ conf = Defaults

Reads(how) ==
  /\ pass \in DOMAIN PassKeys /\ Ahead # {}
  /\ GetterOf[KeyAt].how = how
  /\ pos' = At + 2
  /\ UNCHANGED <<file, pass>>

Sets(value) == conf' = [conf EXCEPT ![KeyAt] = value]

ReadNumber == Reads("number") /\ Sets(NumberIn(ValueAt))
ReadFlag == Reads("flag") /\ Sets(ValueAt = <<<<"true">>>>)
ReadText == Reads("text") /\ Sets(ValueAt)
\* DATA_DIR and INTERFACE_NAME: nothing cuts them.
ReadWords ==
  /\ Reads("words")
  /\ Sets(Overwrite(conf[KeyAt], Cut(KeyAt, Elements(ValueAt), conf)))
ReadNumbers ==
  /\ Reads("numbers")
  /\ LET new == [i \in DOMAIN Elements(ValueAt) |-> Atoi(Elements(ValueAt)[i]) % 2^16]
     IN  Sets(Overwrite(conf[KeyAt], Cut(KeyAt, new, conf)))
ReadLongs ==
  /\ Reads("longs")
  /\ LET new == [i \in DOMAIN Elements(ValueAt) |-> Atoi(Elements(ValueAt)[i])]
     IN  Sets(Overwrite(conf[KeyAt], Cut(KeyAt, new, conf)))
ReadGroups ==
  /\ Reads("groups")
  /\ LET groups == UpTo(ValueAt, LimitOf(KeyAt, conf))
     IN  Sets(OverwriteGroups(conf[KeyAt],
                [i \in DOMAIN groups |->
                   [j \in DOMAIN groups[i] |-> Atoi(groups[i][j]) % 2^16]]))
\* The count of a pool is set anew.
ReadNetworks ==
  /\ Reads("networks")
  /\ Sets([i \in DOMAIN Elements(ValueAt) |-> Network(Elements(ValueAt)[i])])

\* The end of the file: it is opened again.
NextPass ==
  /\ pass \in DOMAIN PassKeys /\ Ahead = {}
  /\ pass' = pass + 1 /\ pos' = 1
  /\ UNCHANGED <<file, conf>>

ConfNext ==
  \/ ReadNumber \/ ReadFlag \/ ReadText \/ ReadWords \/ ReadNumbers \/ ReadLongs
  \/ ReadGroups \/ ReadNetworks \/ NextPass

ConfSpec == ConfInit /\ [][ConfNext]_confVars

-----------------------------------------------------------------------------
(* What the lines of a file say, line by line.                             *)

PassOf(k) == CHOOSE p \in DOMAIN PassKeys : k \in PassKeys[p]
Known(i) == file[i].key \in Key
Bare(i) == file[i].value = <<>>

\* A key alone takes the next line's key for its value, and so costs that line
\* its effect, if that line is read in the same pass; no other line is harmed.
Effective ==
  LET effective[i \in DOMAIN file] ==
        /\ Known(i)
        /\ ~ /\ i > 1 /\ Known(i - 1) /\ Bare(i - 1)
             /\ PassOf(file[i - 1].key) = PassOf(file[i].key)
             /\ effective[i - 1]
  IN  {i \in DOMAIN file : effective[i]}

Says(k, upto) == {i \in Effective : i <= upto /\ file[i].key = k}

ValueOf(i) ==
  IF ~ Bare(i) THEN file[i].value
  ELSE IF i = Len(file) THEN <<>> ELSE <<<<file[i + 1].key>>>>

\* The last line counts, for numbers, flags, texts and pools.
LastSaid(k, upto, Read(_), default) ==
  IF Says(k, upto) = {} THEN default ELSE Read(ValueOf(Max(Says(k, upto))))

\* What cuts the list of line i: a limit that is read in an earlier pass counts
\* wherever its line is, one of the same pass only if its line comes before.
LimitAt(i) ==
  LET k == file[i].key
      limit == GetterOf[k].limit
  IN  LastSaid(limit, IF PassOf(limit) < PassOf(k) THEN Len(file) ELSE i - 1,
           NumberIn, Defaults[limit])

\* The places of a list that line i fills.
Fills(i) ==
  LET k == file[i].key
      all == IF GetterOf[k].how = "groups" THEN DOMAIN ValueOf(i)
             ELSE DOMAIN Elements(ValueOf(i))
  IN  IF GetterOf[k].limit = "none" THEN all
      ELSE {j \in all : j = 1 \/ j <= LimitAt(i)}

\* For every place of a list the last line counts that fills it.
ListSaid(k, Read(_)) ==
  LET filling(j) == {i \in Says(k, Len(file)) : j \in Fills(i)}
      places == UNION {Fills(i) : i \in Says(k, Len(file))}
  IN  [j \in places |-> Read(Elements(ValueOf(Max(filling(j))))[j])]

Atoi16(word) == Atoi(word) % 2^16

\* ... and a group of ROUTER_CORE is a list of its own.
GroupsSaid(k) ==
  LET filling(j, m) == {i \in Says(k, Len(file)) :
                          j \in Fills(i) /\ m \in DOMAIN ValueOf(i)[j]}
      places == UNION {Fills(i) : i \in Says(k, Len(file))}
      members(j) == UNION {DOMAIN ValueOf(i)[j] :
                             i \in {l \in Says(k, Len(file)) : j \in Fills(l)}}
  IN  [j \in places |-> [m \in members(j) |->
         Atoi16(ValueOf(Max(filling(j, m)))[j][m])]]

Said(k) ==
  LET how == GetterOf[k].how
      all == Len(file)
  IN  CASE how = "number" -> LastSaid(k, all, NumberIn, Defaults[k])
        [] how = "flag" -> LastSaid(k, all, LAMBDA v : v = <<<<"true">>>>, FALSE)
        [] how = "text" -> LastSaid(k, all, LAMBDA v : v, Defaults[k])
        [] how = "words" -> ListSaid(k, LAMBDA w : w)
        [] how = "numbers" -> ListSaid(k, Atoi16)
        [] how = "longs" -> ListSaid(k, Atoi)
        [] how = "groups" -> GroupsSaid(k)
        [] how = "networks" ->
             LastSaid(k, all, LAMBDA v : [i \in DOMAIN Elements(v) |->
                                        Network(Elements(v)[i])], <<>>)

(* The settings are what the file says, whatever the order of its lines:   *)
(* the last line for a setting counts, element by element for lists, lists *)
(* are as long as their limit says, and a key without a value does harm to *)
(* itself and to the next line of its own group only.  The one thing that  *)
(* depends on the order is a list that is cut by a number of the same      *)
(* group, such as TCP_SM_CORE by TCP_SM_INSTANCES: a number that comes     *)
(* after the list does not lengthen it.                                    *)
LoadedAsWritten ==
  pass > Len(PassKeys) => \A k \in Key : conf[k] = Said(k)
=============================================================================
