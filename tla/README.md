# A TLA+ verification of SpectaProbe server 2.0.2

SpectaProbe is the server of a network probe. It receives decoded TCP, UDP, DNS
and AAA (RADIUS) packets over ZeroMQ, groups them into sessions and transactions,
and writes one line (an *XDR*) per session, slice or transaction. This directory
holds TLA+ modules of its core logic, TLC runs that check them on small
instances, and TLAPS proofs of the properties that matter most.

## 1. Inventory of the system

The program is one process of many threads, each pinned to a core, that
communicate through global arrays. The only locks are two hand-made semaphores
around two lookup maps.

```
 ZeroMQ      agent            router              session manager        flusher
 ------> ReadTcpAgent --> Routers (n per      --> TcpSM/TcpSMInterface --> TcpFlusher --> XDR file
         ReadUdpAgent     interface)              UdpSM/UdpSMInterface     UdpFlusher
         ReadDnsAgent        |                    DnsSM/DnsSMInterface     DnsFlusher
         ReadAaaAgent        |                    AaaSM/AaaSMInterface     AaaFlusher
                             +--(unmapped)------> UnSM/Un*Interface        UnFlusher
              agentStore            smStore              FlushRepo
                            Timer: Global::CURRENT_EPOCH_SEC
```

| Component | State | Operations | Interaction | What is hard |
|---|---|---|---|---|
| Clock (`Timer.cpp`) | `Global::CURRENT_*` | one loop of plain stores | read by every thread | every hand-over below depends on it |
| Read agents (`Read*Agent.cpp`) | `router`, `t_index` | receive, check the slot, copy, count | write `agentStore` | check-then-act on flags and counters without a lock |
| Routers (`Routers.cpp`) | `lastIdx`, `curIdx`, `recCnt` | drain the slots of past seconds, choose a session manager, copy | read `agentStore`, write `smStore` | modular index comparison; falling behind by a lap |
| Session manager threads (`TcpSM.cpp`, ...) | `lastIndex`, scan indices | drain, periodic clean-up scan, end-of-day drain and scan | read `smStore` | order inside a slot; the end-of-day loop and its sleep |
| Session pools (`*SMInterface.cpp`) | object pool, bit set, maps | find free object, release, erase | private to a session manager | three structures that must agree; a search that must end |
| TCP sessions (`TcpSMInterface.cpp`, `SmGlobal.h`) | `tcpSession` objects | packet, FIN, slice by count or time, clean-up | write `FlushRepo` | long-lived objects that are reused in place |
| UDP sessions (`UdpSMInterface.cpp`) | `udpSession` objects, `vpsFlag` | packet, slice, clean-up | write `FlushRepo` | a rate limit whose verdict is shared by all flows |
| DNS transactions (`DnsSMInterface.cpp`) | `dnsSession` objects | query, response, clean-up | write `FlushRepo` | either half may come first, late, twice or never |
| AAA transactions (`AaaSMInterface.cpp`) | access and accounting maps | request, response, clean-up | write `FlushRepo` and the user maps | as DNS; a response also changes the user maps |
| User maps (`aaaGlbUserIpMap`, `aaaGlbUserIdMap`) | user of an address, address of a user | START, STOP, UPDATE, load, dump, clear, lookup | shared by AAA managers, all flushers and session managers, the main thread | two maps that must agree while files are dumped and loaded |
| Map locks (`lockAAAMap`, `lockDnsMap`) | `count`, condition `nonzero`, mutex | lock, unlock | every user of the maps | a counting semaphore built by hand: lost wake-ups |
| DNS lookup map (`dnsLookUpMap`) | url of an address | load, lookup | main thread, flushers | guarded by its lock |
| Flushers (`*Flusher.cpp`, `FUtility.cpp`) | file handles, indices | drain `FlushRepo`, format, write, rotate files | read `FlushRepo` | as the rings above, without a busy flag |
| Unmapped traffic (`plugins/unknown`) | session pools of their own, `UnFlushRepo`, files | packet, FIN, slice, scan, drain, rotation, choice of the source end | as TCP and UDP, one manager and one flusher for both | a session per direction; index before minute; which end is the source |
| Reports (`FUtility.cpp`, flushers) | `packTimeMap`, handshake times of a session | count a packet, build a line | copy of a session in, line out | two ways of counting that must agree; times missing, late or repeated |
| Start and stop (`SpectaProbe.cpp`, `Main.cpp`) | running flags, ready states | spawn threads one by one; signal handler | every thread | the handler may come at any moment, even before `main()` has set the server's flag, and stops the clock first; managers at their end of the day look at no flag |
| Configuration (`GConfig.cpp`) | `SMGlobal` | 15 passes over one file | read by every part after the start | keys, values and comments are told apart by position only; lists cut by numbers read before or after |
| Counters (`ProbeStats*.cpp`, `IPStats`) | counters | print, log, daily reset | written by all threads | unsynchronised increments |
| Packet helpers (`PUtility.cpp`), logging library (`utility/log`) | - | pure functions, I/O | - | - |

What makes each part correct:

* **Rings**: producer and consumer never meet in a slot; nothing accepted is lost, repeated or reordered; everything accepted is consumed before the ring comes round.
* **Session pools**: map, bits and objects agree; the search for a free object ends.
* **TCP and UDP sessions**: every frame is reported once or knowingly discarded; live flows are not cut by the scan; every session ends.
* **DNS and AAA transactions**: a report joins a request with its own response; each is reported at most once; abandoned halves go away.
* **User maps**: an address is attributed to the user who holds it, after loads and day changes too.
* **Map locks**: mutual exclusion, no lost wake-up.
* **Unmapped traffic**: no frame is lost between packet and file; both directions of a flow name one source.
* **Reports**: the seconds of a line add up to its totals; times are in order.
* **Start and stop**: told to stop at any moment, the server stops, and its stages stop downstream. (A signal before `Main.cpp:105` is forgotten, see below.)
* **Configuration**: the settings are what the file says.

## 2. Modules

| Module | Models | Kind |
|---|---|---|
| `TimeIndex` | the index macros of `ServerGlobal.h` | operators |
| `RingClock` | the second all threads read, and how late they may be | shared by the next rings |
| `PacketChannel` | what a ring promises: a FIFO channel per consumer | abstract |
| `TimeRing` | agents, routers, clock and `agentStore` | detailed, implements `PacketChannel` |
| `SmRing` | routers, a session manager with its end of the day, `smStore` | detailed |
| `FlushRing` | session managers, a flusher with its files, the clock's fields, `FlushRepo` | detailed |
| `SessionPool` | map, bits and objects of a manager | component, extended by the next two and by `DnsSession` |
| `FlowLedger` | what a session manager promises: every frame is accounted for | abstract |
| `TcpSession` | `TcpSMInterface` | detailed, implements `FlowLedger` |
| `UdpSession` | `UdpSMInterface` | detailed, implements `FlowLedger` |
| `HalfJoin` | what the DNS and AAA managers promise: requests joined with responses | abstract |
| `DnsSession` | `DnsSMInterface` | detailed, implements `HalfJoin` |
| `AaaSession` | the sessions of `AaaSMInterface` | detailed, implements `HalfJoin` |
| `UserMap` | the user maps: `updateGlbTable`, `Initialize`, the main loop | component |
| `MapLock` | `lockAAAMap`, `unLockAAAMap` | component |
| `Unmapped` | `UnSM`, `UnTcpInterface`, `UnUdpInterface`, `UnFlusher` with the ring between them | component, with two instances of `SessionPool` |
| `Reports` | what managers count and flushers make of it: totals, series, times | component |
| `Lifecycle` | `SpectaProbe::start` and its spawn functions, `sig_handler`, the threads as far as their flags go | component |
| `Configuration` | `GConfig.cpp` | component |

`MC<Module>` instantiates a module for TLC (symmetry, keys of transactions);
`<Module>Proofs` holds its theorems. `RingProofs` is about all three rings, and
`ServerProofs` about `UserMap`, `MapLock`, `HalfJoin`, `Lifecycle` and `Reports`. In every module the definitions named
`Mutant` in a comment are the mistakes the properties have been tried against;
no specification uses them.

The modules meet at their variables: `TimeRing`'s consumers are `SmRing`'s
producers, `SmRing`'s `processed` packets are the `Packet` actions of the
session modules, whose reports are `FlushRing`'s; `UserMap`'s actions are the
critical sections `MapLock` makes exclusive. They are checked one by one because
what a hop relies on - packets come at most `MaxLag` seconds late, in any order
within a second, never twice - is what the hop before it is shown to deliver.
`Unmapped` is the exception: it takes sessions, ring, flusher and files of one
plugin together, each at the grain at which the modules above show it to be safe
(a packet, a session's clean-up, a slot). `Configuration`, `Lifecycle` and
`Reports` share no variable and no moment with each other; `MCServer` puts them
into one run as three kinds of behaviour (`part`).

### How state and actions correspond to the code

**`TimeRing`.** One agent of an interface (`apc`, `pkt`, `router`, `t_index` are
the object's members) and its routers. Every load and store of
`ReadTcpAgent::processPacket` and `Routers::readTcpPacket` on shared data is a
step of its own: `AgentRecv` (packet and slot index), `AgentDrop`/`AgentAdmit`
(the check), `AgentCopy`, `AgentCount`; `RouterWake`, `RouterSkip`/`RouterTake`
(the count), `RouterBusy`, `RouterRoute` (one packet, `pktCnt--`), `RouterZero`,
`RouterRelease`. `aSec`, `rSec`, `cSec` are history: the absolute seconds behind
the modular indices.

**`SmRing`.** `RouterClock`/`RouterPush` are the two halves of
`pushTcpPacketToSm`; `SmPoll`, `SmEnter`, `SmTakeSlot`, `SmPacket`,
`SmLeaveSlot`, `SmNext` the manager's loops; `SmDrained`, `SmEodPoll`, `SmSleep`,
`SmWake` the end of the day. A slot is a set, for `unordered_map` has no order.

**`FlushRing`.** `SmFlush`, `SmStore`, `SmCount` are clock, store and count of
`tcpFlushSession`/`tcpStoreSession`; `FlRotate`, `FlReadField`, `FlOpen` the
rotation, `FlIndex`, `FlDrain`, `FlTakeSlot`, `FlReport`, `FlLeaveSlot`, `FlNext`
the drain. The flusher starts with its first file open (`"first"`). The slot is a
function from numbers to reports, with its counter apart, as in the code. `StoreField` and `StoreSecond` are the stores of
`Timer::run`; `day` stands for day, month and year. The arguments of
`openTcpXdrFile` are read in any order, as C++ leaves it open.

**`SessionPool`.** `sessionMap` is the map, `bitFlags` the set of positions in
use, `key` and `poolIndex` the members of the objects by which they are erased.
`FreeIndex` states which position the search returns; `SearchEnds` that there
is one.

**`TcpSession`, `UdpSession`.** `PacketNew`, `PacketKnown`, `PacketFin` (UDP:
`Packet`) are the branches of `TCPPacketEntry` with everything they call, down
to the reports that are stored. A scan is a sequence of steps, one per session
(`CleanSkip`, `CleanFlush`), because each reads the clock anew. `seen`,
`reported`, `discarded` are history. Frames are counted; sizes, throughput and
the texts of a report are not modelled.

**`DnsSession`, `AaaSession`.** `Query`/`Answer` and `Request`/`Response` are the
branches of the packet entry; `Scan` is the clean-up, one step for DNS, which
reads the clock once; for AAA, which reads it per session, the step lets the
clock tick in the middle. The half a session holds is kept as the transaction
it belongs to, so that one sees who is joined with whom; the code only knows
the key. Two transactions may have one key. `overdue` is history: the sessions
that had timed out when the last AAA scan came to them.

**`UserMap`.** `Claim`, `Stop`, `Account` are the branches of `updateGlbTable`;
`Dump`, `Load`, `Clear` those of `Initialize`. The network (`Assign`, `Interim`,
`Release`, records in flight that are lost or overtake each other) is external:
it issues the accounting records a RADIUS client would. Only the probe with
`INSTANCE_ID` 1 hears them (`Apply`): the AAA agents of the others refuse every packet
(`ReadAaaAgent.cpp:63`), and their maps are what they load, again and again, from the dumps
of that one (`ForeignDump`). Every probe loads at its start, and probe 1 after each day change:
no property is limited to the time before a load. `told`, `current`, `placed` are
history: what the records so far have said, whether every load was of a file that
said the same, and which users a record has placed since the last load.

**`MapLock`.** A step per statement of the two functions, with spurious wake-ups.

**`Unmapped`.** `TcpNew`, `TcpKnown`, `TcpFin`, `UdpNew`, `UdpKnown` are the
branches of the two packet entries, `StartScan`, `TcpClean`, `UdpClean` the scan
of `UnSM::run`, TCP sessions before UDP ones. A key is the flow and the map
chosen by the packet's source address (`KeyOf`). `FlIndex`, `FlMinute`, `FlDrain`,
`FlSleep` are the flusher's loop, which reads its index before it changes the
file. `Oriented` is the order of tests by which `buildTcpXdr` and `buildUdpXdr`
swap source and destination; `IsIPInRange` computes on addresses of `IP_BITS`
bits. `counted`, `filed`, `leftOut`, `sources` are history.

**`Reports`.** `TcpPacket`, `UdpPacket` are what an update does to the numbers of a
session: totals (`pLoad`, `frSize`), the entry of `packTimeMap` (`secs`), the
handshake times (`rcv`), slices at both limits; `Payload` are the sizes a packet may
have. `FilledIn` makes up missing times,
`FourComparators` is the sorting of `FUtility`, `Reorders` and `InOrder` what a line
owes the session, `Series` the text of volumes,
`Contradiction` the checks by which a line is refused. A report is a record
that says which of these happened (`made`).

**`Lifecycle`.** A place of `SpawnOrder` is one of the 18 spawn functions, of which
`Configured` are those the configuration has threads for: `Raise...` sets the
flag, `CreateThread` starts the thread, `AwaitReady` is the loop around
`sleep(1)`. A stage of `StopOrder` is one `if` of the handler and its `sleep(1)`
(`ClearFlags`, `SleepSecond`); the handler runs on the main thread, so `start()`
stands still meanwhile (`InStart`). A thread is seen at its flag (`running`), in
`recv()`, in the drain at the end of the day, or in the sleep of `60 - DAY_CLEAN_SEC`
seconds behind it (`pause`), during which it does not look at its flag. The model begins
in `main()`, when the handler has just been registered: `EnableServer` sets the server's
flag (`Main.cpp:105`), `ReadConfiguration` decides about the statistics.

**`Configuration`.** A pass looks for the next word that is a key of its group
(`Ahead`) and gives the word after it to the getter (`ReadNumber`, `ReadWords`,
...). `GetterOf` lists the getters of the source, `PassKeys` its passes,
`Defaults` the initialisers of `SMGlobal`. A value is a list of groups of words, of
which only `ROUTER_CORE` has more than one: elsewhere `-` is a character of a word
(`GConfig.cpp:1716`). `Said`, against which it is checked,
works the other way: from lines to settings.

## 3. Plan and order

1. Rings: `TimeIndex`, `TimeRing`, `SmRing`, `FlushRing` - everything else relies on them. *Done.*
2. Sessions: `SessionPool`, `TcpSession`, `UdpSession`, with `FlowLedger`. *Done.*
3. Transactions: `DnsSession`, `AaaSession`, with `HalfJoin`. *Done.*
4. User maps and their lock: `UserMap`, `MapLock`. *Done.*
5. The rest of the server: `Unmapped`, `Reports`, `Lifecycle`, `Configuration`. *Done.*
6. Proofs: every safety property of the runs, the refinements among them, but
   for the one of `Configuration`. *Done.*
   Left: its passes over a file, each a recursion over the words.

## 4. Runs

| Run | What it asks | Instance |
|---|---|---|
| `time_ring` | slots exclusive, modular comparison exact, packets refused only when a slot is full, the ring is a FIFO channel, every accepted packet is routed | 4 slots, 1 router, 3 packets, 2 of them per slot, 8 seconds |
| `sm_ring` | slots apart, nothing lost, late or out of order, also around the sleep | 3 slots, 2 routers, 3 packets, a sleep of 2 laps |
| `flush_ring` | slots apart, a report is in one place from its flush to its file, every report written, and in the right file | 4 slots, 2 managers, 2 reports, minutes of 4 s, hours of 2 minutes, days of 2 hours, a start two seconds before midnight |
| `tcp_session` | frames accounted for, `FlowLedger`, no lone empty report, scans spare live flows, every session ends, the search ends | 2 flows, 1 object, 4 frames each, limit 3, time stamps 1 s off either way |
| `tcp_no_connection` | violated: a comment of the code (below) | 1 flow, all flags |
| `udp_session` | `FlowLedger`, who pays for an overrun | 2 flows, 1 object, 3 frames each, time stamps 1 s off either way |
| `dns_session` | prompt answers reported, no stale half, `HalfJoin` | 3 transactions, 2 keys, 1 object, time stamps ahead of the clock, a query without name |
| `aaa_session` | prompt exchanges reported, no stale half but one the scan passed over for its like, `HalfJoin` | 3 exchanges, 2 with one identifier, the third with the same hash; time stamps ahead |
| `user_map` | only loads put the maps out of step; a placed user's address is no other's; exact when records are reliable and dumps up to date | the probe that dumps and one that loads, 3 users, one without a name, 2 records under way, 4 assignments and releases, lost STOPs of 2 users, day changes, 2 loads |
| `map_lock` | exclusion, no lost wake-up; somebody gets in | 4 threads |
| `unmapped` | every frame in a session, in the ring, filed or left out; one source per flow; reports in a file that fits; every frame settled | a TCP and a UDP flow, 1 object each, time stamps up to 1 s ahead, 2 maps, 4-bit addresses, networks of 2 carriers, an unknown source and a cache, minutes of 4 s |
| `server` | settings as written; start and stop; lines that add up with times in order | files of up to 3 out of 12 lines; 10 kinds of threads, 2 signals; one session over 4 seconds and 3 frames a slice |

Type correctness is proved for every module with theorems, as a part of its
inductive invariant; `SmRingInv` and `FlushRingInv` have it as their first part, so
that the runs check it too.

**The bounds.** The rings are rotations: what happens depends on differences of
seconds below a lap, so three or four slots and a run of two laps (six around
the sleep) meet every position of writer and reader; the proofs lift the bound. Sessions: two flows are enough for every interplay there is, that
of two objects in the pool, of two keys of a map and of the shared flag; limits
of two or three frames and time-outs of one or two seconds put slices, FINs and
scans next to each other in every order. Transactions: three, of which two share
a key, give every pair of halves a third party. `MaxEvents`, `MaxLost`,
`MaxLoads`, `MaxFrames`, `LastPktSec` and `MaxSec` only cut the length of a run.
In `server`, three lines are enough for a key without value, the key it swallows
and a third line that is to stay unharmed, or for a list, its limit and a second
line for the list; two signals let the second one meet a server that the first
has half stopped. `MaxLate` is how many seconds a running thread may take to look
at its flag (its loops sleep 100 ms at most, but for the sleep at the end of the day,
which is a place of its own, `pause`, without a limit): the five seconds `start()` sleeps before its
loop are more than that. `SeriesHasRoom` says that a series has room for the
seconds of a slice and those by which packets are late; `SeriesLen` is a bound of
the model, the program's is the size of its text buffers. In `unmapped`, the run
passes two minutes and a lap and a half of the ring.
Deadlock is not checked where the clock or the traffic ends at such a bound.

**Time.** All clocks are in seconds. `MaxWriteDelay`: clock ticks between a
producer's reading of the clock and its last store; `MaxReadLag`: seconds a
consumer may be behind. The code has no mechanism that enforces either: threads
are pinned to cores, poll every 100 ms (`THREAD_SLEEP_TIME`) and the ring has ten
seconds. The assumptions say how much delay the rings can bear - one tick for
writers, a lap less two seconds for readers - and this limit is sharp: the
mutants break the properties with one slot less. For the files
`MinuteAssumption` says that two lags fit into a minute, or the flusher might miss
one; in the code that is 16 seconds of 60. `MaxLag` and `MaxSkew` say how
far a packet's time stamp may be behind or ahead of the probe's clock, in every
module with time-outs (TCP, UDP, unmapped, DNS, AAA): the differences are of `uint64_t`
and wrap for a stamp ahead.

**Fairness.** Live runs assume weak fairness of the clock, of each router's,
manager's and flusher's step, and of the scans: these threads have cores of
their own, never block (they only `usleep`), and `*SM::run` comes round to its
scan in each period. Nothing is assumed of agents in `recv`, of packets coming,
or of who gets a mutex: `SomebodyGetsIn` does not say who. `Lifecycle` assumes that
the main thread, the handler once it has begun, and threads that start or find
their flag down are scheduled; it promises no signal, no packet, and nothing of a
thread that waits for the clock or sleeps at the end of the day.

**What the runs show that one might not expect.**

* `tcp_no_connection`: `TcpSMInterface.cpp:422` says sessions without a connection
  are not flushed at the packet limit; the code below it flushes them, with a
  cause of their own.
* `ActiveFramesKept`: `reuse()` clears the time of the last packet, so a scan ends
  a session that has just been sliced, live or not. It has no frames then, but
  the slice counter starts again.
* `SecondsInOrder`: packets of the sleep at the end of the day are overtaken by
  packets of later seconds, because the slots of several laps are merged.
* `NoStaleHalf` (AAA): the clean-up collects the sessions by their hash, and
  forgets only one of those with the same hash, that of the highest identifier. If
  such sessions keep coming and timing out, the lower one is passed over at every
  scan: there is no bound on its age, whatever their number. What holds, and is
  proved, is that a half older than time-out and scan period was passed over by the
  last scan for one of those.
* `InItsFile`: the file opened before the flusher's loop may mix two minutes in its name,
  but it is closed before anything is written to it. A file opened at a full hour may carry the name of an hour ago, and
  at midnight the date of the day before: the clock's fields are stored one by
  one.
* `NeverAnotherUser`: a load of an old dump may attribute an address to anybody; a
  record that tells the maps a new address of a user repairs it for him. After that, lost STOPs of others
  alone do no harm, nor do records out of order; both together attribute the
  address to a user whose STOP was lost. `ExactWhenReliable`: a load of a dump that no record has
  overtaken keeps the maps exact, so probe 1, with dumps that are up to date,
  is exact again after each day change; a user whom an older dump misses stays away until his next session, because
  his UPDATEs find him in the map that was not cleared.
* `StopsWhenTold` holds from `Main.cpp:105` on: the handler is registered before `main()` sets the server's flag. A signal
  in between (`Main.cpp:96-105`) is handled, but `main()` sets the flag again, `start()`
  all the others, and the server runs on for ever (TLC finds it when the condition
  `mainPc # "main"` is left out). It is a short window, and in `findings`.
* `StopsDownstream`: the handler stops the clock first, so a manager in its drain at
  the end of the day waits for a second that never comes; one that has done with the drain sleeps
  on for up to 30 seconds, as delivered, while its flusher stops (`TcpSM.cpp:76`, `UdpSM.cpp:72`); and a signal that
  comes during `start()` is forgotten by the stages that are not yet
  spawned: `start()` sets their flags after the handler has cleared them.
  `exit(0)` ends all of them, for nothing is joined (`StopsWhenTold`). And it needs
  threads that look at their flag within a second (`MaxLate <= 1`): with two
  seconds TLC finds a router still at work when a later stage has ended, for the
  handler gives each stage one `sleep(1)`.
* `LoadedAsWritten`: the order of lines matters in one case only, a list that is cut
  by a number of its own group: `TCP_SM_CORE` before `TCP_SM_INSTANCES` is cut by
  the default. A key without a value takes the next key for its value.
* `FileFits`: reports of unmapped sessions flushed in the last two seconds of a minute are in the
  file of the next minute.
* `OrientationAgrees` needs that exactly one end is in a pool; with both ends in
  pools the two directions may name different sources.
* While modelling: `DNS_PACKET_PER_DAY` is never set back when the day changes
  (`SpectaProbe.cpp:284`); the delivered file says `PEERING_TENCENT_GLOBAL` where the
  code looks for `PEERING_TENCENT` (`GConfig.cpp:664`); the comment that the first
  section of the file must stay the first is no longer true; and
  `firstDataTimeEpochNanoSec` is the time of the last data. These are
  in `findings` of `PROJECT.json`.
* Three hazards are ruled out by assumptions, not caught by properties. A scan period of
  60 seconds or more means no scan (`DnsSession`, `AaaSession`, `Unmapped`
  assume less); a number of DNS managers above that of UDP managers means
  reports that are never written (`FlushRing` assumes the contrary); and lists longer than their
  arrays, `DATA_DIR` of more than 5 or an `INTERFACE_NAME` of more than 16 elements for
  instance, or a network of fewer than three characters, run past the end of arrays
  (`FileAssumption` of `Configuration`). The delivered configurations satisfy all three.

## 5. Theorems

The modules `*Proofs` hold proofs that TLAPS checks, for every value of the
constants that the `ASSUME`s of the modules allow.

* **`RingProofs`**: `SlotsOfALapDiffer` (seconds less than a lap apart have
  different slots), on which everything about rings rests. The properties speak of
  modular indices and are not inductive; the invariants tie each index to a second
  and bound these seconds by the clock.
  - Agents to routers: `TypeCorrect`, `SlotsAreExclusive`, `OnlyThePastIsDrained`,
    `OnlyFullSlotsRefuse`. In `SecInv`, `t_index` is the slot of `aSec + 1`, at most one
    tick behind, `lastIdx` that of `rSec`, at most `MaxReadLag` behind; reader and
    writer are then less than a lap apart and the lemma applies.
    `RingImplementsChannel` (`ImplementsChannel`): `FifoInv` adds that packets wait only
    in slots of seconds from the router's to the one after the agent's (`Waiting`), that what a
    router has taken and not yet routed is what its slot counts (`Taken`), and that the
    packet about to be counted is at the end of its slot (`Copied`). The channel's queue
    is the slots put one after the other (`FlattenSeq`, a fold). The step lemmas
    follow from four about such a row of sequences: an empty one at either end adds
    nothing, so the clock may tick and the router go on (`FlatEmptyLast`, `FlatEmptyFirst`);
    what is put at the end of the last one, an empty one after it or not, is at the
    end of the row (`FlatPut`, `FlatPutBefore`); what is taken from the front of the
    first is the front of the row (`FlatTake`). These go by induction, stated of a set of numbers
    instead of a formula (`NatsIn`), which the pigeonhole principle gives.
  - Routers to a session manager: `SmSlotsAreExclusive`, `RoutedIsProcessedOnce`,
    `ProcessedInOrder`. `SmInv` adds that a packet is in one place (in a router's hand,
    in a slot, processed), that what is in a slot is of the second of the slot or, during
    the sleep at the end of the day, some laps older, and that everything older
    than the manager's second has been processed. The sleep is a whole number of laps
    (`SleepAssumption`), so that the manager wakes at the slot it left; without that
    the first theorem is false.
  - Session managers to a flusher: `FlushInvAlways`, `FlusherSlotsAreExclusive`,
    `FlushedHasOnePlace`, `ReportsInTheirFile`. `FlushInv` says besides which numbers a
    slot has given away, which of the clock's fields are already those of the next
    minute, and between which seconds the open file was named. That a minute is not
    missed needs `MinuteAssumption`.
* **`SessionPoolProofs`**: `PoolAlwaysConsistent`. As long as map, bits and objects
  agree, the number of bits is the size of the map, so a free position exists
  when the map has room.
* **`TcpSessionProofs`**: `TcpTypeCorrect`, `NoFrameIsLost`, `TcpPoolConsistent`,
  `TcpImplementsLedger`, `ActiveSessionsAreKept` (`ActiveFramesKept`). The invariant is type correctness (a session in the pool
  holds less than `SESSION_PKT_LIMIT` frames), the pool's consistency and the
  balance of frames; the refinement follows step by step. The last theorem needs that
  the time of a session with frames is that of the last packet the flow was heard
  by (`LastIsHeard`), which `reuse()` breaks only for sessions without frames.
* **`UdpSessionProofs`**: `UdpTypeCorrect`, `UdpLosesNoFrame`, `UdpPoolConsistent`,
  `UdpImplementsLedger`, `DropsAreEarned`. The last one needs that what a session has
  counted for a second is at most what its own flow was let through in that second
  (`KnownPassed`): a session object that passes to another flow starts from zero.
* **`ServerProofs`**, of the modules that are not rings or sessions:
  - `UserMapTypeCorrect`, `AccountingKeepsMapsInStep`, `MapsExactWhenReliable`,
    `NoOtherUserAttributed`. The maps lag behind the network by the records under way, so
    `UserMapInv` speaks of those. For exactness: `StoryTold`, for records in order and none
    lost, says that from what the records that came in have said (`told`) those under way
    lead, one by one, to the assignments of the network; `MapsFollow`, that the maps show
    `told`, as long as every load was of a file that did. For other users' addresses:
    `LastTells` and `Owned`, of each user whom a record has placed since the last load and
    whose STOPs arrive, in any order: his last record under way tells where he is, or
    else the map does; `Stays` and `Mine`, for records in order: no record that is still
    to come takes his address from him. Loads of whatever files keep all four, for they
    forget who was placed.
  - Of the lock under which the maps are changed, `LockExcludes`, `WakeupsArrive`.
    The invariant says which places of the program hold the mutex, that the count is
    1 exactly if nobody is inside, and that a free lock with a waiting thread has
    somebody on the way.
  - `LifecycleTypeCorrect`, `StopsAlongPipeline` (`StopsDownstream`), the latter for
    `MaxLate <= 1`. `LifeInv` says how far `main()` and the start are (`Spawning`), what the handler has
    cleared (`Handling`), that a stage whose second is over has ended, and what is left
    for the stages started after a signal (`AfterStop`).
  - `TimesAreInOrder` (`TimesInOrder`): the two sorting networks of `FUtility` sort, for
    any values, so the times of a line are in order and are those of the session
    (`Reorders`), whichever of them were missing.
  - `SecondsMakeUpPayload` (`SeriesAddUp`): `SumInv` says that the two counts of a session
    agree at every step between them, that the seconds of its series lie between
    `MaxLag` before its start and the limit after it, so that the series never runs
    over (`SeriesHasRoom`), and that its volume is the count. Sums are functions
    over finite sets; what they do when one element changes is proved by
    induction on a set of numbers, as for the rings (`NatsIn`).
  - `EveryHalfHasOnePartner`, of `HalfJoin`. What waits has been seen, waits under its own
    key and is not joined; what is joined has been seen. The constants must fit
    (`KeysFit`); the assumptions of `DnsSession` and `AaaSession` say that theirs do.
* **`DnsSessionProofs`**: `DnsTypeCorrect`, `DnsImplementsHalfJoin`,
  `DnsHalvesGoAway` (`NoStaleHalf`), `DnsAnswersReported` (`AnswersReported`). The
  invariant has four parts besides types and pool: a session holds a half; at the
  last scan no half was older than the time-out; what was handled was handled
  soon after its stamp; and a transaction with a key of its own is where
  `Traced` says - not seen, waiting in its session under the stamp it came with, expired,
  refused, or reported. The last part is what makes `AnswersReported` inductive: the
  property only looks at transactions that are complete.
* **`AaaSessionProofs`**: `AaaSessionTypeCorrect`, `AaaSessionImplementsHalfJoin`,
  `AaaAnswersReported`, by the same argument; a scan may read two values of the
  clock, and a half that expired by the later one has expired when the scan ends.
  `AaaHalvesGoAway` (`NoStaleHalf`): a half that had timed out at the last scan and is
  still there was outranked by one in `overdue`, for of the sessions with one hash the
  highest identifier is erased.
* **`UnmappedProofs`**: `LinesAgreeOnSource` (`OrientationAgrees`), `ReportsNearTheirMinute`
  (`FileFits`), `UnmappedPoolsConsistent`. `UnInv` says of each session and report that its
  addresses are the ends of its flow; the rest is about `Oriented`: with one end in
  a pool and one in none, every combination of the three tests gives both directions
  the same source. For the files it ties slots to seconds as the invariants of the
  rings do, and the index to a second before the one of the file's minute.
  `UnmappedLosesNoFrame` (`FramesInPipeline`): a frame is a place, in a session or in
  the ring, with a number; to count, to report and to drain is to join, move and
  take away finite sets of frames that are apart (`JoinApart`, `TakePart`,
  `CountRenumbered`). That a session is under the key of its flow and at a position of
  its own is `UnInv`'s and the pools'.

With `EveryHalfHasOnePartner` and the two refinements, no query or request is
reported with two responses.

Only model-checked:

* Liveness (`EveryPacketRouted`, `EveryReportWritten`, `SessionsEnd`, `SomebodyGetsIn`,
  `EveryFrameSettled`, `StopsWhenTold`): TLAPS does not reach fairness and `ENABLED`.
* `LoadedAsWritten`: each pass of `Configuration` over a file is a recursion over its
  words inside the one over its keys. Induction on sets of numbers (`NatsIn`) reaches
  recursive functions, but for these it was not carried through. It also depends on
  the lines: after an unknown key, a value that is a key of the code is read as one.

## 6. Not modelled

* The DNS lookup map: written by one thread, every access under the lock.
* IPv6: commented out or dead in the session managers
  (`ipv6AddressPrefixFlag` is never set).
* Of reports: throughputs (quotients of numbers that are modelled), users, urls and
  the layout of lines.
* Of the configuration: the characters of numbers and addresses; comments, except
  that the code does not know them, so that a word of a comment that is a key is read as one;
  keys that are in the delivered file and that the code never reads
  (`AAA_SM_TIME_INDEX_PKT_LIMIT`, `MAX_DUPLICATE_CHECK`, `OPERATOR_NAME`,
  `SESSION_CLEAN_UP_BATCH_LIMIT`). The sizing of the agent stores divides by
  `ROUTER_PER_INTERFACE[i]`, which is 0 for an interface that the list does not
  reach (`SpectaProbe.cpp:739`).
* Of start and stop: a `bind` or `pinThread` that fails, which ends the program; a
  signal that interrupts the handler of another.
* Counters, statistics, logging, packet helpers: nothing the rest of the program
  depends on, or pure functions.
* Memory ordering: steps are sequentially consistent. The rings rely on seconds,
  not on the order of two stores, so a weaker order would not change which slot
  is used; the windows between check and use are modelled.
