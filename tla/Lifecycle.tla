------------------------------ MODULE Lifecycle -------------------------------
(***************************************************************************)
(* Start and stop of the server: SpectaProbe::start spawns the threads one *)
(* by one and then loops; sig_handler (Main.cpp) clears their running      *)
(* flags stage by stage, a second apart, and at last the server's own.     *)
(* The handler runs on the main thread, whatever it is doing: start()      *)
(* stands still until the handler returns, and goes on where it was.       *)
(*                                                                         *)
(* A kind stands for all threads of the kind.  A session manager (TCP, UDP)*)
(* may be at its end of the day: in the drain, which waits for the clock,  *)
(* or in the sleep of many seconds behind it.  An agent waits in recv() for*)
(* traffic, which may never come again.                                    *)
(***************************************************************************)
EXTENDS Integers, Sequences

CONSTANTS
  Kind,       \* the kinds of threads that are configured
  MaxLate,    \* bound: seconds after which a thread has looked at its flag
  MaxSignals  \* bound: signals

Routers == {"router"}
Agents == {"tcpAgent", "udpAgent", "aaaAgent", "dnsAgent"}
Managers == {"tcpSM", "udpSM", "dnsSM", "aaaSM", "unmSM"}
Flushers == {"tcpFl", "udpFl", "dnsFl", "aaaFl", "unmFl"}
Statistics == {"stats", "log"}

ASSUME LifecycleAssumption ==
  /\ Kind \subseteq {"timer"} \cup Routers \cup Agents \cup Managers
                      \cup Flushers \cup Statistics
  /\ "timer" \in Kind    \* start() spawns it first, whatever is configured
  /\ MaxLate \in 0 .. 4  \* start() sleeps 5 seconds before its loop
  /\ MaxSignals \in Nat

VARIABLES
  PRINT_STATS, \* SMGlobal::PRINT_STATS
  flag,        \* the ..._RUNNING_STATUS of every kind
  serverFlag,  \* SERVER_RUNNING_STATUS
  thread,      \* where a thread is
  ready,       \* its ...ReadyState
  mainPc,      \* what main() or start() does next
  mainAt,      \* ... and for which place of SpawnOrder
  stage,       \* the handler's next stage, 0 outside the handler
  sleeping,    \* the handler is in its sleep(1)
  signals,     \* how many signals there were
  cleanTime,   \* the clock shows DAY_CLEAN_HOUR:MIN:SEC
  late,        \* seconds since a thread's flag went down while it runs
  outlives     \* history: threads whose flag start() has set after a handler

startVars == <<mainPc, mainAt>>
handlerVars == <<stage, sleeping, signals>>
lifeVars == <<PRINT_STATS, flag, serverFlag, thread, ready, startVars,
              handlerVars, cleanTime, late, outlives>>

-----------------------------------------------------------------------------
\* The order of start(); kinds that are not configured are passed over.
SpawnOrder ==
  <<"timer", "router", "tcpSM", "udpSM", "dnsSM", "aaaSM", "unmSM",
    "tcpFl", "udpFl", "dnsFl", "aaaFl", "unmFl",
    "tcpAgent", "udpAgent", "aaaAgent", "dnsAgent", "stats", "log">>

Configured == {i \in DOMAIN SpawnOrder : SpawnOrder[i] \in Kind}

\* Mutant: the flushers' stages come before the managers'.
FlushersFirst ==
  <<{"timer"}, Routers, Agents,
    {"tcpFl"}, {"udpFl"}, {"dnsFl"}, {"aaaFl"}, {"unmFl"},
    {"tcpSM"}, {"udpSM"}, {"dnsSM"}, {"aaaSM"}, {"unmSM"}, Statistics>>

\* The order of sig_handler: what each stage clears.
StopOrder ==
  <<{"timer"}, Routers, Agents,
    {"tcpSM"}, {"udpSM"}, {"dnsSM"}, {"aaaSM"}, {"unmSM"},
    {"tcpFl"}, {"udpFl"}, {"dnsFl"}, {"aaaFl"}, {"unmFl"}, Statistics>>

\* main() has just registered the handler; the values are those that the
\* variables are declared with.
LifeInit ==
  /\ PRINT_STATS = FALSE
  /\ flag = [k \in Kind |-> k = "log"]  \* LOG_RUNNING_STATUS starts as true
  /\ serverFlag = TRUE
  /\ thread = [k \in Kind |-> "none"]
  /\ ready = [k \in Kind |-> FALSE]
  /\ mainPc = "main" /\ mainAt = 1
  /\ stage = 0 /\ sleeping = FALSE /\ signals = 0
  /\ cleanTime = FALSE
  /\ late = [k \in Kind |-> 0]
  /\ outlives = {}

Running(k) == thread[k] \in {"running", "recv", "drain", "pause"}

-----------------------------------------------------------------------------
(* main() and start(), which do nothing while the handler runs.            *)

InStart(pc) == stage = 0 /\ mainPc = pc

Current == SpawnOrder[mainAt]

\* To the next kind, or to the loads and the loop of start().
NextKind ==
  LET later == {i \in Configured : i > mainAt}
  IN  IF later = {} THEN mainPc' = "loads" /\ mainAt' = mainAt
      ELSE mainPc' = "spawn" /\ mainAt' \in later /\ \A i \in later : mainAt' <= i

\* main() sets the server's flag, also if a handler has just cleared it.
EnableServer ==
  /\ InStart("main")
  /\ serverFlag' = TRUE
  /\ mainPc' = "config"
  /\ UNCHANGED <<PRINT_STATS, flag, thread, ready, mainAt, handlerVars,
                 cleanTime, late, outlives>>

\* The constructor of SpectaProbe reads the configuration.
ReadConfiguration ==
  /\ InStart("config")
  /\ PRINT_STATS' \in BOOLEAN
  /\ mainPc' = "spawn"
  /\ UNCHANGED <<flag, serverFlag, thread, ready, mainAt, handlerVars,
                 cleanTime, late, outlives>>

\* spawnWriteStats, spawnWriteLog: not without PRINT_STATS.
SkipStatistics ==
  /\ InStart("spawn")
  /\ Current \in Statistics /\ ~ PRINT_STATS
  /\ NextKind
  /\ UNCHANGED <<PRINT_STATS, flag, serverFlag, thread, ready, handlerVars,
                 cleanTime, late, outlives>>

\* ... the test is one thing, the flag another.
StatisticsWanted ==
  /\ InStart("spawn")
  /\ Current \in Statistics /\ PRINT_STATS
  /\ mainPc' = "raise"
  /\ UNCHANGED <<PRINT_STATS, flag, serverFlag, thread, ready, mainAt,
                 handlerVars, cleanTime, late, outlives>>

Raise ==
  /\ flag' = [flag EXCEPT ![Current] = TRUE]
  /\ outlives' = IF signals > 0 THEN outlives \cup {Current} ELSE outlives
  /\ mainPc' = "create"
  /\ UNCHANGED <<PRINT_STATS, serverFlag, thread, ready, mainAt, handlerVars,
                 cleanTime, late>>

RaiseTimer == InStart("spawn") /\ Current = "timer" /\ Raise
RaiseRouter == InStart("spawn") /\ Current \in Routers /\ Raise
RaiseManager == InStart("spawn") /\ Current \in Managers /\ Raise
RaiseFlusher == InStart("spawn") /\ Current \in Flushers /\ Raise
RaiseAgent == InStart("spawn") /\ Current \in Agents /\ Raise
RaiseStatistics == InStart("raise") /\ Raise

\* pthread_create and pinThread; the statistics are not waited for.
CreateThread ==
  /\ InStart("create")
  /\ thread' = [thread EXCEPT ![Current] = "created"]
  /\ IF Current \in Statistics
     THEN NextKind
     ELSE mainPc' = "await" /\ mainAt' = mainAt
  /\ UNCHANGED <<PRINT_STATS, flag, serverFlag, ready, handlerVars, cleanTime,
                 late, outlives>>

\* while (!is...Ready()) sleep(1)
AwaitReady ==
  /\ InStart("await")
  /\ ready[Current]
  /\ NextKind
  /\ UNCHANGED <<PRINT_STATS, flag, serverFlag, thread, ready, handlerVars,
                 cleanTime, late, outlives>>

\* A thread that can be expected to look at its flag.
Overdue(k) == thread[k] = "running" /\ ~ flag[k] /\ k \notin Statistics

\* sleep(5), more than MaxLate, and the loads.
LoadMaps ==
  /\ InStart("loads")
  /\ \A k \in Kind : ~ Overdue(k)
  /\ mainPc' = "loop"
  /\ UNCHANGED <<PRINT_STATS, flag, serverFlag, thread, ready, mainAt,
                 handlerVars, cleanTime, late, outlives>>

\* The loop of start() sees that it is over, and exit(0) ends all threads.
MainEnds ==
  /\ InStart("loop")
  /\ ~ serverFlag
  /\ mainPc' = "exited"
  /\ UNCHANGED <<PRINT_STATS, flag, serverFlag, thread, ready, mainAt,
                 handlerVars, cleanTime, late, outlives>>

Start ==
  \/ EnableServer \/ ReadConfiguration
  \/ SkipStatistics \/ StatisticsWanted
  \/ RaiseTimer \/ RaiseRouter \/ RaiseManager \/ RaiseFlusher \/ RaiseAgent
  \/ RaiseStatistics \/ CreateThread \/ AwaitReady \/ LoadMaps \/ MainEnds

-----------------------------------------------------------------------------
(* The handler.                                                            *)

Exited == mainPc = "exited"

\* SIGTERM or SIGINT arrives.
SignalArrives ==
  /\ ~ Exited /\ stage = 0
  /\ signals < MaxSignals
  /\ signals' = signals + 1
  /\ stage' = 1
  /\ UNCHANGED <<PRINT_STATS, flag, serverFlag, thread, ready, startVars,
                 sleeping, cleanTime, late, outlives>>

\* One stage: the flags of a kind, with the first one PRINT_STATS as well.
ClearFlags ==
  /\ stage \in DOMAIN StopOrder /\ ~ sleeping
  /\ flag' = [k \in Kind |-> flag[k] /\ k \notin StopOrder[stage]]
  /\ outlives' = outlives \ StopOrder[stage]
  /\ PRINT_STATS' = (PRINT_STATS /\ stage # 1)
  /\ sleeping' = TRUE
  /\ UNCHANGED <<serverFlag, thread, ready, startVars, stage, signals,
                 cleanTime, late>>

\* sleep(1): by then threads that run have looked at their flags, at most
\* MaxLate seconds late.
SleepSecond ==
  /\ sleeping
  /\ \A k \in Kind : Overdue(k) => late[k] < MaxLate
  /\ late' = [k \in Kind |-> IF Overdue(k) THEN late[k] + 1 ELSE late[k]]
  /\ sleeping' = FALSE
  /\ stage' = stage + 1
  /\ UNCHANGED <<PRINT_STATS, flag, serverFlag, thread, ready, startVars,
                 signals, cleanTime, outlives>>

\* The last stage; the handler returns to start().
ClearServer ==
  /\ stage = Len(StopOrder) + 1
  /\ serverFlag' = FALSE
  /\ stage' = 0
  /\ UNCHANGED <<PRINT_STATS, flag, thread, ready, startVars, sleeping,
                 signals, cleanTime, late, outlives>>

Handler == ClearFlags \/ SleepSecond \/ ClearServer

-----------------------------------------------------------------------------
(* The threads.                                                            *)

Becomes(k, where) ==
  /\ ~ Exited
  /\ thread' = [thread EXCEPT ![k] = where]
  /\ UNCHANGED <<PRINT_STATS, flag, serverFlag, startVars, handlerVars,
                 cleanTime, outlives>>

\* Mutant: a thread says that it is ready in its loop.
ThreadStartsInLoop(k) ==
  /\ thread[k] = "created"
  /\ Becomes(k, "running")
  /\ ready' = [ready EXCEPT ![k] = flag[k]]
  /\ UNCHANGED late

\* Every run() says that it is ready before it looks at its flag.
ThreadStarts(k) ==
  /\ thread[k] = "created"
  /\ Becomes(k, "running")
  /\ ready' = [ready EXCEPT ![k] = TRUE]
  /\ UNCHANGED late

\* The flag is down: the thread ends.
ThreadEnds(k) ==
  /\ thread[k] = "running" /\ ~ flag[k]
  /\ Becomes(k, "ended")
  /\ late' = [late EXCEPT ![k] = 0]
  /\ UNCHANGED ready

\* An agent waits in recv() for the next packet ...
Recv(k) ==
  /\ k \in Agents
  /\ thread[k] = "running" /\ flag[k]
  /\ Becomes(k, "recv")
  /\ UNCHANGED <<ready, late>>

\* ... which arrives, or never does.
PacketArrives(k) ==
  /\ thread[k] = "recv"
  /\ Becomes(k, "running")
  /\ UNCHANGED <<ready, late>>

\* The end of the day in TcpSM::run and UdpSM::run: at the given second of
\* the clock the manager waits until the clock has gone on by 11 seconds.
\* It looked at its flag some time before.
EnterDrain(k) ==
  /\ k \in {"tcpSM", "udpSM"}
  /\ thread[k] = "running"
  /\ cleanTime
  /\ Becomes(k, "drain")
  /\ UNCHANGED <<ready, late>>

\* ... which takes a clock that runs.  The scan, and sleep(60 - DAY_CLEAN_SEC):
\* 30 seconds as delivered, in which the manager does not look at its flag.
LeaveDrain(k) ==
  /\ thread[k] = "drain"
  /\ Running("timer")
  /\ Becomes(k, "pause")
  /\ UNCHANGED <<ready, late>>

\* The end of the sleep is the end of the loop, where the flag is looked at.
WakeFromPause(k) ==
  /\ thread[k] = "pause"
  /\ Becomes(k, IF flag[k] THEN "running" ELSE "ended")
  /\ UNCHANGED <<ready, late>>

\* The clock reaches or leaves the second at which days end.
ClockMoves ==
  /\ ~ Exited
  /\ thread["timer"] = "running" /\ flag["timer"]
  /\ cleanTime' = ~ cleanTime
  /\ UNCHANGED <<PRINT_STATS, flag, serverFlag, thread, ready, startVars,
                 handlerVars, late, outlives>>

ThreadStep(k) ==
  \/ ThreadStarts(k) \/ ThreadEnds(k) \/ Recv(k) \/ PacketArrives(k)
  \/ EnterDrain(k) \/ LeaveDrain(k) \/ WakeFromPause(k)

LifeNext ==
  Start \/ SignalArrives \/ Handler \/ ClockMoves \/ \E k \in Kind : ThreadStep(k)

LifeSpec == LifeInit /\ [][LifeNext]_lifeVars

\* Main thread, handler and every thread are scheduled; the traffic and the
\* signals are not promised.
LifeFairness ==
  /\ WF_lifeVars(Start) /\ WF_lifeVars(Handler)
  /\ \A k \in Kind : WF_lifeVars(ThreadStarts(k)) /\ WF_lifeVars(ThreadEnds(k))

-----------------------------------------------------------------------------
LifeTypeOK ==
  /\ PRINT_STATS \in BOOLEAN /\ serverFlag \in BOOLEAN
  /\ flag \in [Kind -> BOOLEAN] /\ ready \in [Kind -> BOOLEAN]
  /\ thread \in [Kind -> {"none", "created", "running", "recv", "drain", "pause",
                       "ended"}]
  /\ mainPc \in {"main", "config", "spawn", "raise", "create", "await", "loads", "loop",
               "exited"}
  /\ mainAt \in Configured
  /\ stage \in 0 .. Len(StopOrder) + 1 /\ sleeping \in BOOLEAN
  /\ sleeping => stage \in DOMAIN StopOrder
  /\ signals \in 0 .. MaxSignals
  /\ cleanTime \in BOOLEAN
  /\ late \in [Kind -> 0 .. MaxLate]
  /\ outlives \subseteq Kind

(* Told to stop at any moment after main() has set the server's flag, the  *)
(* server stops: also while start() waits for a thread whose flag the      *)
(* handler has just cleared, and although threads may be stuck or asleep,  *)
(* for start() joins none.  (A signal between the registration of the      *)
(* handler and that moment is forgotten: EnableServer.)                    *)
StopsWhenTold == (stage # 0 /\ mainPc # "main") ~> Exited

\* Who fills what whom empties.
FeedsInto ==
  (Routers \X Managers)
    \cup {<<"tcpSM", "tcpFl">>, <<"udpSM", "udpFl">>, <<"dnsSM", "dnsFl">>,
          <<"aaaSM", "aaaFl">>, <<"unmSM", "unmFl">>}

\* A thread that stopping leaves behind: its flag was set by a start() that
\* went on after the handler, or it is at its end of the day, where it waits
\* for the clock and then sleeps, and does not look at its flag.
LeftBehind(k) == k \in outlives \/ thread[k] \in {"drain", "pause"}

(* The server stops along its pipeline.  No manager ends while a router    *)
(* still feeds it, no flusher while its managers still report to it, and   *)
(* exit() cuts off no router, manager or flusher in the middle of its      *)
(* work, but for those that stopping leaves behind: what start() spawned   *)
(* after the handler had been through its stage, and managers caught at    *)
(* the end of the day, in the drain, which never ends once the clock has   *)
(* been stopped, or in the sleep behind it, which the rest of the stages   *)
(* and exit() do not wait for.                                             *)
StopsDownstream ==
  \A a \in Kind :
    /\ Running(a) /\ ~ LeftBehind(a)
    /\ \/ \E b \in Kind : <<a, b>> \in FeedsInto /\ thread[b] = "ended"
       \/ a \in Routers \cup Managers \cup Flushers /\ Exited
    => FALSE
=============================================================================
