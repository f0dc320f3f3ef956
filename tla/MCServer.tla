------------------------------- MODULE MCServer -------------------------------
(***************************************************************************)
(* Three parts of the program that do not meet: the configuration is read  *)
(* before there is any thread, threads are started and stopped whatever    *)
(* the traffic, and a report is made from one session at a time.  A        *)
(* behaviour is one of one part; the other two stay where they start.      *)
(***************************************************************************)
EXTENDS Configuration, Lifecycle, Reports

VARIABLE part

vars == <<part, confVars, lifeVars, repVars>>

Entry(key, value) == [key |-> key, value |-> value]

\* Of every kind of setting one, two lists that are cut, one of them by a
\* number of its own group, two lines for one list and one for no value.
MCLine ==
  {Entry("NO_OF_INTERFACE_SUPPORT", <<<<"2">>>>),
   Entry("TCP_SERVER_ADDRESS", <<<<"a", "b", "c">>>>),
   Entry("TCP_SERVER_ADDRESS", <<<<"d">>>>),
   Entry("TCP_SM_INSTANCES", <<<<"2">>>>),
   Entry("TCP_SM_INSTANCES", <<>>),
   Entry("TCP_SM_CORE", <<<<"4", "5", "6">>>>),
   Entry("ROUTER_CORE", <<<<"4", "5">>, <<"6">>>>),
   Entry("UDP_PPS_PER_INTERFACE", <<<<"70000", "4">>>>),
   Entry("PEERING_I3DNET", <<<<"n16", "n8">>>>),
   Entry("PRINT_STATS", <<<<"true">>>>),
   Entry("LOG_DIR", <<<<"a">>>>),
   Entry("PROBE_ID", <<<<"70000">>>>)}

MCNumeral ==
  ("2" :> 2) @@ ("4" :> 4) @@ ("5" :> 5) @@ ("6" :> 6) @@ ("70000" :> 70000)
MCSubnet ==
  ("n16" :> [addr |-> 40, bits |-> 16]) @@ ("n8" :> [addr |-> 40, bits |-> 8])

Init ==
  /\ part \in {"configuration", "lifecycle", "reports"}
  /\ IF part = "configuration" THEN ConfInit
     ELSE file = <<>> /\ pass = 0 /\ pos = 0 /\ conf = <<>>
  /\ LifeInit
  /\ RepInit /\ (part # "reports" => proto = "tcp")

Configure ==
  part = "configuration" /\ ConfNext /\ UNCHANGED <<part, lifeVars, repVars>>
Live == part = "lifecycle" /\ LifeNext /\ UNCHANGED <<part, confVars, repVars>>
Report == part = "reports" /\ RepNext /\ UNCHANGED <<part, confVars, lifeVars>>

Next == Configure \/ Live \/ Report

\* LifeFairness: in the other parts none of its actions is a step.
Living(A) == part = "lifecycle" /\ A /\ UNCHANGED <<part, confVars, repVars>>

Fairness ==
  /\ WF_vars(Living(Start)) /\ WF_vars(Living(Handler))
  /\ \A k \in Kind :
       WF_vars(Living(ThreadStarts(k))) /\ WF_vars(Living(ThreadEnds(k)))

Spec == Init /\ [][Next]_vars /\ Fairness
=============================================================================
