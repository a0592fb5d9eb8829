----------------------------- MODULE Evaluation -----------------------------
(***************************************************************************)
(* An experiment: the cluster is launched, and once the script has said    *)
(* that the server is ready a benchmark is run against it, while its       *)
(* containers may die.  The next launch comes after the benchmark.         *)
(***************************************************************************)
EXTENDS ClusterLaunch, BenchRunner

vars == <<clusterVars, benchVars>>

Init == ClusterInit /\ BenchInit

Launching == ~BenchRunning /\ Start /\ EndBench

Measure == /\ pc = "ready" /\ ~BenchRunning /\ bench = "none" /\ StartBench
           /\ UNCHANGED clusterVars

\* Without a server a request can only fail; with one it may all the same.
Ask == /\ \E q \in Questions, o \in Outcomes : (o.fin # "error" => Answers) /\ Attempt(q, o)
       /\ UNCHANGED clusterVars

Next == \/ Launching
        \/ Script /\ UNCHANGED benchVars
        \/ Containers /\ UNCHANGED benchVars
        \/ Measure
        \/ Take /\ UNCHANGED clusterVars
        \/ Ask

\* Every command the script starts comes to an end, and it goes on.
Spec == Init /\ [][Next]_vars /\ WF_vars(Script /\ UNCHANGED benchVars)
=============================================================================
