---------------------------- MODULE ClusterLaunch ----------------------------
(***************************************************************************)
(* launch-cluster-tuned.sh, run on the head node, one experiment after the *)
(* other: clear all nodes, start the head's container, start the workers'  *)
(* over ssh, and poll the head's server.  It goes on whatever fails: an    *)
(* ssh that does not get through, a clear that leaves a process behind, an *)
(* old container that is not removed and keeps the name the new one needs, *)
(* a container that does not start.  Containers die at any time.           *)
(*                                                                         *)
(* A container is known by the experiment it was started for.  Workers of  *)
(* any experiment look for the head at one address and port, so one that   *)
(* was left behind may take its rank with a later head.  Configurations,   *)
(* caches and the copy of the launcher to the workers are left out.        *)
(***************************************************************************)
EXTENDS Naturals, FiniteSets

CONSTANTS HeadNode, Workers,
          MaxLaunches,  \* bound: experiments tried
          MaxPolls      \* polls of one experiment (180 in the script)

ASSUME ClusterConstants ==
  HeadNode \notin Workers /\ MaxLaunches \in Nat \ {0} /\ MaxPolls \in Nat \ {0}

VARIABLES launch,   \* the experiment, 0 before the first
          pc,       \* where the script is, or how it ended
          todo,     \* nodes the current group of commands has not ended on
          polls,
          head,     \* the head's container: of which experiment, who joined
          worker,   \* the workers' containers, and the head each has joined
          clean,    \* nodes cleared of an earlier container (history)
          freed     \* others on which the launcher has removed it (history)

clusterVars == <<launch, pc, todo, polls, head, worker, clean, freed>>

Nodes      == {HeadNode} \cup Workers
Ended      == {"ready", "died", "timeout"}
NoHead     == [of |-> 0, seat |-> [n \in Workers |-> 0], ready |-> FALSE]
NoWorker   == [of |-> 0, with |-> 0]

ClusterInit ==
  /\ launch = 0 /\ pc = "idle" /\ todo = {} /\ polls = 0
  /\ head = NoHead /\ worker = [n \in Workers |-> NoWorker]
  /\ clean = {} /\ freed = {}
-----------------------------------------------------------------------------
(* The script *)

Start ==
  /\ pc \in {"idle"} \cup Ended /\ launch < MaxLaunches
  /\ launch' = launch + 1 /\ pc' = "clear" /\ todo' = Nodes /\ polls' = 0
  /\ clean' = {} /\ freed' = {}
  /\ UNCHANGED <<head, worker>>

\* wait: the next group begins when all commands of this one have ended.
Done(n, next, nextTodo) ==
  /\ n \in todo
  /\ IF todo = {n} THEN pc' = next /\ todo' = nextTodo
                   ELSE todo' = todo \ {n} /\ UNCHANGED pc

\* gpu-clear on the head, then on the workers at once.
Clear(n) ==
  /\ pc = "clear" /\ Done(n, "head", {HeadNode})
  /\ n # HeadNode => HeadNode \notin todo
  /\ \/ /\ clean' = clean \cup {n}
        /\ IF n = HeadNode THEN head' = NoHead /\ UNCHANGED worker
                       ELSE worker' = [worker EXCEPT ![n] = NoWorker] /\ UNCHANGED head
     \/ UNCHANGED <<clean, head, worker>>
  /\ UNCHANGED <<launch, polls, freed>>

\* The launcher on the head: docker rm -f, then docker run, which may fail.
\* The old container stays if the launcher fails before, or the removal does:
\* that is ignored, and docker run then fails on the name.
LaunchHead ==
  /\ pc = "head" /\ Done(HeadNode, "workers", Workers)
  /\ \/ /\ freed' = freed \cup ({HeadNode} \ clean)
        /\ head' \in {NoHead, [NoHead EXCEPT !.of = launch]}
     \/ UNCHANGED <<head, freed>>
  /\ UNCHANGED <<launch, polls, worker, clean>>

\* Mutant of LaunchWorker: an old container of the name is not removed.
LaunchWorkerBeside(n) ==
  /\ pc = "workers" /\ Done(n, "poll", {})
  /\ \/ /\ freed' = freed \cup ({n} \ clean)
        /\ worker' \in IF worker[n].of # 0 THEN {worker}
                       ELSE {[worker EXCEPT ![n].of = launch], worker}
     \/ UNCHANGED <<worker, freed>>
  /\ UNCHANGED <<launch, polls, head, clean>>

\* The same over ssh, which may not get through.
LaunchWorker(n) ==
  /\ pc = "workers" /\ Done(n, "poll", {})
  /\ \/ /\ freed' = freed \cup ({n} \ clean)
        /\ \E of \in {0, launch} : worker' = [worker EXCEPT ![n] = [of |-> of, with |-> 0]]
     \/ UNCHANGED <<worker, freed>>
  /\ UNCHANGED <<launch, polls, head, clean>>

Answers == head.of # 0 /\ head.ready

\* Mutant of Poll: as long as the head's container is there it waits.
PollForever ==
  /\ pc = "poll"
  /\ pc' = CASE Answers -> "ready" [] ~Answers /\ head.of = 0 -> "died" [] OTHER -> "poll"
  /\ UNCHANGED <<launch, todo, polls, head, worker, clean, freed>>

Poll ==
  /\ pc = "poll"
  /\ polls' = polls + 1
  /\ pc' = CASE Answers -> "ready"
             [] ~Answers /\ head.of = 0 -> "died"
             [] ~Answers /\ head.of # 0 -> IF polls' = MaxPolls THEN "timeout" ELSE "poll"
  /\ UNCHANGED <<launch, todo, head, worker, clean, freed>>

Script == LaunchHead \/ Poll \/ \E n \in Nodes : Clear(n) \/ (n # HeadNode /\ LaunchWorker(n))
-----------------------------------------------------------------------------
(* The containers *)

\* A worker takes its rank with the head that is there, if it is free.
Join(n) ==
  /\ worker[n].of # 0 /\ worker[n].with = 0 /\ head.of # 0 /\ head.seat[n] = 0
  /\ worker' = [worker EXCEPT ![n].with = head.of]
  /\ head' = [head EXCEPT !.seat[n] = worker[n].of]
  /\ UNCHANGED <<launch, pc, todo, polls, clean, freed>>

\* The server answers once all ranks have joined and are there.
HeadReady ==
  /\ head.of # 0 /\ ~head.ready
  /\ \A n \in Workers : /\ head.seat[n] # 0
                        /\ worker[n] = [of |-> head.seat[n], with |-> head.of]
  /\ head' = [head EXCEPT !.ready = TRUE]
  /\ UNCHANGED <<launch, pc, todo, polls, worker, clean, freed>>

Die ==
  /\ \/ head.of # 0 /\ head' = NoHead /\ UNCHANGED worker
     \/ \E n \in Workers : /\ worker[n].of # 0
                           /\ worker' = [worker EXCEPT ![n] = NoWorker]
                           /\ UNCHANGED head
  /\ UNCHANGED <<launch, pc, todo, polls, clean, freed>>

Containers == HeadReady \/ Die \/ \E n \in Workers : Join(n)
-----------------------------------------------------------------------------
(***************************************************************************)
(* What serves, and is reported ready, is of this experiment, but for what *)
(* was not got rid of.  The head is an earlier one only if on its node     *)
(* both the clearing and the launcher's removal failed.  This experiment's *)
(* head has given a rank to an earlier worker only on a node the clearing  *)
(* failed on: it is started before the workers' launchers run.  And no     *)
(* earlier worker serves with either once its node is cleared or freed.    *)
(***************************************************************************)
RanksAreOwn ==
  (pc \in {"workers", "poll", "ready"} /\ head.of # 0) =>
    /\ head.of # launch => HeadNode \notin clean \cup freed
    /\ \A n \in Workers : head.seat[n] \notin {0, launch} =>
         /\ head.of = launch => n \notin clean
         /\ worker[n] = [of |-> head.seat[n], with |-> head.of] => n \notin clean \cup freed

(***************************************************************************)
(* A launch ends.  Only the head's container is watched, and a worker that *)
(* dies or never starts leaves the head waiting: what ends the wait is the *)
(* number of polls.                                                        *)
(***************************************************************************)
LaunchEnds == pc = "clear" ~> pc \in Ended
=============================================================================
