----------------------------- MODULE MpStartup -----------------------------
(***************************************************************************)
(* Two nodes that start each other (rtems-mp.c): node 1 creates a task and *)
(* two semaphores that all nodes know, node 0 looks for them by name; task *)
(* A of node 1 releases a semaphore and then suspends itself, node 0 gets  *)
(* the semaphore, sleeps, and resumes it.  A node is told of a new object  *)
(* by a message, some time later.                                          *)
(***************************************************************************)
EXTENDS Integers, Sequences

CONSTANTS
  SemATries, SemBTries, TaskTries, \* looks until a name is given up (250, 50, 500)
  SleepTicks,                      \* sleep(5)
  MaxLag                           \* ticks task A takes at most from the release to the suspend

ASSUME MpTimes ==
  /\ {SemATries, SemBTries, TaskTries, SleepTicks} \subseteq Nat \ {0}
  /\ MaxLag \in 0 .. SleepTicks - 1

VARIABLES
  node0,    \* where node 0 is
  timeout,  \* wait_global_id: looks that are left
  sleeping, \* ticks node 0 still sleeps
  node1,    \* where Init of node 1 is
  taskA,    \* "dormant", "start", "suspend", "suspended" or "woken"
  created,  \* objects there are
  ids,      \* objects node 0 was told of
  sems,     \* counts of the semaphores
  lag       \* ticks since task A has released the semaphore

mp_vars == <<node0, timeout, sleeping, node1, taskA, created, ids, sems, lag>>

MpInit ==
  /\ node0 = "wait_semA" /\ timeout = SemATries /\ sleeping = 0
  /\ node1 = "task" /\ taskA = "dormant"
  /\ created = {} /\ ids = {} /\ sems = [semA |-> 0, semB |-> 0] /\ lag = 0

-----------------------------------------------------------------------------
(* Node 1.  The semaphores are created empty.                              *)
Node1Create ==
  /\ node1 \in {"task", "semA", "semB"}
  /\ created' = created \cup {node1}
  /\ node1' = [task |-> "semA", semA |-> "semB", semB |-> "obtain"][node1]
  /\ UNCHANGED <<node0, timeout, sleeping, taskA, ids, sems, lag>>

Node1Obtain ==
  /\ node1 = "obtain" /\ sems.semA > 0
  /\ sems' = [sems EXCEPT !.semA = @ - 1] /\ node1' = "deleted"
  /\ taskA' = "start"
  /\ UNCHANGED <<node0, timeout, sleeping, created, ids, lag>>

TaskARelease ==
  /\ taskA = "start" /\ taskA' = "suspend"
  /\ sems' = [sems EXCEPT !.semB = @ + 1]
  /\ UNCHANGED <<node0, timeout, sleeping, node1, created, ids, lag>>

TaskASuspend ==
  /\ taskA = "suspend" /\ taskA' = "suspended"
  /\ UNCHANGED <<node0, timeout, sleeping, node1, created, ids, sems, lag>>

-----------------------------------------------------------------------------
(* Node 0.  wait_global_id: a look every two ticks.                        *)
Waits == [wait_semA |-> "semA", wait_semB |-> "semB", wait_task |-> "task"]

WaitGlobalId ==
  /\ node0 \in DOMAIN Waits /\ sleeping = 0
  /\ IF Waits[node0] \in ids
       THEN \/ node0 = "wait_semA" /\ node0' = "wait_semB" /\ timeout' = SemBTries /\ UNCHANGED sleeping
            \/ node0 = "wait_semB" /\ node0' = "wait_task" /\ timeout' = TaskTries /\ UNCHANGED sleeping
            \/ node0 = "wait_task" /\ node0' = "release" /\ sleeping' = SleepTicks /\ UNCHANGED timeout
       ELSE /\ timeout' = timeout - 1 /\ sleeping' = 1
            /\ node0' = IF timeout' > 0 THEN node0 ELSE "exit"
  /\ UNCHANGED <<node1, taskA, created, ids, sems, lag>>

Release ==
  /\ node0 = "release" /\ sleeping = 0 /\ node0' = "obtain"
  /\ sems' = [sems EXCEPT !.semA = @ + 1]
  /\ UNCHANGED <<timeout, sleeping, node1, taskA, created, ids, lag>>

ObtainNoSleep ==                              \* mutant: resumes as soon as task A was heard of
  /\ node0 = "obtain" /\ sems.semB > 0
  /\ sems' = [sems EXCEPT !.semB = @ - 1]
  /\ node0' = "resume" /\ sleeping' = 0
  /\ UNCHANGED <<timeout, node1, taskA, created, ids, lag>>

Obtain ==
  /\ node0 = "obtain" /\ sems.semB > 0
  /\ sems' = [sems EXCEPT !.semB = @ - 1]
  /\ node0' = "resume" /\ sleeping' = SleepTicks
  /\ UNCHANGED <<timeout, node1, taskA, created, ids, lag>>

(* A resume of a task that is not suspended fails, and node 0 ends.        *)
Resume ==
  /\ node0 = "resume" /\ sleeping = 0
  /\ IF taskA = "suspended" THEN taskA' = "woken" /\ node0' = "done"
                            ELSE node0' = "exit" /\ UNCHANGED taskA
  /\ UNCHANGED <<timeout, sleeping, node1, created, ids, sems, lag>>

-----------------------------------------------------------------------------
Announce ==
  /\ \E object \in created \ ids : ids' = ids \cup {object}
  /\ UNCHANGED <<node0, timeout, sleeping, node1, taskA, created, sems, lag>>

Tick ==
  /\ sleeping > 0 /\ sleeping' = sleeping - 1
  /\ IF taskA = "suspend" THEN lag < MaxLag /\ lag' = lag + 1 ELSE UNCHANGED lag
  /\ UNCHANGED <<node0, timeout, node1, taskA, created, ids, sems>>

Node0 == WaitGlobalId \/ Release \/ Obtain \/ Resume
Node1 == Node1Create \/ Node1Obtain \/ TaskARelease \/ TaskASuspend

MpNext == Node0 \/ Node1 \/ Announce \/ Tick

(* Both nodes run, messages arrive and time passes.                        *)
MpFairness ==
  WF_mp_vars(Node0) /\ WF_mp_vars(Node1) /\ WF_mp_vars(Announce) /\ WF_mp_vars(Tick)

MpSpec == MpInit /\ [][MpNext]_mp_vars /\ MpFairness

-----------------------------------------------------------------------------
MpTypeOK ==
  /\ node0 \in DOMAIN Waits \cup {"release", "obtain", "resume", "done", "exit"}
  /\ timeout \in 0 .. SemATries + SemBTries + TaskTries /\ sleeping \in 0 .. SleepTicks
  /\ node1 \in {"task", "semA", "semB", "obtain", "deleted"}
  /\ taskA \in {"dormant", "start", "suspend", "suspended", "woken"}
  /\ created \subseteq {"task", "semA", "semB"} /\ ids \subseteq created
  /\ sems \in [{"semA", "semB"} -> 0 .. 1] /\ lag \in 0 .. MaxLag

(* When node 0 has slept task A is suspended, so that the resume does not  *)
(* fail: node 0 ends early only while it still looks for names, before     *)
(* anything was asked of node 1.                                           *)
ResumeInTime ==
  /\ node0 = "resume" /\ sleeping = 0 => taskA = "suspended"
  /\ node0 = "exit" => taskA = "dormant"

(* "We must have been woken up by CPU0": once node 0 has found everything  *)
(* task A runs, suspends itself and is woken, although nothing but a sleep *)
(* keeps the resume from coming before the suspend.                        *)
TaskAWoken == node0 = "release" ~> taskA = "woken"
=============================================================================
