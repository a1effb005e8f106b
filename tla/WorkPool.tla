------------------------------ MODULE WorkPool ------------------------------
(***************************************************************************)
(* What the thread pool promises its owner, without semaphores, counters   *)
(* and locks: jobs are started in the order they were added, each at most  *)
(* once; a wait returns only when every job added has finished; destroying *)
(* the pool waits for the running jobs and drops the queued ones.          *)
(***************************************************************************)
EXTENDS Sequences

CONSTANT Jobs

VARIABLES
  queued,    \* jobs not started yet, oldest first
  running,   \* jobs being executed
  finished,  \* jobs that have returned
  phase      \* what the owner is doing: "open", "waiting" or "closed"

vars == <<queued, running, finished, phase>>

Init ==
  /\ queued = << >>
  /\ running = {}
  /\ finished = {}
  /\ phase = "open"

Add(j) ==
  /\ phase = "open"
  /\ queued' = Append(queued, j)
  /\ UNCHANGED <<running, finished, phase>>

Start ==
  /\ queued # << >>
  /\ Head(queued) \notin running \cup finished
  /\ running' = running \cup {Head(queued)}
  /\ queued' = Tail(queued)
  /\ UNCHANGED <<finished, phase>>

Finish(j) ==
  /\ j \in running
  /\ running' = running \ {j}
  /\ finished' = finished \cup {j}
  /\ UNCHANGED <<queued, phase>>

StartWait ==
  /\ phase = "open"
  /\ phase' = "waiting"
  /\ UNCHANGED <<queued, running, finished>>

WaitReturns ==
  /\ phase = "waiting"
  /\ queued = << >> /\ running = {}
  /\ phase' = "open"
  /\ UNCHANGED <<queued, running, finished>>

Close ==
  /\ phase = "open"
  /\ running = {}
  /\ queued' = << >>
  /\ phase' = "closed"
  /\ UNCHANGED <<running, finished>>

Next ==
  \/ \E j \in Jobs : Add(j) \/ Finish(j)
  \/ Start \/ StartWait \/ WaitReturns \/ Close

Spec == Init /\ [][Next]_vars
=============================================================================
