----------------------------- MODULE ThreadPool -----------------------------
(***************************************************************************)
(* thpool.c: worker threads (thread_do) that sleep on a binary semaphore   *)
(* until there are jobs, and one owner that calls the pool's functions.    *)
(* Sections under a mutex are single steps, except the last one of a       *)
(* worker: thpool_destroy reads num_threads_alive without the lock, so the *)
(* unlock after the decrement is a step of its own.  The signal handler of *)
(* thpool_pause stops a worker anywhere, also inside such a section, and   *)
(* then the worker keeps the mutex.                                        *)
(***************************************************************************)
EXTENDS Naturals, Sequences, FiniteSets

CONSTANTS
  Threads,  \* the threads of the pool
  Jobs,     \* jobs the owner adds, each once
  NoJob,    \* a thread that runs no job
  CreateMayFail,  \* pthread_create in thread_init may fail
  MaxPauses       \* bound: calls of thpool_pause

ASSUME PoolAssumption ==
  /\ IsFiniteSet(Threads)
  /\ Threads # {}
  /\ NoJob \notin Jobs
  /\ CreateMayFail \in BOOLEAN
  /\ MaxPauses \in Nat

VARIABLES
  pc,                   \* per thread: where it is in thread_do
  owner,                \* where the owner is
  jobqueue,             \* the linked list of jobs, front first
  has_jobs,             \* v of the binary semaphore
  num_threads_alive, num_threads_working,
  threads_keepalive,
  job_p,                \* per thread: the job it executes
  newjob,               \* the job the owner is adding
  sigusr1,              \* threads with SIGUSR1 pending
  held,                 \* threads in thread_hold
  keeps,                \* per thread: the mutexes it holds in thread_hold
  threads_on_hold,
  added, done,          \* history: jobs added, jobs that have returned
  paused, pauses        \* history: no resume since the last pause; number of pauses

counts == <<num_threads_alive, num_threads_working>>
hold   == <<sigusr1, held, keeps, threads_on_hold, paused, pauses>>
vars   == <<pc, owner, jobqueue, has_jobs, counts, threads_keepalive, job_p, newjob, hold,
            added, done>>

(***************************************************************************)
(* born: before the thread counts itself alive.  loop: at while            *)
(* (threads_keepalive).  semWait: in bsem_wait, before testing v.  asleep: *)
(* in pthread_cond_wait.  check: past bsem_wait.  begin: before            *)
(* num_threads_working++.  pull, run, end: job in hand.  leave: before     *)
(* num_threads_alive--.  unlock: after it, the mutex still held.           *)
(***************************************************************************)
Labels == {"unborn", "born", "loop", "semWait", "asleep", "check", "begin", "pull", "run",
           "end", "leave", "unlock", "gone"}
OwnerLabels == {"init", "initSpin", "open", "push", "waitTest", "waitSleep", "destroy", "freed"}

Init ==
  /\ pc = [t \in Threads |-> "unborn"]
  /\ owner = "init"
  /\ jobqueue = << >>
  /\ has_jobs = 0
  /\ num_threads_alive = 0
  /\ num_threads_working = 0
  /\ threads_keepalive = TRUE
  /\ job_p = [t \in Threads |-> NoJob]
  /\ newjob = NoJob
  /\ sigusr1 = {}
  /\ held = {}
  /\ keeps = [t \in Threads |-> {}]
  /\ threads_on_hold = FALSE
  /\ paused = FALSE
  /\ pauses = 0
  /\ added = {}
  /\ done = {}

-----------------------------------------------------------------------------
Goto(t, l) == pc' = [pc EXCEPT ![t] = l]

At(t, l) == pc[t] = l /\ t \notin held

\* No stopped thread holds mutex m...
Free(m) == \A t \in Threads : m \notin keeps[t]

\* ... and for thcount_lock, no thread is between its last decrement and the
\* unlock.
ThcountFree == Free("thcount_lock") /\ \A t \in Threads : pc[t] # "unlock"

\* pthread_cond_signal: one of the sleepers, if any, is woken.  at is the
\* position of every thread after the rest of the step.
Signal(at) ==
  LET sleepers == {t \in Threads : at[t] = "asleep"} IN
    IF sleepers = {} THEN pc' = at
    ELSE \E t \in sleepers : pc' = [at EXCEPT ![t] = "semWait"]

-----------------------------------------------------------------------------
(* thread_do *)

\* Mark thread as alive.
ThreadBorn(t) ==
  /\ At(t, "born")
  /\ ThcountFree
  /\ num_threads_alive' = num_threads_alive + 1
  /\ Goto(t, "loop")
  /\ UNCHANGED <<owner, jobqueue, has_jobs, num_threads_working, threads_keepalive, job_p,
                 newjob, hold, added, done>>

\* while (threads_keepalive)
ThreadLoop(t) ==
  /\ At(t, "loop")
  /\ Goto(t, IF threads_keepalive THEN "semWait" ELSE "leave")
  /\ UNCHANGED <<owner, jobqueue, has_jobs, counts, threads_keepalive, job_p, newjob, hold,
                 added, done>>

\* bsem_wait: take the semaphore or sleep.
BsemWait(t) ==
  /\ At(t, "semWait")
  /\ Free("bsem")
  /\ has_jobs' = 0
  /\ Goto(t, IF has_jobs = 1 THEN "check" ELSE "asleep")
  /\ UNCHANGED <<owner, jobqueue, counts, threads_keepalive, job_p, newjob, hold, added,
                 done>>

\* A wake-up nobody asked for.
SpuriousWakeup(t) ==
  /\ At(t, "asleep")
  /\ Goto(t, "semWait")
  /\ UNCHANGED <<owner, jobqueue, has_jobs, counts, threads_keepalive, job_p, newjob, hold,
                 added, done>>

\* if (threads_keepalive)
ThreadCheck(t) ==
  /\ At(t, "check")
  /\ Goto(t, IF threads_keepalive THEN "begin" ELSE "loop")
  /\ UNCHANGED <<owner, jobqueue, has_jobs, counts, threads_keepalive, job_p, newjob, hold,
                 added, done>>

\* Faulty variant: the thread does not count itself working.
ThreadBegin_Uncounted(t) ==
  /\ At(t, "begin")
  /\ Goto(t, "pull")
  /\ UNCHANGED <<owner, jobqueue, has_jobs, counts, threads_keepalive, job_p, newjob, hold,
                 added, done>>

\* num_threads_working++
ThreadBegin(t) ==
  /\ At(t, "begin")
  /\ ThcountFree
  /\ num_threads_working' = num_threads_working + 1
  /\ Goto(t, "pull")
  /\ UNCHANGED <<owner, jobqueue, has_jobs, num_threads_alive, threads_keepalive, job_p,
                 newjob, hold, added, done>>

\* Faulty variant: the semaphore is not posted for the jobs left.
JobqueuePull_NoPost(t) ==
  /\ At(t, "pull")
  /\ Free("rwmutex")
  /\ IF jobqueue = << >>
     THEN Goto(t, "end") /\ UNCHANGED <<jobqueue, has_jobs, job_p>>
     ELSE /\ job_p' = [job_p EXCEPT ![t] = Head(jobqueue)]
          /\ jobqueue' = Tail(jobqueue)
          /\ Goto(t, "run")
          /\ has_jobs' = has_jobs
  /\ UNCHANGED <<owner, counts, threads_keepalive, newjob, hold, added, done>>

\* jobqueue_pull: nothing, the only job, or one job and a post for the rest.
JobqueuePull(t) ==
  /\ At(t, "pull")
  /\ Free("rwmutex")
  /\ IF jobqueue = << >>
     THEN Goto(t, "end") /\ UNCHANGED <<jobqueue, has_jobs, job_p>>
     ELSE /\ job_p' = [job_p EXCEPT ![t] = Head(jobqueue)]
          /\ jobqueue' = Tail(jobqueue)
          /\ IF Len(jobqueue) > 1
             THEN Free("bsem") /\ has_jobs' = 1 /\ Signal([pc EXCEPT ![t] = "run"])
             ELSE has_jobs' = has_jobs /\ Goto(t, "run")
  /\ UNCHANGED <<owner, counts, threads_keepalive, newjob, hold, added, done>>

\* func_buff(arg_buff) returns.
ThreadRun(t) ==
  /\ At(t, "run")
  /\ done' = done \cup {job_p[t]}
  /\ job_p' = [job_p EXCEPT ![t] = NoJob]
  /\ Goto(t, "end")
  /\ UNCHANGED <<owner, jobqueue, has_jobs, counts, threads_keepalive, newjob, hold, added>>

\* num_threads_working--, and the last one signals threads_all_idle.
ThreadEnd(t) ==
  /\ At(t, "end")
  /\ ThcountFree
  /\ num_threads_working' = num_threads_working - 1
  /\ owner' = IF owner = "waitSleep" /\ num_threads_working' = 0 THEN "waitTest" ELSE owner
  /\ Goto(t, "loop")
  /\ UNCHANGED <<jobqueue, has_jobs, num_threads_alive, threads_keepalive, job_p, newjob,
                 hold, added, done>>

\* num_threads_alive--
ThreadLeave(t) ==
  /\ At(t, "leave")
  /\ ThcountFree
  /\ num_threads_alive' = num_threads_alive - 1
  /\ Goto(t, "unlock")
  /\ UNCHANGED <<owner, jobqueue, has_jobs, num_threads_working, threads_keepalive, job_p,
                 newjob, hold, added, done>>

\* pthread_mutex_unlock, the thread's last use of the pool.
ThreadUnlock(t) ==
  /\ At(t, "unlock")
  /\ Goto(t, "gone")
  /\ UNCHANGED <<owner, jobqueue, has_jobs, counts, threads_keepalive, job_p, newjob, hold,
                 added, done>>

-----------------------------------------------------------------------------
(* SIGUSR1 *)

\* The mutexes a thread may hold when the signal arrives.  Whether it has
\* already made its change inside the section shows to nobody without the
\* mutex.
MutexesAt(t) ==
  CASE pc[t] \in {"begin", "end", "leave"} -> {{}, {"thcount_lock"}}
    [] pc[t] = "semWait" -> {{}, {"bsem"}}
    [] pc[t] = "pull" -> {{}, {"rwmutex"}}
                         \cup (IF Len(jobqueue) > 1 THEN {{"rwmutex", "bsem"}} ELSE {})
    [] OTHER -> {{}}

\* thread_hold is entered.
ThreadHold(t) ==
  /\ t \in sigusr1 \ held
  /\ pc[t] # "gone"
  /\ sigusr1' = sigusr1 \ {t}
  /\ threads_on_hold' = TRUE
  /\ held' = held \cup {t}
  /\ \E M \in MutexesAt(t) :
       /\ \A m \in M : Free(m) /\ (m = "thcount_lock" => ThcountFree)
       /\ keeps' = [keeps EXCEPT ![t] = M]
  /\ UNCHANGED <<pc, owner, jobqueue, has_jobs, counts, threads_keepalive, job_p, newjob,
                 paused, pauses, added, done>>

\* Faulty variant: the flag is set again on the way out.
ThreadRelease_Again(t) ==
  /\ t \in held
  /\ ~threads_on_hold
  /\ held' = held \ {t}
  /\ keeps' = [keeps EXCEPT ![t] = {}]
  /\ threads_on_hold' = TRUE
  /\ UNCHANGED <<pc, owner, jobqueue, has_jobs, counts, threads_keepalive, job_p, newjob,
                 sigusr1, paused, pauses, added, done>>

\* while (threads_on_hold) sleep(1);
ThreadRelease(t) ==
  /\ t \in held
  /\ ~threads_on_hold
  /\ held' = held \ {t}
  /\ keeps' = [keeps EXCEPT ![t] = {}]
  /\ UNCHANGED <<pc, owner, jobqueue, has_jobs, counts, threads_keepalive, job_p, newjob,
                 sigusr1, threads_on_hold, paused, pauses, added, done>>

-----------------------------------------------------------------------------
(* The owner *)

\* thpool_init creates the threads.  thread_init does not look at the result
\* of pthread_create...
ThpoolInit ==
  /\ owner = "init"
  /\ \E S \in IF CreateMayFail THEN SUBSET Threads ELSE {Threads} :
       pc' = [t \in Threads |-> IF t \in S THEN "born" ELSE "unborn"]
  /\ owner' = "initSpin"
  /\ UNCHANGED <<jobqueue, has_jobs, counts, threads_keepalive, job_p, newjob, hold, added,
                 done>>

\* ... and spins until they are alive.
ThpoolInitDone ==
  /\ owner = "initSpin"
  /\ num_threads_alive = Cardinality(Threads)
  /\ owner' = "open"
  /\ UNCHANGED <<pc, jobqueue, has_jobs, counts, threads_keepalive, job_p, newjob, hold,
                 added, done>>

\* thpool_add_work is called.
ThpoolAddWork(j) ==
  /\ owner = "open"
  /\ j \notin added
  /\ newjob' = j
  /\ owner' = "push"
  /\ UNCHANGED <<pc, jobqueue, has_jobs, counts, threads_keepalive, job_p, hold, added,
                 done>>

\* jobqueue_push, with its bsem_post.
JobqueuePush ==
  /\ owner = "push"
  /\ Free("rwmutex")
  /\ Free("bsem")
  /\ added' = added \cup {newjob}
  /\ jobqueue' = Append(jobqueue, newjob)
  /\ has_jobs' = 1
  /\ Signal(pc)
  /\ newjob' = NoJob
  /\ owner' = "open"
  /\ UNCHANGED <<counts, threads_keepalive, job_p, hold, done>>

\* thpool_pause: the owner returned from thpool_init, so every thread has
\* been alive and gets the signal.
ThpoolPause ==
  /\ owner = "open"
  /\ pauses < MaxPauses
  /\ pauses' = pauses + 1
  /\ paused' = TRUE
  /\ sigusr1' = Threads
  /\ UNCHANGED <<pc, owner, jobqueue, has_jobs, counts, threads_keepalive, job_p, newjob,
                 held, keeps, threads_on_hold, added, done>>

\* thpool_resume
ThpoolResume ==
  /\ owner = "open"
  /\ paused' = FALSE
  /\ threads_on_hold' = FALSE
  /\ UNCHANGED <<pc, owner, jobqueue, has_jobs, counts, threads_keepalive, job_p, newjob,
                 sigusr1, held, keeps, pauses, added, done>>

\* thpool_wait is called.
ThpoolWait ==
  /\ owner = "open"
  /\ owner' = "waitTest"
  /\ UNCHANGED <<pc, jobqueue, has_jobs, counts, threads_keepalive, job_p, newjob, hold,
                 added, done>>

\* Faulty variant: only the length of the queue is tested.
ThpoolWaitTest_QueueOnly ==
  /\ owner = "waitTest"
  /\ ThcountFree
  /\ owner' = IF jobqueue # << >> THEN "waitSleep" ELSE "open"
  /\ UNCHANGED <<pc, jobqueue, has_jobs, counts, threads_keepalive, job_p, newjob, hold,
                 added, done>>

\* while (len || num_threads_working) wait; len is read without rwmutex.
ThpoolWaitTest ==
  /\ owner = "waitTest"
  /\ ThcountFree
  /\ owner' = IF jobqueue # << >> \/ num_threads_working # 0 THEN "waitSleep" ELSE "open"
  /\ UNCHANGED <<pc, jobqueue, has_jobs, counts, threads_keepalive, job_p, newjob, hold,
                 added, done>>

\* thpool_destroy: the threads are told to end...
ThpoolDestroy ==
  /\ owner = "open"
  /\ threads_keepalive' = FALSE
  /\ owner' = "destroy"
  /\ UNCHANGED <<pc, jobqueue, has_jobs, counts, job_p, newjob, hold, added, done>>

\* Faulty variant: no more posts once a first thread has left.
ThpoolDestroyPost_UntilFirst ==
  /\ owner = "destroy"
  /\ num_threads_alive = Cardinality(Threads)
  /\ Free("bsem")
  /\ has_jobs' = 1
  /\ pc' = [t \in Threads |-> IF pc[t] = "asleep" THEN "semWait" ELSE pc[t]]
  /\ UNCHANGED <<owner, jobqueue, counts, threads_keepalive, job_p, newjob, hold, added,
                 done>>

\* ... woken again and again by bsem_post_all while any is alive...
ThpoolDestroyPost ==
  /\ owner = "destroy"
  /\ num_threads_alive # 0
  /\ Free("bsem")
  /\ has_jobs' = 1
  /\ pc' = [t \in Threads |-> IF pc[t] = "asleep" THEN "semWait" ELSE pc[t]]
  /\ UNCHANGED <<owner, jobqueue, counts, threads_keepalive, job_p, newjob, hold, added,
                 done>>

\* Faulty variant: the pool is freed as soon as no thread works.
ThpoolFree_Idle ==
  /\ owner = "destroy"
  /\ num_threads_working = 0
  /\ jobqueue' = << >>
  /\ has_jobs' = 0
  /\ owner' = "freed"
  /\ UNCHANGED <<pc, counts, threads_keepalive, job_p, newjob, hold, added, done>>

\* ... and when none is, jobqueue_destroy drops the queued jobs and the pool
\* is freed.
ThpoolFree ==
  /\ owner = "destroy"
  /\ num_threads_alive = 0
  /\ jobqueue' = << >>
  /\ has_jobs' = 0
  /\ owner' = "freed"
  /\ UNCHANGED <<pc, counts, threads_keepalive, job_p, newjob, hold, added, done>>

-----------------------------------------------------------------------------
ThreadStep(t) ==
  \/ ThreadBorn(t) \/ ThreadLoop(t) \/ BsemWait(t) \/ ThreadCheck(t) \/ ThreadBegin(t)
  \/ JobqueuePull(t) \/ ThreadRun(t) \/ ThreadEnd(t) \/ ThreadLeave(t) \/ ThreadUnlock(t)
  \/ ThreadHold(t) \/ ThreadRelease(t)

\* What the owner does inside a call it has made.
OwnerStep ==
  \/ ThpoolInitDone \/ JobqueuePush \/ ThpoolWaitTest \/ ThpoolDestroyPost \/ ThpoolFree

OwnerCall ==
  \/ ThpoolInit \/ ThpoolWait \/ ThpoolDestroy \/ ThpoolPause \/ ThpoolResume
  \/ \E j \in Jobs : ThpoolAddWork(j)

Next ==
  \/ \E t \in Threads : ThreadStep(t) \/ SpuriousWakeup(t)
  \/ OwnerStep
  \/ OwnerCall

Spec == Init /\ [][Next]_vars

(***************************************************************************)
(* Every thread runs on, jobs return, and the owner goes on with a call it *)
(* has made; it need not make another one.  No wake-up is spurious by      *)
(* obligation.                                                             *)
(***************************************************************************)
FairSpec ==
  /\ Spec
  /\ \A t \in Threads : WF_vars(ThreadStep(t))
  /\ WF_vars(OwnerStep)

-----------------------------------------------------------------------------
\* Type correctness: the counters stay within the number of threads.
TypeOK ==
  /\ pc \in [Threads -> Labels]
  /\ owner \in OwnerLabels
  /\ jobqueue \in Seq(Jobs)
  /\ has_jobs \in {0, 1}
  /\ num_threads_alive \in 0 .. Cardinality(Threads)
  /\ num_threads_working \in 0 .. Cardinality(Threads)
  /\ threads_keepalive \in BOOLEAN
  /\ job_p \in [Threads -> Jobs \cup {NoJob}]
  /\ newjob \in Jobs \cup {NoJob}
  /\ sigusr1 \subseteq Threads
  /\ held \subseteq Threads
  /\ keeps \in [Threads -> SUBSET {"thcount_lock", "rwmutex", "bsem"}]
  /\ threads_on_hold \in BOOLEAN
  /\ paused \in BOOLEAN
  /\ pauses \in 0 .. MaxPauses
  /\ added \subseteq Jobs
  /\ done \subseteq added

(***************************************************************************)
(* A binary semaphore forgets how many jobs were pushed; it must not       *)
(* forget that there are any.  While jobs are queued, some thread is on    *)
(* its way to the queue, or the semaphore is up and some thread will come  *)
(* to test it without being woken.                                         *)
(***************************************************************************)
NoForgottenJob ==
  jobqueue # << >> /\ threads_keepalive =>
    \/ \E t \in Threads : pc[t] \in {"check", "begin", "pull"}
    \/ /\ has_jobs = 1
       /\ \E t \in Threads : pc[t] \in {"born", "loop", "semWait", "run", "end"}

(***************************************************************************)
(* The pool behaves like a WorkPool: FIFO starts, each job at most once,   *)
(* thpool_wait returns only when no job is queued or running although it   *)
(* reads the queue's length without its mutex, and thpool_destroy returns  *)
(* only when no job is running.                                            *)
(***************************************************************************)
Running == {job_p[t] : t \in {u \in Threads : pc[u] = "run"}}

Phase == CASE owner \in {"init", "initSpin", "open", "push", "destroy"} -> "open"
           [] owner \in {"waitTest", "waitSleep"} -> "waiting"
           [] owner = "freed" -> "closed"

WP == INSTANCE WorkPool WITH queued <- jobqueue, running <- Running, finished <- done,
                             phase <- Phase

RefinesWorkPool == WP!Spec

(***************************************************************************)
(* A job that was added is executed, unless the pool is destroyed first,   *)
(* also when the pool is paused in between, wherever its threads are       *)
(* stopped: no wake-up is lost in the signal handler.  It takes a resume   *)
(* that frees all threads.                                                 *)
(***************************************************************************)
NobodyHeldForEver == []<>(held = {})

JobsAreDone ==
  NobodyHeldForEver => \A j \in Jobs : j \in added ~> j \in done \/ ~threads_keepalive

(***************************************************************************)
(* Every call the owner has made returns.  The exceptions: thpool_init     *)
(* ("created threadpool on success, NULL on error") spins for ever when a  *)
(* pthread_create has failed; thpool_add_work ("While the thread is being  *)
(* paused, new work can be added") waits for a thread that was paused with *)
(* one of the two mutexes of the queue in its hands; thpool_wait and       *)
(* thpool_destroy wait for threads that are held.                          *)
(***************************************************************************)
OwnerCallsReturn ==
  /\ owner = "initSpin" ~> owner = "open" \/ \E t \in Threads : pc[t] = "unborn"
  /\ owner = "push" ~> owner = "open" \/ ~Free("rwmutex") \/ ~Free("bsem")
  /\ NobodyHeldForEver => /\ owner = "waitSleep" ~> owner = "open"
                          /\ owner = "destroy" ~> owner = "freed"

(***************************************************************************)
(* "This will wait for the currently active threads to finish and then     *)
(* 'kill' the whole threadpool to free up memory": when the pool is freed  *)
(* no thread has more to do in it than the unlock after its last           *)
(* decrement.  (That unlock may still come, and then in freed memory.)     *)
(***************************************************************************)
FreedWhenUnused == owner = "freed" => \A t \in Threads : pc[t] \in {"unlock", "gone"}

(***************************************************************************)
(* thpool.h: "The threads return to their previous states once             *)
(* thpool_resume is called": a resume frees every thread if all have taken *)
(* the signal before it.  (One that takes it later sets threads_on_hold    *)
(* again and stays.)                                                       *)
(***************************************************************************)
ResumeReleases == ~threads_on_hold /\ sigusr1 = {} ~> held = {} \/ paused
=============================================================================
