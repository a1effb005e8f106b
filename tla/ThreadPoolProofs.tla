-------------------------- MODULE ThreadPoolProofs --------------------------
(***************************************************************************)
(* Proofs about ThreadPool for every set of threads and jobs, any number   *)
(* of pauses, with and without failing pthread_create.                     *)
(***************************************************************************)
EXTENDS ThreadPool, FiniteSetTheorems, TLAPS

Mutexes == {"thcount_lock", "rwmutex", "bsem"}

\* The types without the bounds of the counters, and where a job comes from:
\* queued and running jobs were added.
PoolTypes ==
  /\ pc \in [Threads -> Labels]
  /\ owner \in OwnerLabels
  /\ jobqueue \in Seq(added)
  /\ has_jobs \in {0, 1}
  /\ threads_keepalive \in BOOLEAN
  /\ job_p \in [Threads -> added \cup {NoJob}]
  /\ \A t \in Threads : pc[t] = "run" => job_p[t] # NoJob
  /\ newjob \in Jobs \cup {NoJob}
  /\ owner = "push" => newjob # NoJob
  /\ sigusr1 \subseteq Threads
  /\ held \subseteq Threads
  /\ keeps \in [Threads -> SUBSET Mutexes]
  /\ threads_on_hold \in BOOLEAN
  /\ paused \in BOOLEAN
  /\ pauses \in 0 .. MaxPauses
  /\ added \subseteq Jobs
  /\ done \subseteq added

\* The counters count threads.
Alive == {t \in Threads : pc[t] \notin {"unborn", "born", "unlock", "gone"}}
Working == {t \in Threads : pc[t] \in {"pull", "run", "end"}}

Counters ==
  /\ num_threads_alive = Cardinality(Alive)
  /\ num_threads_working = Cardinality(Working)

\* The life of the pool: thpool_init returns only when every thread has come
\* to life, jobs are there only after that, no thread is on its way out before
\* thpool_destroy, and none comes back after it.
Lifecycle ==
  /\ owner = "init" => \A t \in Threads : pc[t] = "unborn"
  /\ owner \in {"init", "initSpin"} => jobqueue = << >>
  /\ owner \notin {"init", "initSpin"} => \A t \in Threads : pc[t] \notin {"unborn", "born"}
  /\ threads_keepalive => \A t \in Threads : pc[t] \notin {"leave", "unlock", "gone"}

PoolInv == PoolTypes /\ Counters /\ Lifecycle /\ NoForgottenJob

\* A job is in one place: about to be added, queued once, run by one thread, or
\* done.
OnePlace ==
  /\ owner = "push" => newjob \notin added
  /\ \A i, j \in 1 .. Len(jobqueue) : jobqueue[i] = jobqueue[j] => i = j
  /\ \A i \in 1 .. Len(jobqueue) : jobqueue[i] \notin done
  /\ \A t \in Threads : pc[t] = "run" =>
       /\ job_p[t] \notin done
       /\ \A i \in 1 .. Len(jobqueue) : jobqueue[i] # job_p[t]
       /\ \A u \in Threads : pc[u] = "run" /\ job_p[u] = job_p[t] => u = t

-----------------------------------------------------------------------------
(* Facts about sets and sequences *)

LEMMA SeqWiden == ASSUME NEW S, NEW T, S \subseteq T, NEW s \in Seq(S) PROVE s \in Seq(T)
  OBVIOUS

LEMMA AliveFinite == IsFiniteSet(Alive) /\ IsFiniteSet(Working)
  BY PoolAssumption, FS_Subset DEF Alive, Working

LEMMA CardBound ==
  ASSUME NEW S, S \subseteq Threads
  PROVE  Cardinality(S) \in 0 .. Cardinality(Threads)
  BY PoolAssumption, FS_Subset, FS_CardinalityType

LEMMA CardFull ==
  ASSUME NEW S, S \subseteq Threads, Cardinality(S) = Cardinality(Threads)
  PROVE  S = Threads
  BY PoolAssumption, FS_Subset, FS_CardinalityType

\* Signal wakes a sleeper if there is one and moves nobody else.
LEMMA SignalSpec ==
  ASSUME NEW at \in [Threads -> Labels], Signal(at)
  PROVE  /\ pc' \in [Threads -> Labels]
         /\ \A t \in Threads : pc'[t] # at[t] => at[t] = "asleep" /\ pc'[t] = "semWait"
         /\ \/ \A t \in Threads : at[t] # "asleep" /\ pc'[t] = at[t]
            \/ \E t \in Threads : pc'[t] = "semWait"
<1> DEFINE sleepers == {t \in Threads : at[t] = "asleep"}
<1>1. CASE sleepers = {}
  BY <1>1 DEF Signal
<1>2. CASE sleepers # {}
  <2>1. PICK t \in sleepers : pc' = [at EXCEPT ![t] = "semWait"]
    BY <1>2 DEF Signal
  <2> QED  BY <2>1 DEF Labels
<1> QED  BY <1>1, <1>2

\* jobqueue_pull moves the thread on and may wake one sleeper.
LEMMA PullMoves ==
  ASSUME pc \in [Threads -> Labels], NEW t \in Threads, JobqueuePull(t)
  PROVE  /\ pc[t] = "pull" /\ pc'[t] \in {"run", "end"}
         /\ \A u \in Threads \ {t} :
              pc'[u] = pc[u] \/ (pc[u] = "asleep" /\ pc'[u] = "semWait")
<1> DEFINE at == [pc EXCEPT ![t] = "run"]
<1>1. at \in [Threads -> Labels] /\ at[t] = "run" /\ \A u \in Threads \ {t} : at[u] = pc[u]
  BY DEF Labels
<1>2. /\ pc[t] = "pull"
      /\ \/ pc' = [pc EXCEPT ![t] = "end"]
         \/ pc' = at
         \/ Signal(at)
  BY DEF JobqueuePull, Goto, At
<1> HIDE DEF at
<1>3. CASE Signal(at)
  <2>1. \A u \in Threads : pc'[u] # at[u] => at[u] = "asleep" /\ pc'[u] = "semWait"
    BY <1>1, <1>3, SignalSpec
  <2>2. pc'[t] = "run"
    BY <1>1, <2>1
  <2>3. \A u \in Threads \ {t} : pc'[u] = pc[u] \/ (pc[u] = "asleep" /\ pc'[u] = "semWait")
    BY <1>1, <2>1
  <2> QED  BY <1>2, <2>2, <2>3
<1>4. CASE pc' = [pc EXCEPT ![t] = "end"] \/ pc' = at
  BY <1>1, <1>2, <1>4
<1> QED  BY <1>2, <1>3, <1>4

-----------------------------------------------------------------------------
LEMMA PoolInit == Init => PoolInv
<1> SUFFICES ASSUME Init PROVE PoolInv
  OBVIOUS
<1>1. PoolTypes
  <2>1. jobqueue \in Seq(added) /\ pauses \in 0 .. MaxPauses
    BY PoolAssumption DEF Init
  <2>2. /\ threads_keepalive \in BOOLEAN /\ threads_on_hold \in BOOLEAN
        /\ paused \in BOOLEAN
    BY DEF Init
  <2> QED  BY <2>1, <2>2 DEF Init, PoolTypes, Labels, OwnerLabels, Mutexes
<1>2. Counters
  <2>1. Alive = {} /\ Working = {}
    BY DEF Init, Alive, Working
  <2> QED  BY <2>1, FS_EmptySet DEF Init, Counters
<1> QED  BY <1>1, <1>2 DEF Init, PoolInv, Lifecycle, NoForgottenJob

LEMMA PoolTypesNext == PoolTypes /\ [Next]_vars => PoolTypes'
<1> SUFFICES ASSUME PoolTypes, [Next]_vars PROVE PoolTypes'
  OBVIOUS
<1> USE DEF PoolTypes, Labels, OwnerLabels, hold, counts
<1>1. ASSUME NEW t \in Threads, ThreadBorn(t) PROVE PoolTypes'
  BY <1>1 DEF ThreadBorn, Goto
<1>2. ASSUME NEW t \in Threads, ThreadLoop(t) PROVE PoolTypes'
  BY <1>2 DEF ThreadLoop, Goto
<1>3. ASSUME NEW t \in Threads, BsemWait(t) PROVE PoolTypes'
  BY <1>3 DEF BsemWait, Goto
<1>4. ASSUME NEW t \in Threads, SpuriousWakeup(t) PROVE PoolTypes'
  BY <1>4 DEF SpuriousWakeup, Goto
<1>5. ASSUME NEW t \in Threads, ThreadCheck(t) PROVE PoolTypes'
  BY <1>5 DEF ThreadCheck, Goto
<1>6. ASSUME NEW t \in Threads, ThreadBegin(t) PROVE PoolTypes'
  BY <1>6 DEF ThreadBegin, Goto
<1>7. ASSUME NEW t \in Threads, JobqueuePull(t) PROVE PoolTypes'
  <2>1. CASE jobqueue = << >>
    BY <1>7, <2>1 DEF JobqueuePull, Goto
  <2>2. CASE jobqueue # << >>
    <3> DEFINE at == [pc EXCEPT ![t] = "run"]
    <3>1. at \in [Threads -> Labels]
      OBVIOUS
    <3>2. /\ pc' \in [Threads -> Labels]
          /\ \A u \in Threads : pc'[u] # at[u] => at[u] = "asleep" /\ pc'[u] = "semWait"
      BY <1>7, <2>2, <3>1, SignalSpec DEF JobqueuePull, Goto
    <3>3. /\ Head(jobqueue) \in added /\ Tail(jobqueue) \in Seq(added)
      BY <2>2
    <3>4. /\ job_p' = [job_p EXCEPT ![t] = Head(jobqueue)] /\ jobqueue' = Tail(jobqueue)
          /\ has_jobs' \in {0, 1}
          /\ UNCHANGED <<owner, counts, threads_keepalive, newjob, hold, added, done>>
      BY <1>7, <2>2 DEF JobqueuePull
    <3>5. /\ job_p' \in [Threads -> added' \cup {NoJob}]
          /\ \A u \in Threads : pc'[u] = "run" => job_p'[u] # NoJob
      BY <3>2, <3>3, <3>4, PoolAssumption
    <3> QED  BY <3>2, <3>3, <3>4, <3>5
  <2> QED  BY <2>1, <2>2
<1>8. ASSUME NEW t \in Threads, ThreadRun(t) PROVE PoolTypes'
  BY <1>8 DEF ThreadRun, Goto, At
<1>9. ASSUME NEW t \in Threads, ThreadEnd(t) PROVE PoolTypes'
  BY <1>9 DEF ThreadEnd, Goto
<1>10. ASSUME NEW t \in Threads, ThreadLeave(t) PROVE PoolTypes'
  BY <1>10 DEF ThreadLeave, Goto
<1>11. ASSUME NEW t \in Threads, ThreadUnlock(t) PROVE PoolTypes'
  BY <1>11 DEF ThreadUnlock, Goto
<1>12. ASSUME NEW t \in Threads, ThreadHold(t) PROVE PoolTypes'
  <2>1. \A M \in MutexesAt(t) : M \in SUBSET Mutexes
    BY DEF MutexesAt, Mutexes
  <2> QED  BY <1>12, <2>1 DEF ThreadHold
<1>13. ASSUME NEW t \in Threads, ThreadRelease(t) PROVE PoolTypes'
  BY <1>13 DEF ThreadRelease
<1>14. CASE ThpoolInit
  BY <1>14 DEF ThpoolInit
<1>15. CASE ThpoolInitDone
  BY <1>15 DEF ThpoolInitDone
<1>16. ASSUME NEW j \in Jobs, ThpoolAddWork(j) PROVE PoolTypes'
  BY <1>16, PoolAssumption DEF ThpoolAddWork
<1>17. CASE JobqueuePush
  <2>1. /\ owner = "push" /\ owner' = "open" /\ has_jobs' = 1 /\ newjob' = NoJob
        /\ Signal(pc) /\ added' = added \cup {newjob} /\ jobqueue' = Append(jobqueue, newjob)
        /\ UNCHANGED <<counts, threads_keepalive, job_p, hold, done>>
    BY <1>17 DEF JobqueuePush
  <2>2. /\ pc' \in [Threads -> Labels]
        /\ \A u \in Threads : pc'[u] # pc[u] => pc[u] = "asleep" /\ pc'[u] = "semWait"
    BY <2>1, SignalSpec
  <2>3. jobqueue \in Seq(added') /\ newjob \in added'
    BY <2>1, SeqWiden
  <2>4. jobqueue' \in Seq(added')
    BY <2>1, <2>3
  <2>5. added' \subseteq Jobs /\ done' \subseteq added'
    BY <2>1
  <2>6. /\ job_p' \in [Threads -> added' \cup {NoJob}]
        /\ \A u \in Threads : pc'[u] = "run" => job_p'[u] # NoJob
    BY <2>1, <2>2
  <2> QED  BY <2>1, <2>2, <2>4, <2>5, <2>6
<1>18. CASE ThpoolPause
  BY <1>18, PoolAssumption DEF ThpoolPause
<1>19. CASE ThpoolResume
  BY <1>19 DEF ThpoolResume
<1>20. CASE ThpoolWait
  BY <1>20 DEF ThpoolWait
<1>21. CASE ThpoolWaitTest
  BY <1>21 DEF ThpoolWaitTest
<1>22. CASE ThpoolDestroy
  BY <1>22 DEF ThpoolDestroy
<1>23. CASE ThpoolDestroyPost
  BY <1>23 DEF ThpoolDestroyPost
<1>24. CASE ThpoolFree
  BY <1>24 DEF ThpoolFree
<1>25. CASE UNCHANGED vars
  BY <1>25 DEF vars
<1> QED
  BY <1>1, <1>2, <1>3, <1>4, <1>5, <1>6, <1>7, <1>8, <1>9, <1>10, <1>11, <1>12, <1>13,
     <1>14, <1>15, <1>16, <1>17, <1>18, <1>19, <1>20, <1>21, <1>22, <1>23, <1>24, <1>25
     DEF Next, ThreadStep, OwnerStep, OwnerCall

-----------------------------------------------------------------------------
\* A step that moves no thread into or out of Alive and Working, and leaves the
\* counters alone, keeps them right.
LEMMA CountersKept ==
  ASSUME Counters, UNCHANGED counts, Alive' = Alive, Working' = Working
  PROVE  Counters'
  BY DEF Counters, counts

LEMMA CountersNext == PoolTypes /\ Counters /\ Lifecycle /\ [Next]_vars => Counters'
<1> SUFFICES ASSUME PoolTypes, Counters, Lifecycle, [Next]_vars PROVE Counters'
  OBVIOUS
<1>0. /\ pc \in [Threads -> Labels]
      /\ IsFiniteSet(Alive) /\ IsFiniteSet(Working)
      /\ Cardinality(Alive) \in Nat /\ Cardinality(Working) \in Nat
  BY AliveFinite, FS_CardinalityType DEF PoolTypes
<1> USE DEF counts
<1>1. ASSUME NEW t \in Threads, ThreadBorn(t) PROVE Counters'
  <2>1. t \notin Alive /\ Alive' = Alive \cup {t} /\ Working' = Working
    BY <1>0, <1>1 DEF ThreadBorn, Goto, At, Alive, Working
  <2>2. Cardinality(Alive') = Cardinality(Alive) + 1
    BY <1>0, <2>1, FS_AddElement
  <2> QED  BY <1>0, <1>1, <2>1, <2>2 DEF ThreadBorn, Counters
<1>2. ASSUME NEW t \in Threads,
             \/ ThreadLoop(t) \/ BsemWait(t) \/ SpuriousWakeup(t) \/ ThreadCheck(t)
             \/ ThreadRun(t) \/ ThreadUnlock(t)
      PROVE Counters'
  <2>1. Alive' = Alive /\ Working' = Working /\ UNCHANGED counts
    BY <1>0, <1>2 DEF ThreadLoop, BsemWait, SpuriousWakeup, ThreadCheck, ThreadRun,
       ThreadUnlock, Goto, At, Alive, Working
  <2> QED  BY <2>1, CountersKept
<1>3. ASSUME NEW t \in Threads, ThreadBegin(t) PROVE Counters'
  <2>1. t \notin Working /\ Working' = Working \cup {t} /\ Alive' = Alive
    BY <1>0, <1>3 DEF ThreadBegin, Goto, At, Alive, Working
  <2>2. Cardinality(Working') = Cardinality(Working) + 1
    BY <1>0, <2>1, FS_AddElement
  <2> QED  BY <1>0, <1>3, <2>1, <2>2 DEF ThreadBegin, Counters
<1>4. ASSUME NEW t \in Threads, JobqueuePull(t) PROVE Counters'
  <2>1. Alive' = Alive /\ Working' = Working
    BY <1>0, <1>4, PullMoves DEF Alive, Working
  <2> QED  BY <1>4, <2>1, CountersKept DEF JobqueuePull
<1>5. ASSUME NEW t \in Threads, ThreadEnd(t) PROVE Counters'
  <2>1. t \in Working /\ Working' = Working \ {t} /\ Alive' = Alive
    BY <1>0, <1>5 DEF ThreadEnd, Goto, At, Alive, Working
  <2>2. Cardinality(Working') = Cardinality(Working) - 1
    BY <1>0, <2>1, FS_RemoveElement
  <2> QED  BY <1>0, <1>5, <2>1, <2>2 DEF ThreadEnd, Counters
<1>6. ASSUME NEW t \in Threads, ThreadLeave(t) PROVE Counters'
  <2>1. t \in Alive /\ Alive' = Alive \ {t} /\ Working' = Working
    BY <1>0, <1>6 DEF ThreadLeave, Goto, At, Alive, Working
  <2>2. Cardinality(Alive') = Cardinality(Alive) - 1
    BY <1>0, <2>1, FS_RemoveElement
  <2> QED  BY <1>0, <1>6, <2>1, <2>2 DEF ThreadLeave, Counters
<1>7. ASSUME NEW t \in Threads, ThreadHold(t) \/ ThreadRelease(t) PROVE Counters'
  BY <1>7 DEF ThreadHold, ThreadRelease, Counters, Alive, Working
<1>8. CASE ThpoolInit
  <2>1. \A t \in Threads : pc'[t] \in {"born", "unborn"} /\ pc[t] = "unborn"
    BY <1>8 DEF ThpoolInit, Lifecycle
  <2>2. Alive' = Alive /\ Working' = Working
    BY <2>1 DEF Alive, Working
  <2> QED  BY <1>8, <2>2, CountersKept DEF ThpoolInit
<1>9. CASE ThpoolInitDone \/ ThpoolWait \/ ThpoolWaitTest \/ ThpoolDestroy \/ ThpoolFree
           \/ ThpoolPause \/ ThpoolResume
  BY <1>9 DEF ThpoolInitDone, ThpoolWait, ThpoolWaitTest, ThpoolDestroy, ThpoolFree,
     ThpoolPause, ThpoolResume, Counters, Alive, Working
<1>10. ASSUME NEW j \in Jobs, ThpoolAddWork(j) PROVE Counters'
  BY <1>10 DEF ThpoolAddWork, Counters, Alive, Working
<1>11. CASE JobqueuePush
  <2>1. \A u \in Threads : pc'[u] # pc[u] => pc[u] = "asleep" /\ pc'[u] = "semWait"
    BY <1>0, <1>11, SignalSpec DEF JobqueuePush
  <2>2. Alive' = Alive /\ Working' = Working
    BY <2>1 DEF Alive, Working
  <2> QED  BY <1>11, <2>2, CountersKept DEF JobqueuePush
<1>12. CASE ThpoolDestroyPost
  <2>1. Alive' = Alive /\ Working' = Working
    BY <1>12 DEF ThpoolDestroyPost, Alive, Working
  <2> QED  BY <1>12, <2>1, CountersKept DEF ThpoolDestroyPost
<1>13. CASE UNCHANGED vars
  BY <1>13 DEF vars, Counters, Alive, Working
<1> QED
  BY <1>1, <1>2, <1>3, <1>4, <1>5, <1>6, <1>7, <1>8, <1>9, <1>10, <1>11, <1>12, <1>13
     DEF Next, ThreadStep, OwnerStep, OwnerCall

-----------------------------------------------------------------------------
LEMMA LifecycleNext == PoolTypes /\ Counters /\ Lifecycle /\ [Next]_vars => Lifecycle'
<1> SUFFICES ASSUME PoolTypes, Counters, Lifecycle, [Next]_vars PROVE Lifecycle'
  OBVIOUS
<1>0. pc \in [Threads -> Labels]
  BY DEF PoolTypes
<1> USE DEF Lifecycle
<1>1. ASSUME NEW t \in Threads,
             \/ ThreadBorn(t) \/ ThreadLoop(t) \/ BsemWait(t) \/ SpuriousWakeup(t)
             \/ ThreadCheck(t) \/ ThreadBegin(t) \/ ThreadRun(t)
             \/ ThreadLeave(t) \/ ThreadUnlock(t)
      PROVE Lifecycle'
  BY <1>0, <1>1 DEF ThreadBorn, ThreadLoop, BsemWait, SpuriousWakeup, ThreadCheck,
     ThreadBegin, ThreadRun, ThreadLeave, ThreadUnlock, Goto, At
<1>2. ASSUME NEW t \in Threads, ThreadEnd(t) PROVE Lifecycle'
  BY <1>0, <1>2 DEF ThreadEnd, Goto, At
<1>3. ASSUME NEW t \in Threads, JobqueuePull(t) PROVE Lifecycle'
  <2>1. /\ UNCHANGED <<owner, threads_keepalive>>
        /\ jobqueue = << >> => jobqueue' = << >>
    BY <1>3 DEF JobqueuePull
  <2>2. /\ pc[t] = "pull"
        /\ \A u \in Threads : pc'[u] = pc[u] \/ pc'[u] \in {"run", "end", "semWait"}
    BY <1>0, <1>3, PullMoves
  <2> QED  BY <2>1, <2>2
<1>4. ASSUME NEW t \in Threads, ThreadHold(t) \/ ThreadRelease(t) PROVE Lifecycle'
  BY <1>4 DEF ThreadHold, ThreadRelease
<1>5. CASE ThpoolInit
  BY <1>5 DEF ThpoolInit
<1>6. CASE ThpoolInitDone
  <2>1. Alive = Threads
    BY <1>6, CardFull DEF ThpoolInitDone, Counters, Alive
  <2>2. \A t \in Threads : pc[t] \notin {"unborn", "born"}
    BY <2>1 DEF Alive
  <2> QED  BY <1>6, <2>2 DEF ThpoolInitDone
<1>7. CASE ThpoolWait \/ ThpoolWaitTest \/ ThpoolDestroy \/ ThpoolFree \/ ThpoolPause
           \/ ThpoolResume
  BY <1>7 DEF ThpoolWait, ThpoolWaitTest, ThpoolDestroy, ThpoolFree, ThpoolPause,
     ThpoolResume
<1>8. ASSUME NEW j \in Jobs, ThpoolAddWork(j) PROVE Lifecycle'
  BY <1>8 DEF ThpoolAddWork
<1>9. CASE JobqueuePush
  <2>1. \A u \in Threads : pc'[u] # pc[u] => pc[u] = "asleep" /\ pc'[u] = "semWait"
    BY <1>0, <1>9, SignalSpec DEF JobqueuePush
  <2> QED  BY <1>9, <2>1 DEF JobqueuePush
<1>10. CASE ThpoolDestroyPost
  BY <1>10 DEF ThpoolDestroyPost
<1>11. CASE UNCHANGED vars
  BY <1>11 DEF vars
<1> QED
  BY <1>1, <1>2, <1>3, <1>4, <1>5, <1>6, <1>7, <1>8, <1>9, <1>10, <1>11
     DEF Next, ThreadStep, OwnerStep, OwnerCall

-----------------------------------------------------------------------------
LEMMA WakeNext == PoolInv /\ [Next]_vars => NoForgottenJob'
<1> SUFFICES ASSUME PoolInv, [Next]_vars PROVE NoForgottenJob'
  OBVIOUS
<1>0. /\ pc \in [Threads -> Labels] /\ jobqueue \in Seq(added) /\ has_jobs \in {0, 1}
      /\ Lifecycle /\ NoForgottenJob
  BY DEF PoolInv, PoolTypes
<1> USE DEF NoForgottenJob
<1>1. ASSUME NEW t \in Threads,
             \/ ThreadBorn(t) \/ ThreadLoop(t) \/ SpuriousWakeup(t) \/ ThreadCheck(t)
             \/ ThreadBegin(t) \/ ThreadRun(t) \/ ThreadLeave(t) \/ ThreadUnlock(t)
      PROVE NoForgottenJob'
  BY <1>0, <1>1 DEF ThreadBorn, ThreadLoop, SpuriousWakeup, ThreadCheck, ThreadBegin,
     ThreadRun, ThreadLeave, ThreadUnlock, Goto, At
<1>2. ASSUME NEW t \in Threads, BsemWait(t) PROVE NoForgottenJob'
  BY <1>0, <1>2 DEF BsemWait, Goto, At
<1>3. ASSUME NEW t \in Threads, ThreadEnd(t) PROVE NoForgottenJob'
  BY <1>0, <1>3 DEF ThreadEnd, Goto, At
<1>4. ASSUME NEW t \in Threads, JobqueuePull(t) PROVE NoForgottenJob'
  <2>1. CASE jobqueue = << >>
    BY <1>4, <2>1 DEF JobqueuePull
  <2>2. CASE jobqueue # << >> /\ Len(jobqueue) > 1
    <3> DEFINE at == [pc EXCEPT ![t] = "run"]
    <3>1. at \in [Threads -> Labels]
      BY <1>0 DEF Labels
    <3>2. has_jobs' = 1 /\ Signal(at)
      BY <1>4, <2>2 DEF JobqueuePull
    <3>3. pc'[t] = "run"
      BY <1>0, <3>1, <3>2, SignalSpec
    <3> QED  BY <3>2, <3>3
  <2>3. CASE jobqueue # << >> /\ ~(Len(jobqueue) > 1)
    <3>1. Tail(jobqueue) = << >>
      BY <1>0, <2>3
    <3> QED  BY <1>4, <2>3, <3>1 DEF JobqueuePull
  <2> QED  BY <2>1, <2>2, <2>3
<1>5. ASSUME NEW t \in Threads, ThreadHold(t) \/ ThreadRelease(t) PROVE NoForgottenJob'
  BY <1>0, <1>5 DEF ThreadHold, ThreadRelease
<1>6. CASE ThpoolInit
  BY <1>0, <1>6 DEF ThpoolInit, Lifecycle
<1>7. CASE ThpoolInitDone \/ ThpoolWait \/ ThpoolWaitTest \/ ThpoolDestroy \/ ThpoolFree
           \/ ThpoolPause \/ ThpoolResume
  BY <1>0, <1>7 DEF ThpoolInitDone, ThpoolWait, ThpoolWaitTest, ThpoolDestroy, ThpoolFree,
     ThpoolPause, ThpoolResume
<1>8. ASSUME NEW j \in Jobs, ThpoolAddWork(j) PROVE NoForgottenJob'
  BY <1>0, <1>8 DEF ThpoolAddWork
<1>9. CASE JobqueuePush
  <2>1. owner = "push" /\ has_jobs' = 1 /\ Signal(pc) /\ UNCHANGED threads_keepalive
    BY <1>9 DEF JobqueuePush
  <2>2. /\ \A u \in Threads : pc'[u] # pc[u] => pc[u] = "asleep" /\ pc'[u] = "semWait"
        /\ \/ \A u \in Threads : pc[u] # "asleep" /\ pc'[u] = pc[u]
           \/ \E u \in Threads : pc'[u] = "semWait"
    BY <1>0, <2>1, SignalSpec
  <2>3. threads_keepalive => \E u \in Threads :
          pc'[u] \in {"born", "loop", "semWait", "run", "end", "check", "begin", "pull"}
    BY <1>0, <2>1, <2>2, PoolAssumption DEF Lifecycle, Labels
  <2> QED  BY <2>1, <2>3
<1>10. CASE ThpoolDestroyPost
  BY <1>0, <1>10 DEF ThpoolDestroyPost
<1>11. CASE UNCHANGED vars
  BY <1>0, <1>11 DEF vars
<1> QED
  BY <1>1, <1>2, <1>3, <1>4, <1>5, <1>6, <1>7, <1>8, <1>9, <1>10, <1>11
     DEF Next, ThreadStep, OwnerStep, OwnerCall

LEMMA PoolNext == PoolInv /\ [Next]_vars => PoolInv'
  BY PoolTypesNext, CountersNext, LifecycleNext, WakeNext DEF PoolInv

-----------------------------------------------------------------------------
(***************************************************************************)
(* The counters of thpool.c count: num_threads_alive and                   *)
(* num_threads_working, incremented and decremented in separate sections,  *)
(* stay between 0 and the number of threads, and every job that is queued, *)
(* running or done was added.                                              *)
(***************************************************************************)
THEOREM PoolTypeCorrect == Spec => []TypeOK
<1>1. PoolInv => TypeOK
  <2> SUFFICES ASSUME PoolInv PROVE TypeOK
    OBVIOUS
  <2>1. /\ num_threads_alive \in 0 .. Cardinality(Threads)
        /\ num_threads_working \in 0 .. Cardinality(Threads)
    BY CardBound DEF PoolInv, Counters, Alive, Working
  <2>2. jobqueue \in Seq(Jobs)
    BY SeqWiden DEF PoolInv, PoolTypes
  <2> QED  BY <2>1, <2>2 DEF PoolInv, PoolTypes, TypeOK, Mutexes
<1> QED  BY PoolInit, PoolNext, <1>1, PTL DEF Spec

(***************************************************************************)
(* The binary semaphore of thpool.c never forgets a job, for any number of *)
(* threads and jobs: bsem_post on every push and on every pull that leaves *)
(* jobs behind is enough, also when threads are stopped by thpool_pause    *)
(* anywhere in between.                                                    *)
(***************************************************************************)
THEOREM JobsNeverForgotten == Spec => []NoForgottenJob
<1>1. PoolInv => NoForgottenJob
  BY DEF PoolInv
<1> QED  BY PoolInit, PoolNext, <1>1, PTL DEF Spec

LEMMA PoolInvariant == Spec => []PoolInv
BY PoolInit, PoolNext, PTL DEF Spec

-----------------------------------------------------------------------------
(* The end of the pool *)

\* Once no thread counts itself alive, each is past its last decrement.
LEMMA AllDead ==
  ASSUME PoolInv, num_threads_alive = 0, owner \notin {"init", "initSpin"}
  PROVE  \A t \in Threads : pc[t] \in {"unlock", "gone"}
<1>1. Alive = {}
  BY AliveFinite, FS_EmptySet DEF PoolInv, Counters
<1> QED
  BY <1>1 DEF PoolInv, Lifecycle, Alive

LEMMA FreedNext == PoolInv /\ FreedWhenUnused /\ [Next]_vars => FreedWhenUnused'
<1> SUFFICES ASSUME PoolInv, FreedWhenUnused, [Next]_vars, owner' = "freed"
             PROVE  \A t \in Threads : pc'[t] \in {"unlock", "gone"}
  BY DEF FreedWhenUnused
<1> USE DEF PoolInv, PoolTypes
<1>1. CASE ThpoolFree
  BY <1>1, AllDead DEF ThpoolFree
<1>2. CASE owner = "freed"
  <2>1. \A t \in Threads : pc[t] \in {"unlock", "gone"}
    BY <1>2 DEF FreedWhenUnused
  <2>2. ASSUME NEW t \in Threads, ThreadStep(t) \/ SpuriousWakeup(t)
        PROVE  ThreadUnlock(t) \/ ThreadHold(t) \/ ThreadRelease(t)
    BY <2>1, <2>2 DEF ThreadStep, SpuriousWakeup, ThreadBorn, ThreadLoop, BsemWait, ThreadCheck,
         ThreadBegin, JobqueuePull, ThreadRun, ThreadEnd, ThreadLeave, At
  <2>3. ASSUME NEW t \in Threads, ThreadUnlock(t) \/ ThreadHold(t) \/ ThreadRelease(t)
        PROVE  \A u \in Threads : pc'[u] \in {"unlock", "gone"}
    BY <2>1, <2>3 DEF ThreadUnlock, ThreadHold, ThreadRelease, Goto
  <2>4. ~OwnerStep /\ ~OwnerCall
    BY <1>2 DEF OwnerStep, OwnerCall, ThpoolInitDone, JobqueuePush, ThpoolWaitTest,
         ThpoolDestroyPost, ThpoolFree, ThpoolInit, ThpoolWait, ThpoolDestroy, ThpoolPause,
         ThpoolResume, ThpoolAddWork
  <2>5. CASE UNCHANGED vars
    BY <2>1, <2>5 DEF vars
  <2> QED
    BY <2>2, <2>3, <2>4, <2>5 DEF Next
<1>3. CASE owner # "freed" /\ ~ThpoolFree
  <2>1. ASSUME NEW t \in Threads, ThreadStep(t) \/ SpuriousWakeup(t) PROVE owner' # "freed"
    BY <1>3, <2>1 DEF ThreadStep, SpuriousWakeup, ThreadBorn, ThreadLoop, BsemWait, ThreadCheck,
         ThreadBegin, JobqueuePull, ThreadRun, ThreadEnd, ThreadLeave, ThreadUnlock, ThreadHold,
         ThreadRelease
  <2>2. OwnerStep \/ OwnerCall => owner' # "freed"
    BY <1>3 DEF OwnerStep, OwnerCall, ThpoolInitDone, JobqueuePush, ThpoolWaitTest,
         ThpoolDestroyPost, ThpoolInit, ThpoolWait, ThpoolDestroy, ThpoolPause, ThpoolResume,
         ThpoolAddWork
  <2> QED
    BY <1>3, <2>1, <2>2 DEF Next, vars
<1> QED
  BY <1>1, <1>2, <1>3

(***************************************************************************)
(* thpool_destroy, which reads num_threads_alive without its lock, frees   *)
(* the pool only when each of its threads, any number of them, has nothing *)
(* left to do in it but the unlock after its last decrement, wherever      *)
(* thpool_pause has stopped threads on the way.                            *)
(***************************************************************************)
THEOREM FreedAfterUse == Spec => []FreedWhenUnused
<1>1. Init => FreedWhenUnused
  BY DEF Init, FreedWhenUnused
<1> QED  BY <1>1, PoolInvariant, FreedNext, PTL DEF Spec

-----------------------------------------------------------------------------
(* The pool implements WorkPool *)

\* Threads and owner do not touch jobs.
LEMMA OnePlaceKept ==
  ASSUME OnePlace, UNCHANGED <<jobqueue, job_p, newjob, added, done>>,
         owner' = "push" => owner = "push",
         \A t \in Threads : pc'[t] = "run" => pc[t] = "run"
  PROVE  OnePlace'
BY DEF OnePlace

LEMMA OnePlaceNext == PoolInv /\ OnePlace /\ [Next]_vars => OnePlace'
<1> SUFFICES ASSUME PoolInv, OnePlace, [Next]_vars PROVE OnePlace'
  OBVIOUS
<1>0. /\ pc \in [Threads -> Labels] /\ jobqueue \in Seq(added) /\ done \subseteq added
      /\ job_p \in [Threads -> added \cup {NoJob}] /\ added \subseteq Jobs
      /\ \A t \in Threads : pc[t] = "run" => job_p[t] \in added
      /\ \A i \in 1 .. Len(jobqueue) : jobqueue[i] \in added
  BY DEF PoolInv, PoolTypes
<1>1. ASSUME NEW t \in Threads, JobqueuePull(t) PROVE OnePlace'
  <2>1. /\ pc[t] = "pull" /\ pc'[t] \in {"run", "end"}
        /\ \A u \in Threads \ {t} : pc'[u] = "run" <=> pc[u] = "run"
        /\ UNCHANGED <<owner, newjob, added, done>>
    BY <1>0, <1>1, PullMoves DEF JobqueuePull
  <2>2. CASE jobqueue = << >>
    <3>1. UNCHANGED <<jobqueue, job_p>> /\ pc'[t] = "end"
      BY <1>0, <1>1, <2>2 DEF JobqueuePull, Goto
    <3> QED
      BY <2>1, <3>1, OnePlaceKept
  <2>3. CASE jobqueue # << >>
    <3>1. /\ jobqueue' = Tail(jobqueue) /\ job_p'[t] = Head(jobqueue)
          /\ \A u \in Threads : u # t => job_p'[u] = job_p[u]
      BY <1>0, <1>1, <2>3 DEF JobqueuePull
    <3>2. /\ 1 \in 1 .. Len(jobqueue) /\ Head(jobqueue) = jobqueue[1]
          /\ \A i \in 1 .. Len(jobqueue') :
               i + 1 \in 1 .. Len(jobqueue) /\ jobqueue'[i] = jobqueue[i + 1]
      BY <1>0, <2>3, <3>1
    <3>3. /\ \A i, j \in 1 .. Len(jobqueue') : jobqueue'[i] = jobqueue'[j] => i = j
          /\ \A i \in 1 .. Len(jobqueue') : jobqueue'[i] \notin done'
      BY <2>1, <3>2 DEF OnePlace
    <3>4. ASSUME NEW u \in Threads, pc'[u] = "run"
          PROVE  /\ job_p'[u] \notin done'
                 /\ \A i \in 1 .. Len(jobqueue') : jobqueue'[i] # job_p'[u]
                 /\ \A v \in Threads : pc'[v] = "run" /\ job_p'[v] = job_p'[u] => v = u
      <4>1. CASE u = t
        BY <2>1, <3>1, <3>2, <4>1 DEF OnePlace
      <4>2. CASE u # t
        BY <2>1, <3>1, <3>2, <3>4, <4>2 DEF OnePlace
      <4> QED
        BY <4>1, <4>2
    <3> QED
      BY <2>1, <3>3, <3>4 DEF OnePlace
  <2> QED
    BY <2>2, <2>3
<1>2. ASSUME NEW t \in Threads, ThreadRun(t) PROVE OnePlace'
  <2>1. /\ pc[t] = "run" /\ pc'[t] = "end" /\ done' = done \cup {job_p[t]}
        /\ UNCHANGED <<owner, jobqueue, newjob, added>>
        /\ \A u \in Threads : u # t => pc'[u] = pc[u] /\ job_p'[u] = job_p[u]
    BY <1>0, <1>2 DEF ThreadRun, Goto, At
  <2> QED
    BY <2>1 DEF OnePlace
<1>3. CASE JobqueuePush
  <2>1. /\ owner = "push" /\ owner' = "open" /\ Signal(pc)
        /\ jobqueue' = Append(jobqueue, newjob)
        /\ UNCHANGED <<job_p, done>>
    BY <1>3 DEF JobqueuePush
  <2>2. \A t \in Threads : pc'[t] = "run" => pc[t] = "run"
    BY <1>0, <2>1, SignalSpec
  <2>3. \A i \in 1 .. Len(jobqueue') : \/ i \in 1 .. Len(jobqueue) /\ jobqueue'[i] = jobqueue[i]
                                       \/ i = Len(jobqueue) + 1 /\ jobqueue'[i] = newjob
    BY <1>0, <2>1
  <2>4. newjob \notin added
    BY <2>1 DEF OnePlace
  <2>5. /\ \A i, j \in 1 .. Len(jobqueue') : jobqueue'[i] = jobqueue'[j] => i = j
        /\ \A i \in 1 .. Len(jobqueue') : jobqueue'[i] \notin done'
    BY <1>0, <2>1, <2>3, <2>4 DEF OnePlace
  <2>6. ASSUME NEW u \in Threads, pc'[u] = "run"
        PROVE  /\ job_p'[u] \notin done'
               /\ \A i \in 1 .. Len(jobqueue') : jobqueue'[i] # job_p'[u]
               /\ \A v \in Threads : pc'[v] = "run" /\ job_p'[v] = job_p'[u] => v = u
    BY <1>0, <2>1, <2>2, <2>3, <2>4, <2>6 DEF OnePlace
  <2> QED
    BY <2>1, <2>5, <2>6 DEF OnePlace
<1>4. ASSUME NEW j \in Jobs, ThpoolAddWork(j) PROVE OnePlace'
  BY <1>4 DEF ThpoolAddWork, OnePlace
<1>5. CASE ThpoolFree
  <2>1. jobqueue' = << >> /\ owner' = "freed" /\ UNCHANGED <<pc, job_p, newjob, added, done>>
    BY <1>5 DEF ThpoolFree
  <2> QED
    BY <2>1 DEF OnePlace
<1>6. ASSUME NEW t \in Threads,
             \/ ThreadBorn(t) \/ ThreadLoop(t) \/ BsemWait(t) \/ SpuriousWakeup(t)
             \/ ThreadCheck(t) \/ ThreadBegin(t) \/ ThreadEnd(t) \/ ThreadLeave(t)
             \/ ThreadUnlock(t) \/ ThreadHold(t) \/ ThreadRelease(t)
      PROVE  OnePlace'
  <2>1. UNCHANGED <<jobqueue, job_p, newjob, added, done>>
    BY <1>6 DEF ThreadBorn, ThreadLoop, BsemWait, SpuriousWakeup, ThreadCheck, ThreadBegin,
         ThreadEnd, ThreadLeave, ThreadUnlock, ThreadHold, ThreadRelease
  <2>2. /\ owner' = "push" => owner = "push"
        /\ \A u \in Threads : pc'[u] = "run" => pc[u] = "run"
    BY <1>0, <1>6 DEF ThreadBorn, ThreadLoop, BsemWait, SpuriousWakeup, ThreadCheck, ThreadBegin,
         ThreadEnd, ThreadLeave, ThreadUnlock, ThreadHold, ThreadRelease, Goto
  <2> QED
    BY <2>1, <2>2, OnePlaceKept
<1>7. CASE ThpoolInit \/ ThpoolInitDone \/ ThpoolPause \/ ThpoolResume \/ ThpoolWait
            \/ ThpoolWaitTest \/ ThpoolDestroy \/ ThpoolDestroyPost \/ UNCHANGED vars
  <2>1. UNCHANGED <<jobqueue, job_p, newjob, added, done>>
    BY <1>7 DEF ThpoolInit, ThpoolInitDone, ThpoolPause, ThpoolResume, ThpoolWait,
         ThpoolWaitTest, ThpoolDestroy, ThpoolDestroyPost, vars
  <2>2. /\ owner' = "push" => owner = "push"
        /\ \A u \in Threads : pc'[u] = "run" => pc[u] = "run"
    BY <1>0, <1>7 DEF ThpoolInit, ThpoolInitDone, ThpoolPause, ThpoolResume, ThpoolWait,
         ThpoolWaitTest, ThpoolDestroy, ThpoolDestroyPost, vars
  <2> QED
    BY <2>1, <2>2, OnePlaceKept
<1> QED
  BY <1>1, <1>2, <1>3, <1>4, <1>5, <1>6, <1>7 DEF Next, ThreadStep, OwnerStep, OwnerCall

\* The jobs being run change only with the threads at "run".
LEMMA RunningKept ==
  ASSUME UNCHANGED job_p, \A t \in Threads : pc'[t] = "run" <=> pc[t] = "run"
  PROVE  Running' = Running
BY DEF Running

LEMMA PullRefines ==
  ASSUME PoolInv, OnePlace, NEW t \in Threads, JobqueuePull(t)
  PROVE  [WP!Next]_(WP!vars)
<1>0. pc \in [Threads -> Labels] /\ jobqueue \in Seq(added) /\ job_p \in [Threads -> added \cup {NoJob}]
  BY DEF PoolInv, PoolTypes
<1>1. /\ pc[t] = "pull" /\ pc'[t] \in {"run", "end"}
      /\ \A u \in Threads \ {t} : pc'[u] = "run" <=> pc[u] = "run"
      /\ UNCHANGED <<owner, done>>
  BY <1>0, PullMoves DEF JobqueuePull
<1>2. Phase' = Phase
  BY <1>1 DEF Phase
<1>3. CASE jobqueue = << >>
  <2>1. UNCHANGED <<jobqueue, job_p>> /\ pc'[t] = "end"
    BY <1>0, <1>3 DEF JobqueuePull, Goto
  <2>2. Running' = Running
    BY <1>1, <2>1, RunningKept
  <2> QED
    BY <1>1, <1>2, <2>1, <2>2 DEF WP!vars
<1>4. CASE jobqueue # << >>
  <2>1. /\ jobqueue' = Tail(jobqueue) /\ job_p'[t] = Head(jobqueue)
        /\ \A u \in Threads : u # t => job_p'[u] = job_p[u]
    BY <1>0, <1>4 DEF JobqueuePull
  <2>2. pc'[t] = "run"
    <3> DEFINE at == [pc EXCEPT ![t] = "run"]
    <3>1. at \in [Threads -> Labels] /\ at[t] = "run"
      BY <1>0 DEF Labels
    <3>2. pc' = at \/ Signal(at)
      BY <1>4 DEF JobqueuePull, Goto
    <3> HIDE DEF at
    <3> QED
      BY <3>1, <3>2, SignalSpec
  <2>3. Running' = Running \cup {Head(jobqueue)}
    BY <1>1, <2>1, <2>2 DEF Running
  <2>4. 1 \in 1 .. Len(jobqueue) /\ Head(jobqueue) = jobqueue[1]
    BY <1>0, <1>4
  <2>5. Head(jobqueue) \notin Running \cup done
    BY <2>4 DEF OnePlace, Running
  <2> QED
    BY <1>1, <1>2, <1>4, <2>1, <2>3, <2>5 DEF WP!Next, WP!Start
<1> QED
  BY <1>3, <1>4

LEMMA RunRefines ==
  ASSUME PoolInv, OnePlace, NEW t \in Threads, ThreadRun(t)
  PROVE  WP!Next
<1>0. pc \in [Threads -> Labels] /\ job_p \in [Threads -> added \cup {NoJob}]
  BY DEF PoolInv, PoolTypes
<1>1. /\ pc[t] = "run" /\ pc'[t] = "end" /\ done' = done \cup {job_p[t]}
      /\ UNCHANGED <<owner, jobqueue>>
      /\ \A u \in Threads : u # t => pc'[u] = pc[u] /\ job_p'[u] = job_p[u]
  BY <1>0 DEF ThreadRun, Goto, At
<1>2. job_p[t] \in Running /\ job_p[t] \in Jobs
  BY <1>0, <1>1 DEF Running, PoolInv, PoolTypes
<1>3. Running' = Running \ {job_p[t]}
  <2>1. \A x : x \in Running' => x \in Running /\ x # job_p[t]
    BY <1>1 DEF Running, OnePlace
  <2>2. \A x : x \in Running /\ x # job_p[t] => x \in Running'
    BY <1>1 DEF Running
  <2> QED
    BY <2>1, <2>2
<1>4. Phase' = Phase
  BY <1>1 DEF Phase
<1> QED
  BY <1>1, <1>2, <1>3, <1>4 DEF WP!Next, WP!Finish

LEMMA PushRefines ==
  ASSUME PoolInv, JobqueuePush
  PROVE  WP!Next
<1>1. /\ owner = "push" /\ owner' = "open" /\ Signal(pc)
      /\ jobqueue' = Append(jobqueue, newjob) /\ UNCHANGED <<job_p, done>>
  BY DEF JobqueuePush
<1>2. newjob \in Jobs /\ pc \in [Threads -> Labels]
  BY <1>1 DEF PoolInv, PoolTypes
<1>3. \A t \in Threads : pc'[t] = "run" <=> pc[t] = "run"
  BY <1>1, <1>2, SignalSpec
<1>4. Running' = Running
  BY <1>1, <1>3, RunningKept
<1>5. Phase = "open" /\ Phase' = "open"
  BY <1>1 DEF Phase
<1> QED
  BY <1>1, <1>2, <1>4, <1>5 DEF WP!Next, WP!Add

\* thpool_wait returns, and thpool_destroy frees, with no job running.
LEMMA OwnerRefines ==
  ASSUME PoolInv, ThpoolWait \/ ThpoolWaitTest \/ ThpoolFree
  PROVE  [WP!Next]_(WP!vars)
<1>1. UNCHANGED <<pc, job_p, done>>
  BY DEF ThpoolWait, ThpoolWaitTest, ThpoolFree
<1>2. Running' = Running
  BY <1>1 DEF Running
<1>3. CASE ThpoolWait
  BY <1>2, <1>3 DEF ThpoolWait, Phase, WP!Next, WP!StartWait
<1>4. CASE ThpoolWaitTest
  <2>1. CASE jobqueue # << >> \/ num_threads_working # 0
    <3>1. owner = "waitTest" /\ owner' = "waitSleep" /\ UNCHANGED <<jobqueue, done>>
      BY <1>4, <2>1 DEF ThpoolWaitTest
    <3>2. Phase' = Phase
      BY <3>1 DEF Phase
    <3> QED
      BY <1>2, <3>1, <3>2 DEF WP!vars
  <2>2. CASE jobqueue = << >> /\ num_threads_working = 0
    <3>1. Working = {}
      BY <2>2, AliveFinite, FS_EmptySet DEF PoolInv, Counters
    <3>2. Running = {}
      BY <3>1 DEF Running, Working
    <3>3. owner = "waitTest" /\ owner' = "open" /\ UNCHANGED <<jobqueue, done>>
      BY <1>4, <2>2 DEF ThpoolWaitTest
    <3>4. Phase = "waiting" /\ Phase' = "open"
      BY <3>3 DEF Phase
    <3> QED
      BY <1>2, <2>2, <3>2, <3>3, <3>4 DEF WP!Next, WP!WaitReturns
  <2> QED
    BY <2>1, <2>2
<1>5. CASE ThpoolFree
  <2>1. /\ owner = "destroy" /\ owner' = "freed" /\ num_threads_alive = 0 /\ jobqueue' = << >>
    BY <1>5 DEF ThpoolFree
  <2>2. \A t \in Threads : pc[t] \in {"unlock", "gone"}
    BY <2>1, AllDead
  <2>3. Running = {}
    BY <2>2 DEF Running
  <2>4. Phase = "open" /\ Phase' = "closed"
    BY <2>1 DEF Phase
  <2> QED
    BY <1>1, <1>2, <2>1, <2>3, <2>4 DEF WP!Next, WP!Close
<1> QED
  BY <1>3, <1>4, <1>5

\* Everything else is hidden in the implementation.
LEMMA StutterRefines ==
  ASSUME PoolInv,
         \/ \E t \in Threads :
              \/ ThreadBorn(t) \/ ThreadLoop(t) \/ BsemWait(t) \/ SpuriousWakeup(t)
              \/ ThreadCheck(t) \/ ThreadBegin(t) \/ ThreadEnd(t) \/ ThreadLeave(t)
              \/ ThreadUnlock(t) \/ ThreadHold(t) \/ ThreadRelease(t)
         \/ ThpoolInit \/ ThpoolInitDone \/ (\E j \in Jobs : ThpoolAddWork(j)) \/ ThpoolPause
         \/ ThpoolResume \/ ThpoolDestroy \/ ThpoolDestroyPost \/ UNCHANGED vars
  PROVE  UNCHANGED WP!vars
<1>0. pc \in [Threads -> Labels]
  BY DEF PoolInv, PoolTypes
<1>1. UNCHANGED <<jobqueue, job_p, done>>
  BY DEF ThreadBorn, ThreadLoop, BsemWait, SpuriousWakeup, ThreadCheck, ThreadBegin, ThreadEnd,
     ThreadLeave, ThreadUnlock, ThreadHold, ThreadRelease, ThpoolInit, ThpoolInitDone,
     ThpoolAddWork, ThpoolPause, ThpoolResume, ThpoolDestroy, ThpoolDestroyPost, vars
<1>2. \A u \in Threads : pc'[u] = "run" <=> pc[u] = "run"
  <2>1. CASE ThpoolInit
    BY <2>1 DEF ThpoolInit, PoolInv, Lifecycle
  <2>2. CASE ~ThpoolInit
    BY <1>0, <2>2
    DEF ThreadBorn, ThreadLoop, BsemWait, SpuriousWakeup, ThreadCheck, ThreadBegin, ThreadEnd,
        ThreadLeave, ThreadUnlock, ThreadHold, ThreadRelease, ThpoolInitDone, ThpoolAddWork,
        ThpoolPause, ThpoolResume, ThpoolDestroy, ThpoolDestroyPost, vars, Goto, At
  <2> QED
    BY <2>1, <2>2
<1>3. \/ owner' = owner
      \/ owner = "waitSleep" /\ owner' = "waitTest"
      \/ owner \in {"init", "initSpin", "open"} /\ owner' \in {"initSpin", "open", "push", "destroy"}
  BY DEF ThreadBorn, ThreadLoop, BsemWait, SpuriousWakeup, ThreadCheck, ThreadBegin, ThreadEnd,
     ThreadLeave, ThreadUnlock, ThreadHold, ThreadRelease, ThpoolInit, ThpoolInitDone,
     ThpoolAddWork, ThpoolPause, ThpoolResume, ThpoolDestroy, ThpoolDestroyPost, vars
<1>4. Phase' = Phase
  BY <1>3 DEF Phase
<1> QED
  BY <1>1, <1>2, <1>4, RunningKept DEF WP!vars

LEMMA PoolStepRefines == PoolInv /\ OnePlace /\ [Next]_vars => [WP!Next]_(WP!vars)
<1> SUFFICES ASSUME PoolInv, OnePlace, [Next]_vars PROVE [WP!Next]_(WP!vars)
  OBVIOUS
<1>1. CASE \E t \in Threads : JobqueuePull(t)
  BY <1>1, PullRefines
<1>2. CASE \E t \in Threads : ThreadRun(t)
  BY <1>2, RunRefines
<1>3. CASE JobqueuePush
  BY <1>3, PushRefines
<1>4. CASE ThpoolWait \/ ThpoolWaitTest \/ ThpoolFree
  BY <1>4, OwnerRefines
<1>5. CASE ~((\E t \in Threads : JobqueuePull(t) \/ ThreadRun(t)) \/ JobqueuePush \/ ThpoolWait
             \/ ThpoolWaitTest \/ ThpoolFree)
  <2>1. UNCHANGED WP!vars
    BY <1>5, StutterRefines DEF Next, ThreadStep, OwnerStep, OwnerCall
  <2> QED
    BY <2>1
<1> QED
  BY <1>1, <1>2, <1>3, <1>4, <1>5

(***************************************************************************)
(* The pool of thpool.c implements WorkPool, for any number of threads,    *)
(* jobs and pauses: jobs start in the order they were added and each at    *)
(* most once, thpool_wait, which reads the length of the queue without its *)
(* mutex, returns only when no job is queued or running, and               *)
(* thpool_destroy only when none is running.                               *)
(***************************************************************************)
THEOREM ImplementsWorkPool == Spec => RefinesWorkPool
<1>1. Init => WP!Init /\ OnePlace
  <2> SUFFICES ASSUME Init PROVE WP!Init /\ OnePlace
    OBVIOUS
  <2>1. jobqueue = << >> /\ done = {} /\ owner = "init" /\ \A t \in Threads : pc[t] # "run"
    BY DEF Init
  <2>2. Running = {} /\ Phase = "open"
    BY <2>1 DEF Running, Phase
  <2>3. OnePlace
    BY <2>1 DEF OnePlace
  <2> QED  BY <2>1, <2>2, <2>3 DEF WP!Init
<1> QED
  BY <1>1, PoolInvariant, OnePlaceNext, PoolStepRefines, PTL
  DEF Spec, WP!Spec, RefinesWorkPool
=============================================================================
