# Verification of ChronosXServer

TLA+ models of the Chronos real-time database server, TLC runs over small
instances, and TLAPS proofs for every instance.

## 1. The system

| Part | Source | State | Operations |
| --- | --- | --- | --- |
| Ready queues (user, system) | `chronos_queue.c` | ring, `occupied`, `nextin`, `nextout`, `ticketReq`, mutex, `more`, `less` | enqueue, dequeue, size |
| Processing threads | `processThread`, `processUserTransaction`, `processRefreshTransaction` | snapshot of the system queue's size, current transaction | drain refreshes, one user transaction per round, look at the clock, sample |
| Update threads | `updateThread` | client cache, list of items | build a refresh, enqueue, sleep |
| Listener | `daListener` | listening socket, pool | accept, add work, destroy the pool |
| Handlers | `daHandler`, `dispatchTableFn` | socket, request, `txn_done`/`txn_rc` on the stack | read, admission delay, enqueue, poll, reply |
| Thread pool | `thpool.c` | job list, binary semaphore, thread counters | init, add_work, wait, destroy, pause, resume |
| main | `main` | thread infos, context | process the arguments, evaluate or spawn, join, free |
| Adaptive update policy | `aup.c` | per item validity interval, access and update counts, next update | expired items, relax, reset |
| Statistics, performance monitor | `stats.c`, `performance_monitor.c`, `performanceMonitor` | counters per thread, two-slot history, `inter_xact_sleep_ms` | update, aggregate, adjust the delay |
| Admission control | `chronos_ac.c` | `num_txn_to_wait` | set, decrease, wait |
| Command line | `processArguments` | `chronosServerContext_t` | set a field, refuse, validate |
| Evaluation mode | `runTxnEvaluation`, `stats.h` | samples, histogram, counts | create, execute, free, capture, print |
| Litmus RT | `startup_server.c` under `#ifdef` | | |

How they interact: handlers put user transactions into the user queue and poll
two variables on their own stack; update threads put refreshes into the system
queue; processing threads take from both, execute against the benchmark library
and write the result through the pointers carried by the transaction. One
global, `time_to_die`, is set by the processing threads when the duration is
over and polled by everybody. The listener owns the pool whose threads run the
handlers. main joins listener, update threads and processing threads, in this
order, and frees everything. At the end of a round a processing thread may
also sample: it adds up the counters of all threads, moves the shared ring of
samples on, and adjusts the delay that every handler makes before it enqueues.
In the modes `aup` and `ac_aup` the update threads ask `aup.c` which items are due,
while a processing thread relaxes the intervals of the same items. Before any of this
main processes the command line, and with `--evaluate-wcet` it runs the evaluation
instead of the server.

What is hard: sizes read without the mutex and used later; pointers into another
thread's stack; one signal per queue change; timed waits racing with
`time_to_die`; handlers blocked on clients; failures of one of several threads;
the pool's binary semaphore and its unlocked counters; the signal handler that
pauses a pool thread anywhere; a ring of samples and counters shared without a
lock; items put off before their refresh is in a queue that may be full; the boundaries of the histogram, of
the unsigned sizes and of the budgets. `PROJECT.json` lists these
hazards with their lines and the properties aimed at them.

## 2. Modules

| Module | Models | Notes |
| --- | --- | --- |
| `ReadyQueue` | what a ready queue promises | bounded FIFO with tickets; a call is turned away only after `time_to_die` |
| `ChronosQueue` | `chronos_queue.c` | one step per mutex operation, loop test, wait, wake-up, die test, copy, signal |
| `ChronosQueueProofs` | | proofs about `ChronosQueue` |
| `WorkPool` | what the thread pool promises | FIFO starts, each job once, wait and destroy |
| `ThreadPool` | `thpool.c` | sections under a mutex are one step, except the last unlock of a thread; the pause signal stops a thread anywhere, with the mutexes it holds |
| `ThreadPoolProofs` | | proofs about `ThreadPool` |
| `ChronosServer` | the threads of `startup_server.c` | uses the queues through the steps `ReadyQueue` allows and the pool through those of `WorkPool` |
| `ChronosServerProofs` | | proofs about `ChronosServer` |
| `Sampling` | `stats.c`, `performance_monitor.c`, the end of a round of `processThread` | every shared read and write of the aggregation is a step |
| `SamplingProofs` | | proofs about `Sampling` |
| `AUP` | `aup.c` and its use by `updateThread` and `adaptive_update_policy` | one item is relaxed per step; an update thread polls, puts off, enqueues, frees and sleeps in steps of their own, any of which may be late or the last |
| `AUPProofs` | | proofs about `AUP` |
| `AdmissionControl` | `chronos_ac.c`, `qosManager`, `admission_control` (version 1) | handlers and processing threads around the count of waits |
| `AdmissionProofs` | | proofs about `AdmissionControl` |
| `Evaluation` | `runTxnEvaluation`, the macros of `stats.h` | one step per library call, all of which may fail |
| `EvaluationProofs` | | proofs about `Evaluation` |
| `Arguments` | `processArguments` | one action per kind of option, in any order and number |
| `Startup` | `main` up to the evaluation or the start of the server | composes `Arguments` and `Evaluation` |
| `StartupProofs` | | proofs about `Startup` and `Arguments` |
| `MC*` | | instances for TLC |

Correspondence to the code. Variables carry the source's names (`occupied`,
`nextin`, `txn_done`, `num_txn_to_dequeue`, `threads_keepalive`, ...); `pc` says
where a thread is. Every shared access that another thread can observe is a step
of its own: in `ChronosServer` the unlocked size reads (`ServerSnapshot`,
`ServerUserCheck`) are apart from the dequeues, `*txn_rc = ...` (`ServerSetRc`)
is apart from `*txn_doneP = 1` (`ServerSetDone`), and the handler's poll
(`HandlerPoll`) is apart from its read of the result (`HandlerReadRc`). A request
is a pair of client and number; a transaction succeeds or fails; `elapsed` is 0
during the warm-up, 1 during the experiment and 2 when the duration is over.
A queue call in `ChronosServer` is a pass, a sleep, or a return with FAIL;
that this is all a queue does is what `RefinesReadyQueue` says.

In `AUP` the steps of an update thread are those of its cycle: `Poll` is the scan for
expired items, `PutOff` the creation of the request and `chronos_aup_next_update_set`,
which comes before the test for NULL, `Enqueue` the moment the request is in the queue.
Time passes between any two of them, so a sleep that takes longer, a thread that is not
scheduled and an enqueue that waits for room are all the same to the model, and the
error exits end the thread with its items put off.

Data that no property tells apart is abstracted. `Sampling` counts degrees of overload
in units of 1/10000; its counters are per thread and type and are read type by type, as
in the code; `AUP` keeps time relative (time to the next update, age, time since the
poll) and truncates intervals to milliseconds; `AdmissionControl` takes the degree times
the queue's size as any number; `Arguments` has the names of the usage text and one
other name, whose bytes matter only in that "ac" begins "ac_aup".

Two parts are in the source but switched off in this build: the calls of
`qosManager` and `adaptive_update_policy` at lines 1890-1891 are commented out, and
the call of `chronos_ac_wait` is under `#if 0`. `AdmissionControl` and the relaxation
in `AUP` model them as they would run with these calls; everything else in the
project is about the code as it is built. `AUP` has one processing thread, the
default: frequencies are counted and intervals relaxed by the same thread.

Definitions whose name has a suffix (`EnqueueCopy_NoWrap`) are faulty variants of
the definition before the underscore. They are not part of any specification;
each shows that a property would notice that fault.

## 3. Runs

| Run | Instance | What it shows |
| --- | --- | --- |
| `queue` | 1 producer, 2 consumers, 2 slots, tickets modulo 3 | types, both `assert`s of the queue, consecutive tickets, no lost wake-up, refinement of `ReadyQueue`; after `time_to_die` nobody stays inside |
| `pool` | 2 threads, 2 jobs, 1 pause, failing creation | types, no forgotten job, refinement of `WorkPool`; jobs are done; wait, destroy, add_work, resume and init return, and the pool is freed, except in the cases the properties name |
| `server_safety` | 1 processing thread, 1 updater, 2 handlers, 2 clients, queues of 1 | no write into a dead frame, truthful replies, the processing thread never sleeps, nothing freed in use; library failures included |
| `server_liveness` | 2 processing threads, 1 updater, 1 handler, 1 client, queues of 2 | no starvation, expiry noticed, only readers linger, although the threads fall asleep on stale sizes; failed spawns included |
| `server_dangling_write` (violated) | 2 processing threads | a write through a dead pointer |
| `server_blocked` (violated) | 2 processing threads, a failed updater | the timer is never noticed |
| `sampling` | 1 thread, 2 types, 2 slots, 3 transactions | exact counts per minute and per row; the delay falls back to 1 ms |
| `sampling_minute` (violated) | 2 threads, 2 types, 2 slots | the count per minute is wrong |
| `aup` | 2 items, 1 updater, intervals of 10 to 12 ms, sleeps of 2 ms, cycles of up to 3 ms | an item that was put off is requested again within half its interval and two cycles of its thread, however late these are; the first cold items relaxed |
| `admission` | 3 clients, 1 processing thread, 2 failures, 2 calls of `qosManager` | the count of waits is covered; without failures every client is admitted; the end releases everybody |
| `startup` | 2 options, 16-bit sizes, with and without Litmus RT; 3 samples of 0 to 6 us, 2 bins of 2 us | started exactly on a good command line; sizes fit their arrays; evaluated exactly if asked for last, and the type named last; histogram, total and maximum agree with the samples; nothing leaks between rounds |
| `startup_mode` (violated) | the same | `-m ac_aup` runs in mode `ac` |

Bounds and why they are enough. The queue run uses the smallest ring whose
indices wrap inside, with two sleepers on `more`, and a ticket counter
that wraps within a run; the theorems cover all other sizes and numbers of threads.
With two pool threads one can pull while the other tests, sleeps or is held; the
theorems about jobs and counters are for any number. A server queue of one slot makes it
full with two handlers; two slots are
needed for two processing threads to count the same two refreshes. `MaxRequests`
bounds the requests of a client, `HangUps`, `LibraryMayFail` and `SpawnMayFail`
switch failures of the environment on, so that each liveness run stays small and
all failures occur in some run. In the pool, a second pause adds nothing that one
pause, at any moment and of any thread, does not show; `MaxPauses` bounds them.

`Sampling` needs as many slots as the code has, 2, for its wrap-around, two types for the
loop over the types, and three transactions for an overload of several periods that ends;
`MaxXacts` bounds them, so in every behaviour transactions end at some time, which is the
case `DelayRecovers` is about. `TimelyBounded` speaks of several threads, with which the
other properties of the run fail; it is proved and has no run of its own. `AUP` needs two
items for a budget that ends between them, a `beta` that allows one relaxation and refuses
the next, and frequencies of 0 and 1 (`MaxFrequency`), since only their order is used.
`MaxCycle` bounds the time between two polls; it is longer than the sleep, so that cycles
are late, and shorter than half an interval, so that some polls find an item that is not
due; the theorem holds for every bound. `Evaluation` uses the smallest histogram with an
inner border and an end, and samples (`MaxSample`) beyond it. `MaxFailures` and `MaxSets` bound failing transactions and calls of `qosManager`
so that the count can be set again while it is not 0. Two options are enough
for one that another one repairs, spoils or overrides, with all of the evaluation after
each; `UintModulus` is 2^16 because TLC's integers have 32 bits; the proofs hold for 2^32.

`CHECK_DEADLOCK` is off where the system may stop: the server when main has
returned, the threads of a queue or a pool when they have left, main after the evaluation,
after a refused command line and where the server takes over, the admission control after
the end of the experiment.

Fairness. Threads are scheduled and sleeps end (weak fairness per thread); a
thread that keeps asking for the queue's mutex gets it (strong fairness), as no
critical section of the queue blocks; items expire again and again, so an update
thread cannot find nothing to do for ever (strong fairness of `UpdaterCreate`).
In the pool a job is assumed to return; the calls of the owner are promised to return
if no thread is held for ever (`NobodyHeldForEver`), which is up to the owner's resume. In `Sampling` each thread goes on with its
round and its sampling period ends again and again. In `AdmissionControl` a processing
thread goes on with its loop and a handler with its poll; a client need not send. No
fairness is assumed of a call that may fail for ever (`ServerRetryFree`). Clients are never obliged to do anything,
the clock need not advance, and no wake-up is obliged to be spurious.

What the violated runs mean. With the default single processing thread
`server_dangling_write` cannot happen (`server_safety`): the only thread that could
write through the pointers is the one that sets `time_to_die`, at a moment when it holds
none. With `-t 2` it can. `server_blocked` needs two processing threads and the loss of
the update threads. `sampling_minute` needs `-t 2`. `startup_mode` needs one
option: names are compared over the length of the expected one (`startup_server.c:866`), and
`ac` comes before `ac_aup`. The findings quote the lines they contradict.

Where the passing properties have exceptions. Some comments and messages of the code
promise more than it does. The properties then state exactly what holds, and name the
exception:

* `OnlyReadersLinger`: a handler in `read()` does not look at `time_to_die`, so one client
  that stays connected and silent keeps main from returning. The comment at
  `startup_server.c:653-654` says the threads "will continue to run until they are
  requested to finish by the timer or by a user signal".
* `FreedWhenUnused`: `thpool_destroy` (`thpool.c:228`) reads `num_threads_alive` without
  its lock; the last thread may still have to unlock that lock in the freed pool.
  `thpool.h:143-144`: "This will wait for the currently active threads to finish".
* `ResumeReleases`: a thread that takes SIGUSR1 after `thpool_resume` sets
  `threads_on_hold` again (`thpool.c:302`). `thpool.h:104-105`: "The threads return to
  their previous states once thpool_resume is called." The server itself never pauses its
  pool.
* `OwnerCallsReturn`: a thread may be held with a mutex of the queue in its hands.
  `thpool.h:107`: "While the thread is being paused, new work can be added."
* `OwnerCallsReturn` again: a failed `pthread_create` (`thpool.c:293`) makes `thpool_init` spin.
  `thpool.h:34-35`: "created threadpool on success, NULL on error".
* `DelayRecovers`: the delay falls to 1 ms, never to 0 (`startup_server.c:2588`), although
  it is "proportional to the degree of timing violation" (lines 2582-2583).
* `NotForgotten`: an update thread that leaves on an error (`startup_server.c:2104-2120`) has
  put its items off and never requests them. The bound counts the time since its last poll,
  which then grows for ever; so it does while the enqueue waits for room. Nothing in the
  code bounds the age of an item by its interval, and no property says so.
* `RoundsClean` says nothing of what SUCCESS means: a request that cannot be created
  (`startup_server.c:2371`) ends the evaluation with SUCCESS and without a report.

Told here and covered by no property: `min_response_time` starts at 0 (`stats.c:18`) and is
only ever lowered, so the minimum that `RTCAPTURE_PRINT` prints (`stats.h:167`) is 0 whatever the
samples are. `ReportExact` is about the total and the maximum.

Counterexamples that other constants give. `NoUseAfterFree` is violated with
`SpawnMayFail = TRUE`: a failed `pthread_create` frees the queues and the context under
the threads that already run (`startup_server.c:587`). `ExpiryNoticed` is violated with
`PacketFreeMayFail = TRUE`, where `failXit` jumps to itself (`startup_server.c:1600`), and
with `Servers = {}`, which `-t 0` gives, since that number is not validated. `CountCovered` is
violated with two processing threads.

## 4. Proofs

Every invariant that a passing run checks, and the refinements, are also theorems, for
every value of the constants that satisfies the assumptions and premises named below. Each
rests on an inductive invariant; those of `ChronosServer`, `ThreadPool` and `Sampling` were
checked with TLC on the instances of the runs before they were proved.

`ChronosQueueProofs` (assumptions: `QueueAssumption`, that is a queue size of at
least 1, a ticket modulus larger than it, finite disjoint sets of threads):

* `TypeInv` joins `TypeOK` with mutual exclusion (a thread between lock and unlock
  is the holder of `mutex`), with the fact that a producer inside has a request, and
  with `AssertsHold`. Mutual exclusion is what makes the asserts inductive: between
  the loop test and the copy nobody else can change `occupied`. From it follow
  `TypeCorrect` and `AssertsNeverFail`.
* `RingInv` adds `nextin = (nextout + occupied) % QueueSize` and
  `TicketsConsecutive`; it gives `TicketsAreConsecutive`.
* `ImplementsReadyQueue` maps the ring to the sequence of its occupied slots, and
  shows the copies to be `Put` and `Take`, a FAIL return to be `TurnAway`, and all
  other steps to stutter.
* `WakeupsNeverLost` is a counting argument: each enqueue adds one transaction and owes
  one signal, and a signal moves one sleeper to the awake ones; a thread that consumes
  leaves the awake ones with its transaction.

`ThreadPoolProofs` (assumptions: `PoolAssumption`, a finite, non-empty set of threads):

* `PoolTypeCorrect` needs `Counters`: `num_threads_alive` and `num_threads_working` are
  the numbers of threads at the positions where they count as such. Being
  cardinalities of sets of threads, they cannot exceed the number of threads, and no
  decrement takes them below 0.
* `JobsNeverForgotten` needs `Lifecycle` (no thread leaves before `thpool_destroy`, jobs
  come after `thpool_init`). A push or a pull that leaves jobs behind raises the
  semaphore and wakes a sleeper if there is one, and only a thread that goes on to the
  queue lowers it. That a thread may be held at any place does not matter: it keeps its
  position.
* `FreedAfterUse`: `thpool_destroy` frees after it has read `num_threads_alive` = 0, which by
  `Counters` means that every thread is past its last use of the pool's counters; what
  it may still have to do is to unlock.
* `ImplementsWorkPool` maps the pool to its queue, the jobs that run and the jobs that are
  done. A pull is a start, the end of a job a finish, and all the work on semaphore,
  counters and signals stutters. `OnePlace` is needed for it: a job is about to be added,
  queued once, run by one thread, or done. Without it a pull could start a job twice.

`ChronosServerProofs` (assumption: `ServerAssumption`, disjoint sets of threads and queues of
at least one slot), for any number of update threads, handlers, clients and requests:

* `ServerTypeCorrect` needs that a handler has a connection and a request where it uses
  them, and that a processing thread has dequeued what it executes.
* `FreedLast` holds unless `pthread_create` fails (`~SpawnMayFail`; with failures the property
  is violated, see section 3). `BirthOrder` says who exists at each step of main and of the
  listener, `Joined` which groups have ended at each join.
* `ServerStaysAwake`, `PointersAlive` and `AnswersTrue` are for one processing thread, which is
  the default of `-t`. With two, `server_dangling_write` violates `NoDanglingWrite`, and
  `server_blocked` a consequence of `ServerNeverBlocks`: the premise cannot be dropped.
    * `ReadsHold`: what the thread has read of the queues' sizes without a mutex is still there
      when it dequeues, since the others only add.
    * `Ownership`: every queued entry, and the one in work, has a handler of its own that
      polls for it and has not been answered. A handler leaves its loop early only when
      `time_to_die` is set, which the processing thread does last (`DeathLast`), so the
      pointers of an entry are alive when they are written.
    * `Accounts`: on top of it, a connection is queued once or held by one handler
      (`Connections`), a handler works on the latest request of its client (`Latest`), a
      request nobody has read is neither committed nor answered (`Unread`), and `txn_rc`,
      `result` and the reply say at each step what happened to this request (`Outcomes`);
      between the commit and the write of `txn_rc` only the processing thread knows.

`AUPProofs` (assumptions: `AUPAssumption`, that is positive parameters and chunks within the
items):

* `AUPTypeCorrect` needs nothing but itself.
* `NoItemForgotten` needs `Lists`, that the items in hand are of the thread's own chunk and
  that a thread which sleeps has none, and `Account`, which follows an item through the cycle
  of its thread. While it waits, age and remaining wait are together at most half its
  interval; once it is due and not in hand, it became due after the last poll, so the cycle
  under way is added; in hand, it was not due at the poll before, so that cycle is added
  too, for as long as the thread takes to enqueue it. Relaxing only raises the bound. No
  assumption on `PollPeriod` is needed.
* `PassRelaxesFirstCold` rests on `PassInv`: in a pass the items before `pos` are as the
  definition says, the others are untouched, and what is gone of the budget is the
  number of cold items before `pos`.

`AdmissionProofs` (assumption: `ACAssumption`, finitely many clients):

* `ACTypeCorrect` holds for any number of processing threads.
* `WaitsAreCovered` is for one processing thread. It needs `ReadCovered`, that between
  `qosManager`'s read of the queue's size and its use of it nobody dequeues. With
  several processing threads this is not so, and neither is the property.

`SamplingProofs` (assumption: `SamplingAssumption`) proves `TearingIsBounded` for any number
of processing threads and up to four types. A thread's own `timely` counter of a type is at
most 1 ahead of its total, and only between the two increments (`OwnCounters`); as the
sampler reads `timely` first, each type of each other thread adds at most 1 to the
difference of the sums, and the sampler itself, which is not counting then, adds 0
(`SumBound`). A thread can indeed be caught once per type, since it goes on counting
between the reads.

`SamplesTypeCorrect`, `MinuteIsExact` and `RowsAreExact` are for one processing thread and any
number of slots and transactions; with two the run `sampling_minute` shows that
`MinuteCounts` fails. The invariant is `RingRecords`: slot s holds the total that was added
up as many samples ago as s is behind `sample_num`, counted round the ring, and one more
between the advance of `sample_num` and the store. The sums are the counters themselves,
because the one thread that adds them up is the one that counts (`OwnSums`); no sample is
ahead of the counters (`NotAhead`), which keeps the differences from becoming negative.

`EvaluationProofs` (assumption: `EvaluationAssumption`, at least one sample and bin, a positive
width):

* `EvaluationTypeCorrect` and `RoundsAreClean`: `Released` says what is allocated at each
  point of a round, `CountedOnce` that a transaction is counted between its execution and
  its sample, `LoopBound` that the loop ends after the last sample.
* `HistogramIsExact` needs `BinsPartition`: the interval of `Bin(t)` is the one that holds t,
  also at the borders and beyond the range. A capture then adds one element to the
  samples of one bin and none to those of the others.
* `ReportIsExact`: the sum is a recursive function of the samples, and induction over data is
  not available. That there is exactly one such function, with `rtusum` as its last
  value, is therefore part of the invariant (`ReportInv`): every capture extends the
  function by one value, so the induction over the steps does the work.

`StartupProofs` (assumptions: `ArgumentsAssumption`, `EvaluationAssumption`): `LastCounts` says
that the context holds what the last option for a field asked for, `Verdict` that a command
line is refused for an option or by the checks and never otherwise. That a field which was
set has a last option is part of the invariant too, for the reason just given.
`FirstMatch` computes the order of the comparisons of `-m`. They give `ArgumentsTypeCorrect`
and `StartIsRight`. `MainInv` ties main to the context: nothing is evaluated unless the
command line was accepted in the evaluation mode, and then it is the transaction of the
context; it gives `EvaluationIsAsked`. `ImplementsEvaluation` shows that every step of
`Startup` is a step of `Evaluation` or leaves its state alone, so the theorems of
`EvaluationProofs` hold of the whole program (`EvaluationsAreRight`).

Model-checked only: liveness (`ShutdownReturns`, `JobsAreDone`, `OwnerCallsReturn`,
`ResumeReleases`, `UserTxnServed`, `ExpiryNoticed`, `OnlyReadersLinger`, `DelayRecovers`,
`WaitersReleased`), which needs reasoning about fairness and ENABLED that the prover does
not do.

## 5. Not modelled

* The benchmark and chronosx libraries: their calls succeed or fail.
* What main releases after a refused command line or an evaluation, where no thread exists.
* `ThreadBorn` increments `num_threads_alive` and unlocks in one step, although `thpool_init`
  polls the counter without the lock; nothing depends on the order of the two. In
  `ChronosServer` the listener's `thpool_init` always returns: that it spins when a thread
  cannot be created is in `ThreadPool`.
* Logging, the text of the statistics file, the bytes of a request, `SIGPIPE`.
* The Litmus RT calls: they restrict the order in which threads run, and the models
  allow every order.
* Allocation failures in the constructors of queues, statistics and admission control:
  main ends before a thread exists. The destructors of the pool and of main's data are
  modelled, those of the smaller structures are part of main's release.
* `p_ext`, `in_period_ds`, the slack and delay sums and the counters of refreshes: they
  are computed and printed, and nothing else reads them.
* The test program of the repository, `tests/test_aup.c`.

## 6. Plan

1. Done: all components but Litmus RT modelled; every safety invariant of the runs and
   all refinements proved.
2. Left: safety facts behind the liveness properties that can be proved without
   fairness (who waits for whom, and what every waiter's wake-up depends on), and weaker
   guarantees for several processing threads where the single-thread ones fail.
