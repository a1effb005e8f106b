------------------------------- MODULE Sampling -------------------------------
(***************************************************************************)
(* stats.c, performance_monitor.c and the end of a round of processThread: *)
(* every processing thread counts its own transactions and, once per       *)
(* sampling period of its own, adds up the counters of all threads, moves  *)
(* a ring of samples on, computes the overload degree, adjusts the         *)
(* admission delay and writes a row of statistics.  There is no lock.      *)
(*                                                                         *)
(* Degrees are integers in units of 1/Scale.  Refreshes, delay and slack,  *)
(* which are only added up and stored, are left out.                       *)
(***************************************************************************)
EXTENDS Integers, Sequences

CONSTANTS
  NumThreads,           \* numServerThreads
  NumTypes,             \* CHRONOS_TXN_TYPES - 1: 4 types of user transactions
  Slots,                \* CHRONOS_SAMPLING_SLOTS
  desiredDelayBoundMS,  \* also the deadline of a timely transaction
  Durations,            \* durations of transactions, in ms
  MaxXacts              \* bound: transactions that are counted

ASSUME SamplingAssumption ==
  /\ NumThreads \in Nat
  /\ NumTypes \in 1 .. 4
  /\ Slots \in Nat \ {0}
  /\ desiredDelayBoundMS \in Int
  /\ Durations \subseteq Nat
  /\ MaxXacts \in Nat

Threads   == 0 .. NumThreads - 1
Types     == 0 .. NumTypes - 1
SlotRange == 0 .. Slots - 1

VARIABLES
  pc,                             \* per thread: where it is
  duration, timely, total,        \* per thread and type: the cumulative counters
  xact,                           \* per thread: the transaction it is counting
  xacts,                          \* number of transactions so far
  due,                            \* threads whose sampling period is over
  sum,                            \* per thread: what it has added up so far
  slot,                           \* per thread: the local sample_num
  sample_num,
  ring,                           \* per slot: the fields of chronosServerStats_t
  smoth_degree_timing_violation,
  inter_xact_sleep_ms,
  reads                           \* history, per thread: the last totals it added up

counters == <<duration, timely, total, xact, xacts>>
sampler  == <<sum, slot>>
shared   == <<sample_num, ring>>
degree   == <<smoth_degree_timing_violation, inter_xact_sleep_ms>>
vars     == <<pc, counters, due, sampler, shared, degree, reads>>

Scale     == 10000
Threshold == Scale \div 1000

NoXact == [type |-> 0, ms |-> 0, ok |-> FALSE]
NoSum  == [next |-> 0, type |-> 0, timely |-> 0, total |-> 0, duration |-> 0]
NoSlot == [history |-> 0, timely |-> 0, duration |-> 0, tpm |-> 0, ttpm |-> 0,
           count_in_period |-> 0, duration_in_period |-> 0]

Goto(t, l) == pc' = [pc EXCEPT ![t] = l]

Init ==
  /\ pc = [t \in Threads |-> "round"]
  /\ duration = [t \in Threads |-> [k \in Types |-> 0]]
  /\ timely = [t \in Threads |-> [k \in Types |-> 0]]
  /\ total = [t \in Threads |-> [k \in Types |-> 0]]
  /\ xact = [t \in Threads |-> NoXact]
  /\ xacts = 0
  /\ due = {}
  /\ sum = [t \in Threads |-> NoSum]
  /\ slot = [t \in Threads |-> 0]
  /\ sample_num = 0
  /\ ring = [s \in SlotRange |-> NoSlot]
  /\ smoth_degree_timing_violation = 0
  /\ inter_xact_sleep_ms = 0
  /\ reads = [t \in Threads |-> [i \in 1 .. Slots + 1 |-> 0]]

-----------------------------------------------------------------------------
(* update_thread_stats, at the end of a user transaction after the warm-up *)

\* The duration is added first...
AddDuration(t, type, ms, ok) ==
  /\ pc[t] = "round"
  /\ xacts < MaxXacts
  /\ xacts' = xacts + 1
  /\ duration' = [duration EXCEPT ![t][type] = @ + ms]
  /\ xact' = [xact EXCEPT ![t] = [type |-> type, ms |-> ms, ok |-> ok]]
  /\ Goto(t, "timely")
  /\ UNCHANGED <<timely, total, due, sampler, shared, degree, reads>>

\* ... then the transaction is counted as timely if it succeeded in time...
AddTimely(t) ==
  /\ pc[t] = "timely"
  /\ timely' = [timely EXCEPT ![t][xact[t].type] =
                  IF xact[t].ok /\ xact[t].ms < desiredDelayBoundMS THEN @ + 1 ELSE @]
  /\ Goto(t, "total")
  /\ UNCHANGED <<duration, total, xact, xacts, due, sampler, shared, degree, reads>>

\* ... and last as a success or a failure; only the sum of the two is used.
AddTotal(t) ==
  /\ pc[t] = "total"
  /\ total' = [total EXCEPT ![t][xact[t].type] = @ + 1]
  /\ xact' = [xact EXCEPT ![t] = NoXact]
  /\ Goto(t, "round")
  /\ UNCHANGED <<duration, timely, xacts, due, sampler, shared, degree, reads>>

-----------------------------------------------------------------------------
(* aggregate_thread_stats *)

\* The period of a thread is over: elapsed_since_last_sample_ms is large enough.
Period(t) ==
  /\ t \notin due
  /\ due' = due \cup {t}
  /\ UNCHANGED <<pc, counters, sampler, shared, degree, reads>>

AggregateStart(t) ==
  /\ pc[t] = "round"
  /\ t \in due
  /\ Goto(t, "readTimely")
  /\ UNCHANGED <<counters, due, sampler, shared, degree, reads>>

\* For every thread and every type the counters are read one after the other...
ReadTimely(t) ==
  /\ pc[t] = "readTimely"
  /\ sum' = [sum EXCEPT ![t].timely = @ + timely[sum[t].next][sum[t].type]]
  /\ Goto(t, "readTotal")
  /\ UNCHANGED <<counters, due, slot, shared, degree, reads>>

ReadTotal(t) ==
  /\ pc[t] = "readTotal"
  /\ sum' = [sum EXCEPT ![t].total = @ + total[sum[t].next][sum[t].type]]
  /\ Goto(t, "readDuration")
  /\ UNCHANGED <<counters, due, slot, shared, degree, reads>>

ReadDuration(t) ==
  /\ pc[t] = "readDuration"
  /\ LET now       == sum[t]
         more      == now.type + 1 < NumTypes
         added == now.duration + duration[now.next][now.type] IN
       /\ sum' = [sum EXCEPT ![t] =
                    IF more THEN [now EXCEPT !.duration = added, !.type = @ + 1]
                    ELSE [now EXCEPT !.duration = added, !.type = 0, !.next = @ + 1]]
       /\ Goto(t, IF more \/ now.next + 1 < NumThreads THEN "readTimely" ELSE "advance")
  /\ UNCHANGED <<counters, due, slot, shared, degree, reads>>

\* Faulty variant: the ring index does not wrap around.
Advance_NoWrap(t) ==
  /\ pc[t] = "advance"
  /\ slot' = [slot EXCEPT ![t] = sample_num + 1]
  /\ Goto(t, "assign")
  /\ UNCHANGED <<counters, due, sum, shared, degree, reads>>

\* sample_num is read and moved on...
Advance(t) ==
  /\ pc[t] = "advance"
  /\ slot' = [slot EXCEPT ![t] = (sample_num + 1) % Slots]
  /\ Goto(t, "assign")
  /\ UNCHANGED <<counters, due, sum, shared, degree, reads>>

\* ... written, by a second step another thread can come between...
Assign(t) ==
  /\ pc[t] = "assign"
  /\ sample_num' = slot[t]
  /\ Goto(t, "store")
  /\ UNCHANGED <<counters, due, sampler, ring, degree, reads>>

\* Faulty variant: the per-minute counts are taken after the slot is overwritten.
Store_OldLost(t) ==
  /\ pc[t] = "store"
  /\ LET n    == sample_num
         prev == ring[(n + Slots - 1) % Slots] IN
       /\ slot' = [slot EXCEPT ![t] = n]
       /\ ring' = [ring EXCEPT ![n] =
                     [history |-> sum[t].total, timely |-> sum[t].timely,
                      duration |-> sum[t].duration, tpm |-> 0, ttpm |-> 0,
                      count_in_period |-> sum[t].total - prev.history,
                      duration_in_period |-> sum[t].duration - prev.duration]]
  /\ reads' = [reads EXCEPT ![t] = Append(Tail(@), sum[t].total)]
  /\ Goto(t, "monitor")
  /\ UNCHANGED <<counters, due, sum, sample_num, degree>>

\* Faulty variant: the counters of a period are taken against the slot itself.
Store_OwnSlot(t) ==
  /\ pc[t] = "store"
  /\ LET n == sample_num IN
       /\ slot' = [slot EXCEPT ![t] = n]
       /\ ring' = [ring EXCEPT ![n] =
                     [history |-> sum[t].total, timely |-> sum[t].timely,
                      duration |-> sum[t].duration, tpm |-> sum[t].total - @.history,
                      ttpm |-> sum[t].timely - @.timely,
                      count_in_period |-> sum[t].total - @.history,
                      duration_in_period |-> sum[t].duration - @.duration]]
  /\ reads' = [reads EXCEPT ![t] = Append(Tail(@), sum[t].total)]
  /\ Goto(t, "monitor")
  /\ UNCHANGED <<counters, due, sum, sample_num, degree>>

\* ... and read once more: the slot it names now is overwritten.
Store(t) ==
  /\ pc[t] = "store"
  /\ LET n    == sample_num
         prev == ring[(n + Slots - 1) % Slots] IN
       /\ slot' = [slot EXCEPT ![t] = n]
       /\ ring' = [ring EXCEPT ![n] =
                     [history |-> sum[t].total, timely |-> sum[t].timely,
                      duration |-> sum[t].duration, tpm |-> sum[t].total - @.history,
                      ttpm |-> sum[t].timely - @.timely,
                      count_in_period |-> sum[t].total - prev.history,
                      duration_in_period |-> sum[t].duration - prev.duration]]
  /\ reads' = [reads EXCEPT ![t] = Append(Tail(@), sum[t].total)]
  /\ Goto(t, "monitor")
  /\ UNCHANGED <<counters, due, sum, sample_num, degree>>

-----------------------------------------------------------------------------
(* performanceMonitor and stats_print, which go by the shared sample_num *)

\* The last_user_xacts_..._get functions: the slot sample_num names now.
Last == ring[sample_num]

\* pm_average_service_delay and pm_overload_degree: how far the mean duration
\* exceeds the bound, relative to the bound.
OverloadDegree(ms, count) ==
  IF count > 0 /\ desiredDelayBoundMS > 0 /\ ms > count * desiredDelayBoundMS
  THEN (Scale * (ms - count * desiredDelayBoundMS)) \div (count * desiredDelayBoundMS)
  ELSE 0

\* pm_smoothed_overload_degree with CHRONOS_ALPHA = 0.6.
Smoothed(current, previous) == (6 * current + 4 * previous) \div 10

MonitorDegree(t) ==
  /\ pc[t] = "monitor"
  /\ smoth_degree_timing_violation' =
       Smoothed(OverloadDegree(Last.duration_in_period, Last.count_in_period),
                smoth_degree_timing_violation)
  /\ Goto(t, "delay")
  /\ UNCHANGED <<counters, due, sampler, shared, inter_xact_sleep_ms, reads>>

\* Faulty variant: the delay is never shortened.
MonitorDelay_NeverShorter(t) ==
  /\ pc[t] = "delay"
  /\ inter_xact_sleep_ms' =
       IF smoth_degree_timing_violation > Threshold THEN inter_xact_sleep_ms + 1
       ELSE inter_xact_sleep_ms
  /\ Goto(t, "print")
  /\ UNCHANGED <<counters, due, sampler, shared, smoth_degree_timing_violation, reads>>

\* One millisecond more in an overloaded period, else one less, down to 1.
MonitorDelay(t) ==
  /\ pc[t] = "delay"
  /\ inter_xact_sleep_ms' =
       IF smoth_degree_timing_violation > Threshold THEN inter_xact_sleep_ms + 1
       ELSE IF inter_xact_sleep_ms > 1 THEN inter_xact_sleep_ms - 1
       ELSE inter_xact_sleep_ms
  /\ Goto(t, "print")
  /\ UNCHANGED <<counters, due, sampler, shared, smoth_degree_timing_violation, reads>>

\* stats_print, then previous_sample = current_time; the locals are gone.
StatsPrint(t) ==
  /\ pc[t] = "print"
  /\ due' = due \ {t}
  /\ sum' = [sum EXCEPT ![t] = NoSum]
  /\ slot' = [slot EXCEPT ![t] = 0]
  /\ Goto(t, "round")
  /\ UNCHANGED <<counters, shared, degree, reads>>

-----------------------------------------------------------------------------
ThreadStep(t) ==
  \/ AddTimely(t) \/ AddTotal(t)
  \/ AggregateStart(t) \/ ReadTimely(t) \/ ReadTotal(t) \/ ReadDuration(t)
  \/ Advance(t) \/ Assign(t) \/ Store(t)
  \/ MonitorDegree(t) \/ MonitorDelay(t) \/ StatsPrint(t)

Next ==
  \E t \in Threads :
    \/ ThreadStep(t)
    \/ Period(t)
    \/ \E type \in Types, ms \in Durations, ok \in BOOLEAN : AddDuration(t, type, ms, ok)

Spec == Init /\ [][Next]_vars

\* Time passes and every thread comes to the end of its rounds.
FairSpec == Spec /\ \A t \in Threads : WF_vars(ThreadStep(t)) /\ WF_vars(Period(t))

-----------------------------------------------------------------------------
\* Type correctness: no counter of the ring is negative while one thread samples.
TypeOK ==
  /\ pc \in [Threads -> {"round", "timely", "total", "readTimely", "readTotal",
                         "readDuration", "advance", "assign", "store", "monitor", "delay", "print"}]
  /\ duration \in [Threads -> [Types -> Nat]]
  /\ timely \in [Threads -> [Types -> 0 .. MaxXacts]]
  /\ total \in [Threads -> [Types -> 0 .. MaxXacts]]
  /\ due \subseteq Threads
  /\ sample_num \in SlotRange
  /\ slot \in [Threads -> SlotRange]
  /\ ring \in [SlotRange -> [history : 0 .. MaxXacts, timely : 0 .. MaxXacts, duration : Nat,
                            tpm : 0 .. MaxXacts, ttpm : 0 .. MaxXacts,
                            count_in_period : 0 .. MaxXacts, duration_in_period : Nat]]
  /\ smoth_degree_timing_violation \in Nat
  /\ inter_xact_sleep_ms \in Nat

(***************************************************************************)
(* "So, total_user_xacts - old_count is the number of transactions         *)
(* executed in the last minute": the sample of a thread counts what has    *)
(* been executed since its sample CHRONOS_SAMPLING_SLOTS = 2 periods ago.  *)
(***************************************************************************)
MinuteCounts ==
  \A t \in Threads : pc[t] = "print" =>
    ring[slot[t]].tpm = reads[t][Slots + 1] - reads[t][1]

(***************************************************************************)
(* The rows of the statistics file add up while one thread samples: the    *)
(* count in the row it writes starts where its last row ended, so that     *)
(* every transaction is reported exactly once.                             *)
(***************************************************************************)
RowsAddUp ==
  \A t \in Threads : pc[t] = "print" =>
    Last.count_in_period = reads[t][Slots + 1] - reads[t][Slots]

(***************************************************************************)
(* The sums are read without a lock while other threads count.  Because    *)
(* timely is incremented before and read before the total, the sums can    *)
(* differ from a consistent state by at most one transaction per type of   *)
(* every other thread, each caught between its two increments: the share   *)
(* of timely transactions is not inflated further.                         *)
(***************************************************************************)
TimelyBounded ==
  \A t \in Threads : pc[t] = "advance" =>
    sum[t].timely <= sum[t].total + NumTypes * (NumThreads - 1)

(***************************************************************************)
(* The admission delay grows by 1 ms per overloaded period without a       *)
(* bound; once transactions are no longer late it falls back to 1 ms.      *)
(***************************************************************************)
DelayRecovers == <>[](inter_xact_sleep_ms <= 1)
=============================================================================
