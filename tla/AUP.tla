--------------------------------- MODULE AUP ---------------------------------
(***************************************************************************)
(* aup.c and the update threads that use it (mode aup): every data item    *)
(* has a flexible validity interval and a time for its next update.  An    *)
(* update thread polls its chunk of items and requests the refresh of      *)
(* those that are due; the adaptive update policy relaxes the intervals of *)
(* cold items under overload.  Relaxation and polling run in different     *)
(* threads without a lock, so one item is relaxed per step.                *)
(*                                                                         *)
(* Times are in milliseconds.  The clock is kept relative: time to the     *)
(* next update, age of the last request, time since a thread polled.  Time *)
(* passes between any two steps of an update thread: sleeps may be longer  *)
(* than asked for, and an enqueue blocks while the queue is full.          *)
(* Intervals are floats in the code and truncated to milliseconds here.    *)
(***************************************************************************)
EXTENDS Integers, FiniteSets

CONSTANTS
  NumItems,          \* num_elements of the environment
  NumUpdaters,       \* numUpdateThreads
  PerUpdater,        \* numUpdatesPerUpdateThread
  AVI,               \* absolute_validity_interval, initialValidityIntervalMS
  BetaNum, BetaDen,  \* beta = BetaNum / BetaDen
  PollPeriod,        \* sleep of an update thread between two polls
  MaxFrequency,      \* bound: accesses and updates counted between two resets
  MaxCycle           \* bound: time between two polls of an update thread

(***************************************************************************)
(* alloc asserts that the three parameters are positive.  The chunks lie   *)
(* within the items: chronosCacheSymbolsRangeSet refuses other ones.       *)
(***************************************************************************)
ASSUME AUPAssumption ==
  /\ NumItems \in Nat \ {0}
  /\ NumUpdaters \in Nat
  /\ PerUpdater \in Nat \ {0}
  /\ NumUpdaters * PerUpdater <= NumItems
  /\ AVI \in Nat \ {0}
  /\ BetaNum \in Nat \ {0}
  /\ BetaDen \in Nat \ {0}
  /\ PollPeriod \in Nat \ {0}
  /\ MaxFrequency \in Nat
  /\ MaxCycle \in Nat

Items    == 0 .. NumItems - 1
Updaters == 0 .. NumUpdaters - 1

\* The items of update thread u, from first_symbol on.
Chunk(u) == {i \in Items : u * PerUpdater <= i /\ i < (u + 1) * PerUpdater}

VARIABLES
  flexible_validity_interval,          \* per item
  access_frequency, update_frequency,  \* per item, since the last reset
  wait,                                \* per item: ms until time_to_next_update, 0 if past
  age,                                 \* per item: ms since its refresh was last requested
  at,                                  \* per update thread: where it is
  update_list,                         \* per update thread: the expired items of this cycle
  asleep,                              \* per update thread: ms that it still has to sleep
  cycle, previous,                     \* history, per update thread: ms since it polled, and
                                       \* ms from the poll before to that one
  time_to_die,
  pos,                                 \* i of the loop in chronos_aup_relax; -1: not in it
  relax_num_target,                    \* what is left of the budget
  pass                                 \* history: intervals and budget when the loop began

fvi         == flexible_validity_interval
frequencies == <<access_frequency, update_frequency>>
clock       == <<wait, age, asleep, cycle, previous>>
updating    == <<clock, at, update_list, time_to_die>>
relaxing    == <<pos, relax_num_target, pass>>
vars        == <<flexible_validity_interval, frequencies, updating, relaxing>>

\* chronos_aup_env_alloc; time_to_next_update is 0, so that every item is due.
Init ==
  /\ flexible_validity_interval = [i \in Items |-> AVI]
  /\ access_frequency = [i \in Items |-> 0]
  /\ update_frequency = [i \in Items |-> 0]
  /\ wait = [i \in Items |-> 0]
  /\ age = [i \in Items |-> 0]
  /\ at = [u \in Updaters |-> "start"]
  /\ update_list = [u \in Updaters |-> {}]
  /\ asleep = [u \in Updaters |-> 0]
  /\ cycle = [u \in Updaters |-> 0]
  /\ previous = [u \in Updaters |-> 0]
  /\ time_to_die = FALSE
  /\ pos = -1
  /\ relax_num_target = 0
  /\ pass = [fvi |-> flexible_validity_interval, target |-> 0]

-----------------------------------------------------------------------------
(* The processing thread: transactions, then adaptive_update_policy *)

Idle == pos = -1

\* chronos_aup_af_incr, for every item of a View-Stock transaction.
AfIncr(i) ==
  /\ Idle
  /\ access_frequency[i] < MaxFrequency
  /\ access_frequency' = [access_frequency EXCEPT ![i] = @ + 1]
  /\ UNCHANGED <<flexible_validity_interval, update_frequency, updating, relaxing>>

\* chronos_aup_uf_incr, for every item of a refresh transaction.
UfIncr(i) ==
  /\ Idle
  /\ update_frequency[i] < MaxFrequency
  /\ update_frequency' = [update_frequency EXCEPT ![i] = @ + 1]
  /\ UNCHANGED <<flexible_validity_interval, access_frequency, updating, relaxing>>

\* Faulty variant: the budget is not limited to the number of items.
RelaxStart_NoMin(wanted) ==
  /\ Idle
  /\ pos' = 0
  /\ relax_num_target' = wanted
  /\ pass' = [fvi |-> flexible_validity_interval, target |-> wanted]
  /\ UNCHANGED <<flexible_validity_interval, frequencies, updating>>

\* chronos_aup_relax: the budget is MIN(num_elements, ds_k * num_elements);
\* wanted is the second of the two.
RelaxStart(wanted) ==
  LET target == IF NumItems < wanted THEN NumItems ELSE wanted IN
    /\ Idle
    /\ pos' = 0
    /\ relax_num_target' = target
    /\ pass' = [fvi |-> flexible_validity_interval, target |-> target]
    /\ UNCHANGED <<flexible_validity_interval, frequencies, updating>>

InLoop == pos \in Items /\ relax_num_target > 0

Cold(i) == access_frequency[i] < update_frequency[i]

\* AUR >= 1: don't do anything.
RelaxSkip ==
  /\ InLoop
  /\ ~Cold(pos)
  /\ pos' = pos + 1
  /\ UNCHANGED <<flexible_validity_interval, frequencies, updating, relax_num_target, pass>>

Longer(x) == (11 * x) \div 10

InRange(x) == AVI <= x /\ BetaDen * x <= BetaNum * AVI

\* Faulty variant: the budget is spent only on items that are really relaxed.
RelaxItem_FreeOfCharge ==
  /\ InLoop
  /\ Cold(pos)
  /\ LET tmp == Longer(fvi[pos]) IN
       /\ flexible_validity_interval' =
            [flexible_validity_interval EXCEPT ![pos] = IF InRange(tmp) THEN tmp ELSE @]
       /\ relax_num_target' = IF InRange(tmp) THEN relax_num_target - 1 ELSE relax_num_target
  /\ pos' = pos + 1
  /\ UNCHANGED <<frequencies, updating, pass>>

\* AUR < 1: relax, up to beta * avi; the budget is spent in any case.
RelaxItem ==
  /\ InLoop
  /\ Cold(pos)
  /\ LET tmp == Longer(fvi[pos]) IN
       flexible_validity_interval' =
         [flexible_validity_interval EXCEPT ![pos] = IF InRange(tmp) THEN tmp ELSE @]
  /\ relax_num_target' = relax_num_target - 1
  /\ pos' = pos + 1
  /\ UNCHANGED <<frequencies, updating, pass>>

LoopEnded == ~Idle /\ ~InLoop

\* The loop is over; chronos_aup_reset_all.
RelaxEnd ==
  /\ LoopEnded
  /\ pos' = -1
  /\ relax_num_target' = 0
  /\ access_frequency' = [i \in Items |-> 0]
  /\ update_frequency' = [i \in Items |-> 0]
  /\ pass' = [fvi |-> flexible_validity_interval, target |-> 0]
  /\ UNCHANGED <<flexible_validity_interval, updating>>

-----------------------------------------------------------------------------
(* The update threads *)

Goto(u, l) == at' = [at EXCEPT ![u] = l]

policy == <<flexible_validity_interval, frequencies, relaxing>>

\* chronos_aup_get_n_expired: the chunk is as long as the array it fills.
Expired(u) == {i \in Chunk(u) : wait[i] = 0}

\* milliSleep after a cycle that is complete or had nothing to do.
Sleep(u) ==
  /\ asleep' = [asleep EXCEPT ![u] = PollPeriod]
  /\ Goto(u, "sleep")

\* A new cycle, after the warm-up or after a sleep that time_to_die did not end.
Poll(u) ==
  /\ \/ at[u] = "start"
     \/ at[u] = "sleep" /\ asleep[u] = 0 /\ ~time_to_die
  /\ update_list' = [update_list EXCEPT ![u] = Expired(u)]
  /\ previous' = [previous EXCEPT ![u] = cycle[u]]
  /\ cycle' = [cycle EXCEPT ![u] = 0]
  /\ IF Expired(u) = {} THEN Sleep(u) ELSE Goto(u, "create") /\ UNCHANGED asleep
  /\ UNCHANGED <<policy, wait, age, time_to_die>>

\* chronos_aup_next_update_set: the next update is half an interval away.
NextUpdateSet(items) ==
  wait' = [i \in Items |-> IF i \in items THEN fvi[i] \div 2 ELSE wait[i]]

\* The request is created or is NULL; its items are put off before this is
\* tested.
PutOff(u, created) ==
  /\ at[u] = "create"
  /\ NextUpdateSet(update_list[u])
  /\ Goto(u, IF created THEN "enqueue" ELSE "left")
  /\ UNCHANGED <<policy, age, asleep, cycle, previous, update_list, time_to_die>>

\* The request is in the queue, once there is room for it.
Enqueue(u) ==
  /\ at[u] = "enqueue"
  /\ age' = [i \in Items |-> IF i \in update_list[u] THEN 0 ELSE age[i]]
  /\ update_list' = [update_list EXCEPT ![u] = {}]
  /\ Goto(u, "free")
  /\ UNCHANGED <<policy, wait, asleep, cycle, previous, time_to_die>>

\* Faulty variant: the timed wait for room gives up at its first timeout, and
\* the thread goes on without its request.
EnqueueFails_GoesOn(u) ==
  /\ at[u] = "enqueue"
  /\ update_list' = [update_list EXCEPT ![u] = {}]
  /\ Sleep(u)
  /\ UNCHANGED <<policy, wait, age, cycle, previous, time_to_die>>

\* "Failed to enqueue request": there was no room, and time_to_die was seen
\* after a timed wait.  The thread leaves.
EnqueueFails(u) ==
  /\ at[u] = "enqueue"
  /\ time_to_die
  /\ Goto(u, "left")
  /\ UNCHANGED <<policy, clock, update_list, time_to_die>>

\* chronosRequestFree.
FreeRequest(u) ==
  /\ at[u] = "free"
  /\ Sleep(u)
  /\ UNCHANGED <<policy, wait, age, cycle, previous, update_list, time_to_die>>

FreeRequestFails(u) ==
  /\ at[u] = "free"
  /\ Goto(u, "left")
  /\ UNCHANGED <<policy, clock, update_list, time_to_die>>

\* "Requested to die", which is tested after the sleep.
Leave(u) ==
  /\ at[u] = "sleep"
  /\ asleep[u] = 0
  /\ time_to_die
  /\ Goto(u, "left")
  /\ UNCHANGED <<policy, clock, update_list, time_to_die>>

\* A processing thread ends the experiment.
Die ==
  /\ ~time_to_die
  /\ time_to_die' = TRUE
  /\ UNCHANGED <<policy, clock, at, update_list>>

\* A millisecond passes, wherever the threads are.
Tick ==
  /\ \A u \in Updaters : cycle[u] < MaxCycle
  /\ age' = [i \in Items |-> age[i] + 1]
  /\ wait' = [i \in Items |-> IF wait[i] > 0 THEN wait[i] - 1 ELSE 0]
  /\ asleep' = [u \in Updaters |-> IF asleep[u] > 0 THEN asleep[u] - 1 ELSE 0]
  /\ cycle' = [u \in Updaters |-> cycle[u] + 1]
  /\ UNCHANGED <<policy, previous, at, update_list, time_to_die>>

-----------------------------------------------------------------------------
\* Bound: degrees of timing violation of more than 1 are all alike.
MaxWanted == NumItems + 1

UpdaterStep(u) ==
  \/ Poll(u)
  \/ \E created \in BOOLEAN : PutOff(u, created)
  \/ Enqueue(u) \/ EnqueueFails(u)
  \/ FreeRequest(u) \/ FreeRequestFails(u)
  \/ Leave(u)

Next ==
  \/ \E i \in Items : AfIncr(i) \/ UfIncr(i)
  \/ \E wanted \in 0 .. MaxWanted : RelaxStart(wanted)
  \/ RelaxSkip \/ RelaxItem \/ RelaxEnd
  \/ \E u \in Updaters : UpdaterStep(u)
  \/ Die \/ Tick

Spec == Init /\ [][Next]_vars

-----------------------------------------------------------------------------
\* Type correctness; the budget of a pass never exceeds the number of items.
TypeOK ==
  /\ flexible_validity_interval \in [Items -> Nat]
  /\ access_frequency \in [Items -> 0 .. MaxFrequency]
  /\ update_frequency \in [Items -> 0 .. MaxFrequency]
  /\ wait \in [Items -> Nat]
  /\ age \in [Items -> Nat]
  /\ at \in [Updaters -> {"start", "create", "enqueue", "free", "sleep", "left"}]
  /\ update_list \in [Updaters -> SUBSET Items]
  /\ asleep \in [Updaters -> 0 .. PollPeriod]
  /\ cycle \in [Updaters -> 0 .. MaxCycle]
  /\ previous \in [Updaters -> 0 .. MaxCycle]
  /\ time_to_die \in BOOLEAN
  /\ pos \in -1 .. NumItems
  /\ relax_num_target \in 0 .. NumItems
  /\ pass \in [fvi : [Items -> Nat], target : 0 .. NumItems]

(***************************************************************************)
(* chronos_aup_next_update_set puts an item off before its request is in   *)
(* the queue, and the enqueue may block, fail or come much later.  Still   *)
(* no item is forgotten: its last request is no older than half its        *)
(* interval, which may be relaxed at any time, plus the last two cycles of *)
(* its update thread, however long these took.  After the thread has left  *)
(* the cycle does not end, and the bound grows with it.                    *)
(***************************************************************************)
NotForgotten ==
  \A u \in Updaters : \A i \in Chunk(u) :
    age[i] <= (fvi[i] \div 2) + cycle[u] + previous[u]

ColdBefore(i) == {j \in Items : j < i /\ Cold(j)}

(***************************************************************************)
(* "The relaxation is performed only on the first relax_num_target cold    *)
(* data items": whatever the updaters do during a pass of                  *)
(* chronos_aup_relax, it has relaxed exactly those items, once each; a     *)
(* cold item at its bound counts as one of them.                           *)
(***************************************************************************)
FirstColdRelaxed ==
  LoopEnded =>
    \A i \in Items :
      fvi[i] = IF Cold(i) /\ Cardinality(ColdBefore(i)) < pass.target
                  /\ InRange(Longer(pass.fvi[i]))
               THEN Longer(pass.fvi[i]) ELSE pass.fvi[i]
=============================================================================
