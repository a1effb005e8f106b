------------------------------ MODULE AUPProofs ------------------------------
(***************************************************************************)
(* Proofs about AUP, for every number of items and update threads, every   *)
(* interval, bound and polling period.                                     *)
(***************************************************************************)
EXTENDS AUP, FiniteSetTheorems, TLAPS

-----------------------------------------------------------------------------
(* Arithmetic *)

\* Relaxing never shortens an interval.
LEMMA LongerGrows ==
  ASSUME NEW x \in Nat
  PROVE  Longer(x) \in Nat /\ x <= Longer(x)
BY Z3 DEF Longer

LEMMA HalfGrows ==
  ASSUME NEW x \in Nat, NEW y \in Nat, x <= y
  PROVE  x \div 2 \in Nat /\ x \div 2 <= y \div 2
BY Z3

\* No item belongs to two update threads.
LEMMA ChunksDisjoint ==
  ASSUME NEW u \in Updaters, NEW v \in Updaters, u # v, NEW i \in Chunk(u)
  PROVE  i \notin Chunk(v)
<1> USE AUPAssumption
<1>1. ASSUME NEW a \in Nat, NEW b \in Nat, a < b PROVE (a + 1) * PerUpdater <= b * PerUpdater
  <2>1. b * PerUpdater = (a + 1) * PerUpdater + (b - (a + 1)) * PerUpdater
    BY <1>1, Z3
  <2>2. (b - (a + 1)) * PerUpdater >= 0
    BY <1>1, Z3
  <2>3. (a + 1) * PerUpdater \in Int /\ (b - (a + 1)) * PerUpdater \in Int
    BY <1>1, Z3
  <2> QED
    BY <2>1, <2>2, <2>3
<1>2. u \in Nat /\ v \in Nat /\ (u < v \/ v < u)
  BY DEF Updaters
<1>3. i \in Int /\ u * PerUpdater <= i /\ i < (u + 1) * PerUpdater
  BY DEF Chunk, Items
<1>4. /\ u * PerUpdater \in Int /\ (u + 1) * PerUpdater \in Int
      /\ v * PerUpdater \in Int /\ (v + 1) * PerUpdater \in Int
  BY <1>2, Z3
<1>5. u < v => (u + 1) * PerUpdater <= v * PerUpdater
  BY <1>1, <1>2
<1>6. v < u => (v + 1) * PerUpdater <= u * PerUpdater
  BY <1>1, <1>2
<1>7. ~(v * PerUpdater <= i /\ i < (v + 1) * PerUpdater)
  BY <1>2, <1>3, <1>4, <1>5, <1>6
<1> QED
  BY <1>7 DEF Chunk

-----------------------------------------------------------------------------
(* Types *)

LEMMA TypesInit == Init => TypeOK
<1> SUFFICES ASSUME Init PROVE TypeOK
  OBVIOUS
<1> USE AUPAssumption
<1>1. /\ flexible_validity_interval \in [Items -> Nat]
      /\ access_frequency \in [Items -> 0 .. MaxFrequency]
      /\ update_frequency \in [Items -> 0 .. MaxFrequency]
      /\ wait \in [Items -> Nat] /\ age \in [Items -> Nat]
      /\ pos \in -1 .. NumItems /\ relax_num_target \in 0 .. NumItems
  BY DEF Init
<1>2. pass \in [fvi : [Items -> Nat], target : 0 .. NumItems]
  BY <1>1 DEF Init
<1>3. /\ at \in [Updaters -> {"start", "create", "enqueue", "free", "sleep", "left"}]
      /\ asleep \in [Updaters -> 0 .. PollPeriod]
      /\ cycle \in [Updaters -> 0 .. MaxCycle] /\ previous \in [Updaters -> 0 .. MaxCycle]
  BY DEF Init
<1>4. time_to_die \in BOOLEAN
  BY DEF Init
<1>5. update_list \in [Updaters -> SUBSET Items]
  <2>1. {} \in SUBSET Items
    OBVIOUS
  <2> QED
    BY <2>1 DEF Init
<1> QED
  BY <1>1, <1>2, <1>3, <1>4, <1>5 DEF TypeOK

\* The steps of the update threads leave the policy alone.
LEMMA TypesUpdating ==
  ASSUME TypeOK, NEW u \in Updaters, UpdaterStep(u)
  PROVE  TypeOK'
<1> USE AUPAssumption
<1> DEFINE Policy ==
      /\ flexible_validity_interval' \in [Items -> Nat]
      /\ access_frequency' \in [Items -> 0 .. MaxFrequency]
      /\ update_frequency' \in [Items -> 0 .. MaxFrequency]
      /\ pos' \in -1 .. NumItems
      /\ relax_num_target' \in 0 .. NumItems
      /\ pass' \in [fvi : [Items -> Nat], target : 0 .. NumItems]
<1>1. ASSUME UNCHANGED policy PROVE Policy
  BY <1>1 DEF TypeOK, policy, frequencies, relaxing
<1>2. CASE Poll(u)
  <2>1. Policy
    BY <1>1, <1>2 DEF Poll
  <2>2. Expired(u) \in SUBSET Items
    BY DEF Expired, Chunk
  <2>3. at' \in [Updaters -> {"start", "create", "enqueue", "free", "sleep", "left"}]
        /\ asleep' \in [Updaters -> 0 .. PollPeriod]
    BY <1>2 DEF Poll, Sleep, Goto, TypeOK
  <2>4. /\ update_list' \in [Updaters -> SUBSET Items]
        /\ cycle' \in [Updaters -> 0 .. MaxCycle]
        /\ previous' \in [Updaters -> 0 .. MaxCycle]
        /\ UNCHANGED <<wait, age, time_to_die>>
    BY <1>2, <2>2 DEF Poll, TypeOK
  <2> QED
    BY <2>1, <2>3, <2>4 DEF TypeOK
<1>3. ASSUME NEW created \in BOOLEAN, PutOff(u, created) PROVE TypeOK'
  <2>1. Policy
    BY <1>1, <1>3 DEF PutOff
  <2>2. \A i \in Items : fvi[i] \div 2 \in Nat
    BY HalfGrows DEF TypeOK, fvi
  <2>3. wait' \in [Items -> Nat]
    BY <1>3, <2>2 DEF PutOff, NextUpdateSet, TypeOK
  <2>4. at' \in [Updaters -> {"start", "create", "enqueue", "free", "sleep", "left"}]
    BY <1>3 DEF PutOff, Goto, TypeOK
  <2> QED
    BY <1>3, <2>1, <2>3, <2>4 DEF PutOff, TypeOK
<1>4. CASE Enqueue(u)
  <2>1. Policy
    BY <1>1, <1>4 DEF Enqueue
  <2>2. age' \in [Items -> Nat] /\ update_list' \in [Updaters -> SUBSET Items]
    BY <1>4 DEF Enqueue, TypeOK
  <2> QED
    BY <1>4, <2>1, <2>2 DEF Enqueue, Goto, TypeOK
<1>5. CASE FreeRequest(u)
  <2>1. Policy
    BY <1>1, <1>5 DEF FreeRequest
  <2> QED
    BY <1>5, <2>1 DEF FreeRequest, Sleep, Goto, TypeOK
<1>6. CASE EnqueueFails(u) \/ FreeRequestFails(u) \/ Leave(u)
  <2>1. Policy
    BY <1>1, <1>6 DEF EnqueueFails, FreeRequestFails, Leave
  <2> QED
    BY <1>6, <2>1 DEF EnqueueFails, FreeRequestFails, Leave, Goto, TypeOK, clock
<1> QED
  BY <1>2, <1>3, <1>4, <1>5, <1>6 DEF UpdaterStep

LEMMA TypesStep == TypeOK /\ [Next]_vars => TypeOK'
<1> SUFFICES ASSUME TypeOK, [Next]_vars PROVE TypeOK'
  OBVIOUS
<1> USE AUPAssumption
<1>1. ASSUME NEW i \in Items, AfIncr(i) PROVE TypeOK'
  BY <1>1 DEF AfIncr, TypeOK, updating, clock, relaxing
<1>2. ASSUME NEW i \in Items, UfIncr(i) PROVE TypeOK'
  BY <1>2 DEF UfIncr, TypeOK, updating, clock, relaxing
<1>3. ASSUME NEW w \in 0 .. MaxWanted, RelaxStart(w) PROVE TypeOK'
  <2> DEFINE target == IF NumItems < w THEN NumItems ELSE w
  <2>1. target \in 0 .. NumItems
    BY DEF MaxWanted
  <2>2. UNCHANGED <<flexible_validity_interval, frequencies, updating>>
    BY <1>3 DEF RelaxStart
  <2>3. pos' = 0 /\ relax_num_target' = target
        /\ pass' = [fvi |-> flexible_validity_interval, target |-> target]
    BY <1>3 DEF RelaxStart
  <2> HIDE DEF target
  <2>4. pass' \in [fvi : [Items -> Nat], target : 0 .. NumItems]
    BY <2>1, <2>3 DEF TypeOK
  <2> QED
    BY <2>1, <2>2, <2>3, <2>4 DEF TypeOK, updating, clock, frequencies
<1>4. ASSUME RelaxSkip PROVE TypeOK'
  <2>1. pos' \in -1 .. NumItems
    BY <1>4 DEF RelaxSkip, InLoop, Items
  <2> QED
    BY <1>4, <2>1 DEF RelaxSkip, TypeOK, updating, clock, frequencies
<1>5. ASSUME RelaxItem PROVE TypeOK'
  <2>1. pos \in Items /\ fvi[pos] \in Nat /\ Longer(fvi[pos]) \in Nat
    BY <1>5, LongerGrows DEF RelaxItem, InLoop, TypeOK, fvi
  <2>2. pos' \in -1 .. NumItems /\ relax_num_target' \in 0 .. NumItems
    BY <1>5 DEF RelaxItem, InLoop, Items, TypeOK
  <2>3. flexible_validity_interval' \in [Items -> Nat]
    BY <1>5, <2>1 DEF RelaxItem, TypeOK, fvi
  <2> QED
    BY <1>5, <2>2, <2>3 DEF RelaxItem, TypeOK, updating, clock, frequencies
<1>6. ASSUME RelaxEnd PROVE TypeOK'
  <2>1. pass' \in [fvi : [Items -> Nat], target : 0 .. NumItems]
    BY <1>6 DEF RelaxEnd, TypeOK
  <2> QED
    BY <1>6, <2>1 DEF RelaxEnd, TypeOK, updating, clock
<1>7. ASSUME NEW u \in Updaters, UpdaterStep(u) PROVE TypeOK'
  BY <1>7, TypesUpdating
<1>8. ASSUME Die PROVE TypeOK'
  BY <1>8 DEF Die, TypeOK, policy, clock, relaxing, frequencies
<1>9. ASSUME Tick PROVE TypeOK'
  <2>1. /\ age' \in [Items -> Nat] /\ wait' \in [Items -> Nat]
        /\ asleep' \in [Updaters -> 0 .. PollPeriod]
    BY <1>9 DEF Tick, TypeOK
  <2>2. cycle' \in [Updaters -> 0 .. MaxCycle]
    BY <1>9 DEF Tick, TypeOK
  <2> QED
    BY <1>9, <2>1, <2>2 DEF Tick, TypeOK, policy, relaxing, frequencies
<1>10. ASSUME UNCHANGED vars PROVE TypeOK'
  BY <1>10 DEF vars, TypeOK, updating, clock, relaxing, frequencies
<1> QED
  BY <1>1, <1>2, <1>3, <1>4, <1>5, <1>6, <1>7, <1>8, <1>9, <1>10 DEF Next

\* The variables keep their types; in particular the budget of a pass never
\* exceeds the number of items.
THEOREM AUPTypeCorrect == Spec => []TypeOK
  BY TypesInit, TypesStep, PTL DEF Spec

-----------------------------------------------------------------------------
(* The requests *)

\* A thread has items in hand from its poll until they are in the queue, or
\* for ever if it left in between.
Lists ==
  \A u \in Updaters :
    /\ update_list[u] \subseteq Chunk(u)
    /\ at[u] \in {"start", "free", "sleep"} => update_list[u] = {}

\* Why NotForgotten holds.  An item that is not in hand became due at most a
\* cycle ago; one that is in hand was not due at the poll before the last.
Account(u, i) ==
  IF i \in update_list[u]
  THEN /\ age[i] <= (fvi[i] \div 2) + cycle[u] + previous[u]
       /\ at[u] = "enqueue" => wait[i] <= fvi[i] \div 2
  ELSE /\ age[i] <= (fvi[i] \div 2) + cycle[u]
       /\ wait[i] > 0 => age[i] + wait[i] <= fvi[i] \div 2

Accounts == Lists /\ \A u \in Updaters : \A i \in Chunk(u) : Account(u, i)

LEMMA AccountsInit == Init => Accounts
<1> SUFFICES ASSUME Init PROVE Accounts
  OBVIOUS
<1>1. Lists
  BY DEF Init, Lists
<1>2. ASSUME NEW u \in Updaters, NEW i \in Chunk(u) PROVE Account(u, i)
  <2>1. i \in Items
    BY DEF Chunk
  <2>2. AVI \div 2 \in Nat
    BY HalfGrows, AUPAssumption
  <2> QED
    BY <2>1, <2>2 DEF Init, Account, fvi
<1> QED
  BY <1>1, <1>2 DEF Accounts

LEMMA ListsStep == TypeOK /\ Lists /\ [Next]_vars => Lists'
<1> SUFFICES ASSUME TypeOK, Lists, [Next]_vars PROVE Lists'
  OBVIOUS
<1>1. ASSUME UNCHANGED <<at, update_list>> PROVE Lists'
  BY <1>1 DEF Lists, Chunk
<1>2. ASSUME NEW i \in Items, AfIncr(i) \/ UfIncr(i) PROVE Lists'
  BY <1>1, <1>2 DEF AfIncr, UfIncr, updating
<1>3. ASSUME NEW w \in 0 .. MaxWanted, RelaxStart(w) PROVE Lists'
  BY <1>1, <1>3 DEF RelaxStart, updating
<1>4. ASSUME RelaxSkip \/ RelaxItem \/ RelaxEnd PROVE Lists'
  BY <1>1, <1>4 DEF RelaxSkip, RelaxItem, RelaxEnd, updating
<1>5. ASSUME NEW v \in Updaters, UpdaterStep(v) PROVE Lists'
  <2> SUFFICES ASSUME NEW u \in Updaters
               PROVE  /\ update_list'[u] \subseteq Chunk(u)
                      /\ at'[u] \in {"start", "free", "sleep"} => update_list'[u] = {}
    BY DEF Lists, Chunk
  <2>1. CASE Poll(v)
    <3>1. Expired(v) \subseteq Chunk(v)
      BY DEF Expired
    <3> QED
      BY <2>1, <3>1 DEF Poll, Sleep, Goto, Lists, TypeOK
  <2>2. CASE \E created \in BOOLEAN : PutOff(v, created)
    BY <2>2 DEF PutOff, Goto, Lists, TypeOK
  <2>3. CASE Enqueue(v)
    BY <2>3 DEF Enqueue, Goto, Lists, TypeOK
  <2>4. CASE FreeRequest(v)
    BY <2>4 DEF FreeRequest, Sleep, Goto, Lists, TypeOK
  <2>5. CASE EnqueueFails(v) \/ FreeRequestFails(v) \/ Leave(v)
    BY <2>5 DEF EnqueueFails, FreeRequestFails, Leave, Goto, Lists, TypeOK
  <2> QED
    BY <1>5, <2>1, <2>2, <2>3, <2>4, <2>5 DEF UpdaterStep
<1>6. ASSUME Die \/ Tick \/ UNCHANGED vars PROVE Lists'
  BY <1>1, <1>6 DEF Die, Tick, vars, updating
<1> QED
  BY <1>2, <1>3, <1>4, <1>5, <1>6 DEF Next

\* A step of the thread of item i itself.
LEMMA AccountOwn ==
  ASSUME TypeOK, Lists, NEW u \in Updaters, NEW i \in Items, i \in Chunk(u), Account(u, i),
         UpdaterStep(u)
  PROVE  Account(u, i)'
<1> USE AUPAssumption
<1> DEFINE half == fvi[i] \div 2
<1>1. half \in Nat /\ age[i] \in Nat /\ wait[i] \in Nat /\ cycle[u] \in Nat /\ previous[u] \in Nat
  BY HalfGrows DEF TypeOK, fvi
<1>2. fvi' = fvi
  BY DEF UpdaterStep, Poll, PutOff, Enqueue, EnqueueFails, FreeRequest, FreeRequestFails, Leave,
         policy, fvi
<1> HIDE DEF half
<1>3. CASE Poll(u)
  <2>1. update_list[u] = {}
    BY <1>3 DEF Poll, Lists
  <2>2. age[i] <= half + cycle[u] /\ (wait[i] > 0 => age[i] + wait[i] <= half)
    BY <2>1 DEF Account, half
  <2>3. /\ age' = age /\ wait' = wait /\ cycle'[u] = 0 /\ previous'[u] = cycle[u]
        /\ update_list'[u] = Expired(u) /\ at'[u] # "enqueue"
    BY <1>3 DEF Poll, Sleep, Goto, TypeOK
  <2>4. i \in Expired(u) <=> wait[i] = 0
    BY DEF Expired
  <2>5. i \in Expired(u) => age[i] <= half + 0 + cycle[u]
    BY <1>1, <2>2
  <2>6. i \notin Expired(u) => age[i] <= half + 0 /\ (wait[i] > 0 => age[i] + wait[i] <= half)
    BY <1>1, <2>2, <2>4
  <2> QED
    BY <1>2, <2>3, <2>5, <2>6 DEF Account, half
<1>4. ASSUME NEW created \in BOOLEAN, PutOff(u, created) PROVE Account(u, i)'
  <2>1. /\ age' = age /\ cycle' = cycle /\ previous' = previous /\ update_list' = update_list
        /\ wait'[i] = IF i \in update_list[u] THEN half ELSE wait[i]
    BY <1>4 DEF PutOff, NextUpdateSet, half
  <2> QED
    BY <1>1, <1>2, <2>1 DEF Account, half
<1>5. CASE Enqueue(u)
  <2>1. /\ wait' = wait /\ cycle' = cycle /\ update_list'[u] = {}
        /\ age'[i] = IF i \in update_list[u] THEN 0 ELSE age[i]
        /\ at[u] = "enqueue"
    BY <1>5 DEF Enqueue, TypeOK
  <2>2. i \in update_list[u] => wait[i] <= half
    BY <2>1 DEF Account, half
  <2>3. i \notin update_list[u] => age[i] <= half + cycle[u]
                                   /\ (wait[i] > 0 => age[i] + wait[i] <= half)
    BY DEF Account, half
  <2>4. age'[i] <= half + cycle[u] /\ (wait[i] > 0 => age'[i] + wait[i] <= half)
    BY <1>1, <2>1, <2>2, <2>3
  <2> QED
    BY <1>2, <2>1, <2>4 DEF Account, half
<1>6. CASE FreeRequest(u) \/ EnqueueFails(u) \/ FreeRequestFails(u) \/ Leave(u)
  <2>1. /\ UNCHANGED <<wait, age, cycle, previous, update_list>>
        /\ at'[u] # "enqueue"
    BY <1>6 DEF FreeRequest, EnqueueFails, FreeRequestFails, Leave, Sleep, Goto, clock, TypeOK
  <2> QED
    BY <1>2, <2>1 DEF Account
<1> QED
  BY <1>3, <1>4, <1>5, <1>6 DEF UpdaterStep

LEMMA AccountsStep == TypeOK /\ Accounts /\ [Next]_vars => Accounts'
<1> SUFFICES ASSUME TypeOK, Accounts, [Next]_vars,
                    NEW u \in Updaters, NEW i \in Items, i \in Chunk(u)
             PROVE  Account(u, i)'
  BY ListsStep DEF Accounts, Chunk
<1> USE AUPAssumption
<1> DEFINE half == fvi[i] \div 2
<1>1. Lists /\ Account(u, i)
  BY DEF Accounts
<1>2. /\ fvi[i] \in Nat /\ half \in Nat
      /\ age[i] \in Nat /\ wait[i] \in Nat /\ cycle[u] \in Nat /\ previous[u] \in Nat
  BY HalfGrows DEF TypeOK, fvi
<1>3. ASSUME UNCHANGED updating, fvi'[i] \in Nat, fvi[i] <= fvi'[i] PROVE Account(u, i)'
  <2>1. fvi'[i] \div 2 \in Nat /\ half <= fvi'[i] \div 2
    BY <1>2, <1>3, HalfGrows
  <2>2. UNCHANGED <<wait, age, cycle, previous, update_list, at>>
    BY <1>3 DEF updating, clock
  <2> QED
    BY <1>1, <1>2, <2>1, <2>2 DEF Account
<1>4. ASSUME NEW j \in Items, AfIncr(j) \/ UfIncr(j) PROVE Account(u, i)'
  BY <1>2, <1>3, <1>4 DEF AfIncr, UfIncr, fvi
<1>5. ASSUME NEW w \in 0 .. MaxWanted, RelaxStart(w) PROVE Account(u, i)'
  BY <1>2, <1>3, <1>5 DEF RelaxStart, fvi
<1>6. ASSUME RelaxSkip \/ RelaxEnd PROVE Account(u, i)'
  BY <1>2, <1>3, <1>6 DEF RelaxSkip, RelaxEnd, fvi
<1>7. ASSUME RelaxItem PROVE Account(u, i)'
  <2>1. fvi'[i] \in Nat /\ fvi[i] <= fvi'[i]
    BY <1>2, <1>7, LongerGrows DEF RelaxItem, TypeOK, fvi
  <2> QED
    BY <1>3, <1>7, <2>1 DEF RelaxItem
<1>8. CASE UpdaterStep(u)
  BY <1>1, <1>8, AccountOwn
<1>9. ASSUME NEW v \in Updaters, v # u, UpdaterStep(v) PROVE Account(u, i)'
  <2>1. i \notin update_list[v]
    BY <1>1, <1>9, ChunksDisjoint DEF Lists
  <2>2. /\ fvi' = fvi /\ age'[i] = age[i] /\ wait'[i] = wait[i]
    BY <1>9, <2>1 DEF UpdaterStep, Poll, PutOff, NextUpdateSet, Enqueue, EnqueueFails, FreeRequest,
                      FreeRequestFails, Leave, policy, clock, fvi
  <2>3. /\ cycle'[u] = cycle[u] /\ previous'[u] = previous[u]
        /\ at'[u] = at[u] /\ update_list'[u] = update_list[u]
    BY <1>9 DEF UpdaterStep, Poll, PutOff, Enqueue, EnqueueFails, FreeRequest,
                FreeRequestFails, Leave, Sleep, Goto, clock, TypeOK
  <2> QED
    BY <1>1, <2>2, <2>3 DEF Account
<1>10. CASE Die
  BY <1>1, <1>10 DEF Die, policy, clock, fvi, Account
<1>11. CASE Tick
  <2>1. /\ fvi' = fvi /\ age'[i] = age[i] + 1 /\ cycle'[u] = cycle[u] + 1
        /\ wait'[i] = IF wait[i] > 0 THEN wait[i] - 1 ELSE 0
        /\ previous' = previous /\ at' = at /\ update_list' = update_list
    BY <1>11 DEF Tick, policy, fvi
  <2> HIDE DEF half
  <2>2. CASE i \in update_list[u]
    <3>1. age[i] <= half + cycle[u] + previous[u] /\ (at[u] = "enqueue" => wait[i] <= half)
      BY <1>1, <2>2 DEF Account, half
    <3>2. /\ age'[i] <= half + cycle'[u] + previous[u]
          /\ at[u] = "enqueue" => wait'[i] <= half
      BY <1>2, <2>1, <3>1
    <3> QED
      BY <2>1, <2>2, <3>2 DEF Account, half
  <2>3. CASE i \notin update_list[u]
    <3>1. age[i] <= half + cycle[u] /\ (wait[i] > 0 => age[i] + wait[i] <= half)
      BY <1>1, <2>3 DEF Account, half
    <3>2. age'[i] <= half + cycle'[u] /\ (wait'[i] > 0 => age'[i] + wait'[i] <= half)
      BY <1>2, <2>1, <3>1
    <3> QED
      BY <2>1, <2>3, <3>2 DEF Account, half
  <2> QED
    BY <2>2, <2>3
<1>12. CASE UNCHANGED vars
  BY <1>2, <1>3, <1>12 DEF vars, fvi
<1> QED
  BY <1>4, <1>5, <1>6, <1>7, <1>8, <1>9, <1>10, <1>11, <1>12 DEF Next

\* No item is forgotten by its update thread, for every number of threads and
\* items, however long a cycle takes, wherever a thread leaves its loop, and
\* whenever chronos_aup_relax changes an interval.
THEOREM NoItemForgotten == Spec => []NotForgotten
<1>1. TypeOK /\ Accounts => NotForgotten
  <2> SUFFICES ASSUME TypeOK, Accounts, NEW u \in Updaters, NEW i \in Chunk(u)
               PROVE  age[i] <= (fvi[i] \div 2) + cycle[u] + previous[u]
    BY DEF NotForgotten
  <2>1. i \in Items /\ Account(u, i)
    BY DEF Accounts, Chunk
  <2>2. fvi[i] \div 2 \in Nat /\ age[i] \in Nat /\ cycle[u] \in Nat /\ previous[u] \in Nat
    BY <2>1, HalfGrows, AUPAssumption DEF TypeOK, fvi
  <2> QED
    BY <2>1, <2>2 DEF Account
<1> QED
  BY <1>1, TypesInit, TypesStep, AccountsInit, AccountsStep, PTL DEF Spec

-----------------------------------------------------------------------------
(* A pass of chronos_aup_relax *)

\* What the pass leaves of item i.
Relaxed(i) ==
  IF Cold(i) /\ Cardinality(ColdBefore(i)) < pass.target /\ InRange(Longer(pass.fvi[i]))
  THEN Longer(pass.fvi[i]) ELSE pass.fvi[i]

\* The items before pos are done, the others untouched, and the budget that
\* is gone is the number of cold items met.
PassInv ==
  pos >= 0 =>
    /\ relax_num_target + Cardinality(ColdBefore(pos)) = pass.target
    /\ \A i \in Items : fvi[i] = IF i < pos THEN Relaxed(i) ELSE pass.fvi[i]

LEMMA ColdBeforeFinite ==
  ASSUME NEW n
  PROVE  IsFiniteSet(ColdBefore(n)) /\ Cardinality(ColdBefore(n)) \in Nat
<1>1. IsFiniteSet(Items)
  BY FS_Interval, AUPAssumption DEF Items
<1>2. ColdBefore(n) \in SUBSET Items
  BY DEF ColdBefore
<1> QED
  BY <1>1, <1>2, FS_Subset, FS_CardinalityType

\* One more item is looked at: the count moves by one if it is cold.
LEMMA ColdBeforeNext ==
  ASSUME NEW n \in Items
  PROVE  Cardinality(ColdBefore(n + 1)) =
           Cardinality(ColdBefore(n)) + (IF Cold(n) THEN 1 ELSE 0)
<1>1. n \notin ColdBefore(n)
  BY DEF ColdBefore, Items
<1>2. CASE Cold(n)
  <2>1. ColdBefore(n + 1) = ColdBefore(n) \cup {n}
    BY <1>2 DEF ColdBefore, Items
  <2>2. Cardinality(ColdBefore(n) \cup {n}) = Cardinality(ColdBefore(n)) + 1
    BY <1>1, ColdBeforeFinite, FS_AddElement
  <2> QED
    BY <1>2, <2>1, <2>2
<1>3. CASE ~Cold(n)
  <2>1. ColdBefore(n + 1) = ColdBefore(n)
    BY <1>3 DEF ColdBefore, Items
  <2> QED
    BY <1>3, <2>1, ColdBeforeFinite
<1> QED
  BY <1>2, <1>3

LEMMA PassInit == Init => PassInv
BY DEF Init, PassInv

LEMMA PassStep == TypeOK /\ PassInv /\ [Next]_vars => PassInv'
<1> SUFFICES ASSUME TypeOK, PassInv, [Next]_vars PROVE PassInv'
  OBVIOUS
<1> USE AUPAssumption
<1>1. ASSUME UNCHANGED <<flexible_validity_interval, frequencies, relaxing>> PROVE PassInv'
  <2>1. pos' = pos /\ relax_num_target' = relax_num_target /\ pass' = pass /\ fvi' = fvi
        /\ access_frequency' = access_frequency /\ update_frequency' = update_frequency
    BY <1>1 DEF frequencies, relaxing, fvi
  <2>2. \A i : Cold(i)' = Cold(i)
    BY <2>1 DEF Cold
  <2>3. \A i : ColdBefore(i)' = ColdBefore(i)
    BY <2>2 DEF ColdBefore
  <2>4. ColdBefore(pos)' = ColdBefore(pos)
    BY <2>1, <2>2 DEF ColdBefore
  <2>5. \A i : Relaxed(i)' = Relaxed(i)
    BY <2>1, <2>2, <2>3 DEF Relaxed
  <2> QED
    BY <2>1, <2>4, <2>5 DEF PassInv
<1>2. ASSUME pos' = -1 PROVE PassInv'
  BY <1>2 DEF PassInv
<1>3. ASSUME NEW i \in Items, AfIncr(i) \/ UfIncr(i) PROVE PassInv'
  BY <1>2, <1>3 DEF AfIncr, UfIncr, Idle, relaxing
<1>4. ASSUME NEW w \in 0 .. MaxWanted, RelaxStart(w) PROVE PassInv'
  <2>1. pos' = 0 /\ relax_num_target' = pass'.target /\ fvi' = pass'.fvi
    BY <1>4 DEF RelaxStart, fvi
  <2>2. pass'.target \in Nat
    BY <1>4 DEF RelaxStart, MaxWanted
  <2>3. ColdBefore(pos)' = {}
    BY <2>1 DEF ColdBefore, Items
  <2>4. Cardinality(ColdBefore(pos)') = 0
    BY <2>3, FS_EmptySet
  <2>5. relax_num_target' + Cardinality(ColdBefore(pos)') = pass'.target
    BY <2>1, <2>2, <2>4
  <2>6. \A i \in Items : ~(i < pos') /\ fvi'[i] = pass'.fvi[i]
    BY <2>1 DEF Items
  <2> QED
    BY <2>5, <2>6 DEF PassInv
<1>5. ASSUME RelaxSkip \/ RelaxItem PROVE PassInv'
  <2>1. /\ pos \in Items /\ relax_num_target > 0 /\ pos' = pos + 1 /\ pass' = pass
        /\ access_frequency' = access_frequency /\ update_frequency' = update_frequency
    BY <1>5 DEF RelaxSkip, RelaxItem, InLoop, frequencies
  <2>2. \A i : Cold(i)' = Cold(i)
    BY <2>1 DEF Cold
  <2>3. \A i : ColdBefore(i)' = ColdBefore(i)
    BY <2>2 DEF ColdBefore
  <2>4. ColdBefore(pos)' = ColdBefore(pos + 1)
    BY <2>1, <2>2 DEF ColdBefore
  <2>5. \A i : Relaxed(i)' = Relaxed(i)
    BY <2>1, <2>2, <2>3 DEF Relaxed
  <2>6. /\ relax_num_target + Cardinality(ColdBefore(pos)) = pass.target
        /\ \A i \in Items : fvi[i] = IF i < pos THEN Relaxed(i) ELSE pass.fvi[i]
    BY <2>1 DEF PassInv, Items
  <2>7. Cardinality(ColdBefore(pos)) < pass.target
    BY <2>1, <2>6, ColdBeforeFinite DEF TypeOK
  <2>8. relax_num_target' + Cardinality(ColdBefore(pos + 1)) = pass.target
    <3>1. relax_num_target' = relax_num_target - (IF Cold(pos) THEN 1 ELSE 0)
      BY <1>5 DEF RelaxSkip, RelaxItem, TypeOK
    <3> QED
      BY <2>1, <2>6, <3>1, ColdBeforeNext, ColdBeforeFinite DEF TypeOK
  <2>9. fvi'[pos] = Relaxed(pos) /\ \A i \in Items : i # pos => fvi'[i] = fvi[i]
    <3>1. fvi[pos] = pass.fvi[pos]
      BY <2>1, <2>6 DEF Items
    <3>2. CASE RelaxSkip
      BY <3>1, <3>2 DEF RelaxSkip, Relaxed, fvi
    <3>3. CASE RelaxItem
      <4>1. /\ Cold(pos)
            /\ fvi' = [fvi EXCEPT ![pos] = IF InRange(Longer(fvi[pos])) THEN Longer(fvi[pos])
                                           ELSE fvi[pos]]
        BY <3>3 DEF RelaxItem, fvi
      <4>2. fvi \in [Items -> Nat]
        BY DEF TypeOK, fvi
      <4> QED
        BY <2>1, <2>7, <3>1, <4>1, <4>2 DEF Relaxed
    <3> QED
      BY <1>5, <3>2, <3>3
  <2>10. \A i \in Items : fvi'[i] = IF i < pos + 1 THEN Relaxed(i) ELSE pass.fvi[i]
    BY <2>1, <2>6, <2>9 DEF Items
  <2> QED
    BY <2>1, <2>4, <2>5, <2>8, <2>10 DEF PassInv
<1>6. ASSUME RelaxEnd PROVE PassInv'
  BY <1>2, <1>6 DEF RelaxEnd
<1>7. ASSUME NEW u \in Updaters, UpdaterStep(u) PROVE PassInv'
  BY <1>1, <1>7 DEF UpdaterStep, Poll, PutOff, Enqueue, EnqueueFails, FreeRequest,
                    FreeRequestFails, Leave, policy
<1>8. ASSUME Die \/ Tick PROVE PassInv'
  BY <1>1, <1>8 DEF Die, Tick, policy
<1>9. ASSUME UNCHANGED vars PROVE PassInv'
  BY <1>1, <1>9 DEF vars
<1> QED
  BY <1>3, <1>4, <1>5, <1>6, <1>7, <1>8, <1>9 DEF Next

\* A pass of chronos_aup_relax relaxes exactly the first relax_num_target
\* cold items, each once, for every number of items and every budget.
THEOREM PassRelaxesFirstCold == Spec => []FirstColdRelaxed
<1>1. TypeOK /\ PassInv => FirstColdRelaxed
  <2> SUFFICES ASSUME TypeOK, PassInv, LoopEnded, NEW i \in Items
               PROVE  fvi[i] = Relaxed(i)
    BY DEF FirstColdRelaxed, Relaxed
  <2>1. /\ pos \in 0 .. NumItems /\ (pos = NumItems \/ relax_num_target = 0)
        /\ relax_num_target \in Nat
    BY AUPAssumption DEF LoopEnded, Idle, InLoop, Items, TypeOK
  <2>2. /\ relax_num_target + Cardinality(ColdBefore(pos)) = pass.target
        /\ fvi[i] = IF i < pos THEN Relaxed(i) ELSE pass.fvi[i]
    BY <2>1 DEF PassInv
  <2>3. CASE i < pos
    BY <2>2, <2>3
  <2>4. CASE ~(i < pos)
    <3>1. relax_num_target = 0 /\ ColdBefore(pos) \in SUBSET ColdBefore(i)
      BY <2>1, <2>4, AUPAssumption DEF ColdBefore, Items
    <3>2. Cardinality(ColdBefore(pos)) <= Cardinality(ColdBefore(i))
      BY <3>1, ColdBeforeFinite, FS_Subset
    <3>3. ~(Cardinality(ColdBefore(i)) < pass.target)
      BY <2>2, <3>1, <3>2, ColdBeforeFinite
    <3> QED
      BY <2>2, <2>4, <3>3 DEF Relaxed
  <2> QED
    BY <2>3, <2>4
<1> QED
  BY <1>1, TypesInit, TypesStep, PassInit, PassStep, PTL DEF Spec
=============================================================================
