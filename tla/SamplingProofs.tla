---------------------------- MODULE SamplingProofs ----------------------------
(***************************************************************************)
(* Proof that the sums aggregate_thread_stats reads without a lock are     *)
(* torn by at most one transaction per type and other thread, for every    *)
(* number of processing threads and of transactions; and that while one    *)
(* thread samples, its counts are exact.                                   *)
(***************************************************************************)
EXTENDS Sampling, TLAPS

Labels == {"round", "timely", "total", "readTimely", "readTotal", "readDuration",
           "advance", "assign", "store", "monitor", "delay", "print"}

Counters == [Threads -> [Types -> Nat]]
Sums     == [next : Nat, type : Types, timely : Nat, total : Nat, duration : Nat]

\* What the argument needs of the types; the ring plays no part in it.
CounterTypes ==
  /\ pc \in [Threads -> Labels]
  /\ timely \in Counters
  /\ total \in Counters
  /\ duration \in Counters
  /\ xact \in [Threads -> [type : Types, ms : Nat, ok : BOOLEAN]]
  /\ sum \in [Threads -> Sums]

\* A thread is ahead with its own timely counter of a type only between the
\* two increments.
Ahead(j, k) == IF pc[j] = "total" /\ xact[j].type = k THEN 1 ELSE 0

OwnCounters == \A j \in Threads, k \in Types : timely[j][k] <= total[j][k] + Ahead(j, k)

\* The threads other than t among the first n.
Others(t, n) == IF t < n THEN n - 1 ELSE n

\* What the sums of t may be apart when it has read the first n threads, and
\* the first k types of thread n.
Slack(t, n, k) == NumTypes * Others(t, n) + (IF n = t THEN 0 ELSE k)

\* How far the sums of t can be apart at each of its positions: one for every
\* type of another thread that has been added up, and between its two reads
\* what the counters that are being read differ by.
SumBound(t) ==
  /\ pc[t] \in {"round", "timely", "total"} => sum[t] = NoSum
  /\ pc[t] = "readTimely" =>
       /\ sum[t].next \in Threads
       /\ sum[t].timely <= sum[t].total + Slack(t, sum[t].next, sum[t].type)
  /\ pc[t] = "readTotal" =>
       /\ sum[t].next \in Threads
       /\ sum[t].timely <= sum[t].total + Slack(t, sum[t].next, sum[t].type)
                             + total[sum[t].next][sum[t].type] + Ahead(sum[t].next, sum[t].type)
  /\ pc[t] = "readDuration" =>
       /\ sum[t].next \in Threads
       /\ sum[t].timely <= sum[t].total + Slack(t, sum[t].next, sum[t].type + 1)
  /\ pc[t] = "advance" => sum[t].timely <= sum[t].total + NumTypes * (NumThreads - 1)

SumInv == CounterTypes /\ OwnCounters /\ \A t \in Threads : SumBound(t)

\* The bound from one position of the sampler to the next.
LEMMA SlackGrows ==
  ASSUME NEW t \in Threads, NEW n \in Threads, NEW k \in Types
  PROVE  /\ Slack(t, n, k) \in Int /\ Slack(t, n, k + 1) \in Int
         /\ Slack(t, n, k + 1) = Slack(t, n, k) + (IF n = t THEN 0 ELSE 1)
         /\ k + 1 = NumTypes => Slack(t, n, k + 1) = Slack(t, n + 1, 0)
         /\ Slack(t, 0, 0) = 0
         /\ Slack(t, NumThreads, 0) = NumTypes * (NumThreads - 1)
<1> USE SamplingAssumption DEF Slack, Others, Threads, Types
<1>1. CASE NumTypes = 1
  BY <1>1
<1>2. CASE NumTypes = 2
  BY <1>2
<1>3. CASE NumTypes = 3
  BY <1>3
<1>4. CASE NumTypes = 4
  BY <1>4
<1> QED
  BY <1>1, <1>2, <1>3, <1>4

LEMMA TypesHaveZero == 0 \in Types /\ NumTypes \in Nat
BY SamplingAssumption DEF Types

LEMMA SumInit == Init => SumInv
<1> SUFFICES ASSUME Init PROVE SumInv
  OBVIOUS
<1> USE SamplingAssumption, TypesHaveZero
<1>1. CounterTypes
  <2>1. NoSum \in Sums
    BY DEF NoSum, Sums
  <2>2. NoXact \in [type : Types, ms : Nat, ok : BOOLEAN]
    BY DEF NoXact
  <2>3. timely \in Counters /\ total \in Counters /\ duration \in Counters
    BY DEF Init, Counters
  <2>4. pc \in [Threads -> Labels] /\ sum \in [Threads -> Sums]
    BY <2>1 DEF Init, Labels
  <2>5. xact \in [Threads -> [type : Types, ms : Nat, ok : BOOLEAN]]
    BY <2>2 DEF Init
  <2> QED
    BY <2>3, <2>4, <2>5 DEF CounterTypes
<1>2. OwnCounters
  BY DEF Init, OwnCounters, Ahead
<1>3. \A t \in Threads : SumBound(t)
  BY DEF Init, SumBound
<1> QED
  BY <1>1, <1>2, <1>3 DEF SumInv

\* Another thread's step keeps the bound of t if it changes neither t nor the
\* sums of t, and takes total[j][k] + Ahead(j, k) down for no thread and type.
LEMMA OtherStep ==
  ASSUME SumInv, NEW t \in Threads, pc'[t] = pc[t], sum'[t] = sum[t],
         \A j \in Threads, k \in Types :
           /\ total[j][k] + Ahead(j, k) <= total'[j][k] + Ahead(j, k)'
           /\ total'[j][k] \in Nat
  PROVE  SumBound(t)'
<1> USE SamplingAssumption
<1>1. SumBound(t) /\ sum[t] \in Sums
  BY DEF SumInv, CounterTypes
<1>2. ASSUME pc[t] = "readTotal"
      PROVE  /\ sum[t].next \in Threads
             /\ sum[t].timely <= sum[t].total + Slack(t, sum[t].next, sum[t].type)
                                   + total'[sum[t].next][sum[t].type]
                                   + Ahead(sum[t].next, sum[t].type)'
  <2>1. PICK j, k : j = sum[t].next /\ k = sum[t].type
    OBVIOUS
  <2>2. /\ j \in Threads /\ k \in Types
        /\ sum[t].timely <= sum[t].total + Slack(t, j, k) + total[j][k] + Ahead(j, k)
    BY <1>1, <1>2, <2>1 DEF SumBound, Sums
  <2>3. total[j][k] \in Nat /\ total'[j][k] \in Nat
    BY <2>2 DEF SumInv, CounterTypes, Counters
  <2>4. Slack(t, j, k) \in Int
    BY <2>2, SlackGrows
  <2>5. Ahead(j, k) \in Nat /\ Ahead(j, k)' \in Nat
    BY DEF Ahead
  <2>6. total[j][k] + Ahead(j, k) <= total'[j][k] + Ahead(j, k)'
    BY <2>2
  <2>7. sum[t].timely \in Nat /\ sum[t].total \in Nat
    BY <1>1 DEF Sums
  <2>8. sum[t].timely <= sum[t].total + Slack(t, j, k) + total'[j][k] + Ahead(j, k)'
    BY <2>2, <2>3, <2>4, <2>5, <2>6, <2>7
  <2>9. Ahead(sum[t].next, sum[t].type)' = Ahead(j, k)'
    BY <2>1 DEF Ahead
  <2> QED
    BY <2>1, <2>2, <2>8, <2>9
<1> QED
  BY <1>1, <1>2 DEF SumBound

\* The counters of no thread are changed, and its position is not "total".
LEMMA SamplerStep ==
  ASSUME SumInv, NEW u \in Threads, NEW l \in Labels \ {"total"},
         pc[u] # "total", Goto(u, l), UNCHANGED <<timely, total, duration, xact>>,
         NEW s, sum' = [sum EXCEPT ![u] = s], s \in Sums, SumBound(u)'
  PROVE  SumInv'
<1> USE SamplingAssumption
<1>1. CounterTypes'
  BY DEF SumInv, CounterTypes, Goto
<1>2. \A j \in Threads, k \in Types : Ahead(j, k)' = Ahead(j, k)
  BY DEF SumInv, CounterTypes, Goto, Ahead
<1>3. OwnCounters'
  BY <1>2 DEF SumInv, OwnCounters
<1>4. \A j \in Threads, k \in Types :
        total[j][k] + Ahead(j, k) <= total'[j][k] + Ahead(j, k)' /\ total'[j][k] \in Nat
  <2> SUFFICES ASSUME NEW j \in Threads, NEW k \in Types
               PROVE  total[j][k] + Ahead(j, k) <= total'[j][k] + Ahead(j, k)' /\ total'[j][k] \in Nat
    OBVIOUS
  <2>1. /\ total'[j][k] = total[j][k] /\ total[j][k] \in Nat
        /\ Ahead(j, k)' = Ahead(j, k) /\ Ahead(j, k) \in Nat
    BY <1>2 DEF SumInv, CounterTypes, Counters, Ahead
  <2> QED
    BY <2>1
<1>5. ASSUME NEW t \in Threads, t # u PROVE SumBound(t)'
  <2>1. pc'[t] = pc[t] /\ sum'[t] = sum[t]
    BY <1>5 DEF SumInv, CounterTypes, Goto
  <2> QED
    BY <1>4, <2>1, OtherStep
<1> QED
  BY <1>1, <1>3, <1>5 DEF SumInv

\* One counter of a thread is changed.
LEMMA CounterChange ==
  ASSUME NEW f \in Counters, NEW u \in Threads, NEW k \in Types, NEW n \in Nat,
         NEW g, g = [f EXCEPT ![u][k] = n]
  PROVE  /\ g \in Counters /\ g[u] = [f[u] EXCEPT ![k] = n] /\ g[u][k] = n
         /\ \A j \in Threads, m \in Types : j # u \/ m # k => g[j][m] = f[j][m]
BY DEF Counters

\* The record of the sums with two or three fields changed.
LEMMA SumChange ==
  ASSUME NEW r \in Sums, NEW d, NEW k, NEW n, NEW s
  PROVE  /\ s = [r EXCEPT !.duration = d, !.type = k] =>
              s = [next |-> r.next, type |-> k, timely |-> r.timely, total |-> r.total, duration |-> d]
         /\ s = [r EXCEPT !.duration = d, !.type = k, !.next = n] =>
              s = [next |-> n, type |-> k, timely |-> r.timely, total |-> r.total, duration |-> d]
<1>1. ASSUME s = [r EXCEPT !.duration = d, !.type = k]
      PROVE  s = [next |-> r.next, type |-> k, timely |-> r.timely, total |-> r.total, duration |-> d]
  BY <1>1 DEF Sums
<1>2. ASSUME s = [r EXCEPT !.duration = d, !.type = k, !.next = n]
      PROVE  s = [next |-> n, type |-> k, timely |-> r.timely, total |-> r.total, duration |-> d]
  BY <1>2 DEF Sums
<1> QED
  BY <1>1, <1>2

\* A transaction is counted: which counter of u changes, by how much.
LEMMA DurationStep ==
  ASSUME NEW u \in Threads, NEW type \in Types, NEW ms \in Nat, NEW ok \in BOOLEAN,
         AddDuration(u, type, ms, ok)
  PROVE  /\ pc[u] = "round" /\ Goto(u, "timely")
         /\ duration' = [duration EXCEPT ![u][type] = duration[u][type] + ms]
         /\ xact' = [xact EXCEPT ![u] = [type |-> type, ms |-> ms, ok |-> ok]]
         /\ UNCHANGED <<timely, total, sum>>
BY DEF AddDuration, sampler

LEMMA TimelyStep ==
  ASSUME NEW u \in Threads, AddTimely(u), NEW k, k = xact[u].type
  PROVE  /\ pc[u] = "timely" /\ Goto(u, "total")
         /\ \E n \in {timely[u][k], timely[u][k] + 1} : timely' = [timely EXCEPT ![u][k] = n]
         /\ UNCHANGED <<duration, total, xact, sum>>
<1>1. CASE xact[u].ok /\ xact[u].ms < desiredDelayBoundMS
  BY <1>1 DEF AddTimely, sampler
<1>2. CASE ~(xact[u].ok /\ xact[u].ms < desiredDelayBoundMS)
  BY <1>2 DEF AddTimely, sampler
<1> QED
  BY <1>1, <1>2

LEMMA TotalStep ==
  ASSUME NEW u \in Threads, AddTotal(u), NEW k, k = xact[u].type
  PROVE  /\ pc[u] = "total" /\ Goto(u, "round")
         /\ total' = [total EXCEPT ![u][k] = total[u][k] + 1]
         /\ xact' = [xact EXCEPT ![u] = NoXact]
         /\ UNCHANGED <<duration, timely, sum>>
BY DEF AddTotal, sampler

LEMMA SumCounting ==
  ASSUME SumInv, NEW u \in Threads, NEW type \in Types, NEW ms \in Nat, NEW ok \in BOOLEAN,
         AddDuration(u, type, ms, ok) \/ AddTimely(u) \/ AddTotal(u)
  PROVE  SumInv'
<1> USE SamplingAssumption
<1> DEFINE X == [type : Types, ms : Nat, ok : BOOLEAN]
<1>0. CounterTypes /\ OwnCounters /\ SumBound(u)
  BY DEF SumInv
<1>k. PICK k : k = xact[u].type
  OBVIOUS
<1>a. /\ pc \in [Threads -> Labels] /\ timely \in Counters /\ total \in Counters
      /\ duration \in Counters /\ xact \in [Threads -> X] /\ k \in Types
      /\ timely[u][k] \in Nat /\ total[u][k] \in Nat /\ duration[u][type] \in Nat
  BY <1>0, <1>k DEF CounterTypes, Counters
<1>b. NoXact \in X /\ [type |-> type, ms |-> ms, ok |-> ok] \in X
  BY TypesHaveZero DEF NoXact
<1>c. /\ pc[u] \in {"round", "timely", "total"} /\ sum' = sum
      /\ \E l \in {"round", "timely", "total"}, x \in X : Goto(u, l) /\ xact' = [xact EXCEPT ![u] = x]
  <2>1. CASE AddDuration(u, type, ms, ok)
    BY <1>b, <2>1, DurationStep
  <2>2. CASE AddTimely(u)
    <3>1. xact' = [xact EXCEPT ![u] = xact[u]] /\ xact[u] \in X
      BY <1>a, <1>k, <2>2, TimelyStep
    <3> QED
      BY <1>k, <2>2, <3>1, TimelyStep
  <2>3. CASE AddTotal(u)
    BY <1>b, <1>k, <2>3, TotalStep
  <2> QED
    BY <2>1, <2>2, <2>3
<1>d. PICK l \in {"round", "timely", "total"}, x \in X : Goto(u, l) /\ xact' = [xact EXCEPT ![u] = x]
  BY <1>c
<1>e. /\ pc' \in [Threads -> Labels] /\ xact' \in [Threads -> X] /\ pc'[u] = l
      /\ \A j \in Threads \ {u} : pc'[j] = pc[j] /\ xact'[j] = xact[j]
  <2>1. l \in Labels
    BY <1>d DEF Labels
  <2> HIDE DEF X
  <2> QED
    BY <1>a, <1>d, <2>1 DEF Goto
\* What happens to the counters of u, and to no others.
<1>1. ASSUME NEW m \in Types
      PROVE  /\ timely' \in Counters /\ total' \in Counters /\ duration' \in Counters
             /\ \A j \in Threads \ {u} : timely'[j][m] = timely[j][m] /\ total'[j][m] = total[j][m]
             /\ timely'[u][m] <= total'[u][m] + Ahead(u, m)'
             /\ total[u][m] + Ahead(u, m) <= total'[u][m] + Ahead(u, m)'
  <2>0. /\ timely[u][m] \in Nat /\ total[u][m] \in Nat
        /\ timely[u][m] <= total[u][m] + Ahead(u, m)
    BY <1>0 DEF CounterTypes, Counters, OwnCounters
  <2>1. CASE AddDuration(u, type, ms, ok)
    <3>1. /\ duration' = [duration EXCEPT ![u][type] = duration[u][type] + ms]
          /\ UNCHANGED <<timely, total>> /\ pc[u] = "round" /\ Goto(u, "timely")
      BY <2>1, DurationStep
    <3>2. PICK n : n = duration[u][type] + ms
      OBVIOUS
    <3>3. n \in Nat
      BY <1>a, <3>2
    <3>4. duration' \in Counters
      BY <1>a, <3>1, <3>2, <3>3, CounterChange
    <3>5. Ahead(u, m) = 0 /\ Ahead(u, m)' = 0
      BY <1>a, <3>1 DEF Ahead, Goto
    <3> QED
      BY <1>a, <2>0, <3>1, <3>4, <3>5
  <2>2. CASE AddTimely(u)
    <3>1. /\ UNCHANGED <<duration, total, xact>> /\ pc[u] = "timely" /\ Goto(u, "total")
      BY <1>k, <2>2, TimelyStep
    <3>2. PICK n \in {timely[u][k], timely[u][k] + 1} : timely' = [timely EXCEPT ![u][k] = n]
      BY <1>k, <2>2, TimelyStep
    <3>3. n \in Nat /\ n <= timely[u][k] + 1
      BY <1>a
    <3>4. /\ timely' \in Counters /\ timely'[u][k] = n
          /\ \A j \in Threads, i \in Types : j # u \/ i # k => timely'[j][i] = timely[j][i]
      <4>1. PICK f, g : f = timely /\ g = timely'
        OBVIOUS
      <4>2. f \in Counters /\ n \in Nat /\ g = [f EXCEPT ![u][k] = n] /\ k \in Types
        BY <1>a, <3>2, <3>3, <4>1
      <4>3. /\ g \in Counters /\ g[u][k] = n
            /\ \A j \in Threads, i \in Types : j # u \/ i # k => g[j][i] = f[j][i]
        BY <4>2 DEF Counters
      <4> QED
        BY <4>1, <4>3
    <3>5. Ahead(u, m) = 0 /\ Ahead(u, m)' = IF m = k THEN 1 ELSE 0
      BY <1>a, <1>k, <3>1 DEF Ahead, Goto
    <3>6. timely'[u][m] <= total'[u][m] + Ahead(u, m)'
      <4>1. CASE m = k
        BY <2>0, <3>1, <3>3, <3>4, <3>5, <4>1
      <4>2. CASE m # k
        BY <2>0, <3>1, <3>4, <3>5, <4>2
      <4> QED
        BY <4>1, <4>2
    <3> QED
      BY <1>a, <2>0, <3>1, <3>4, <3>5, <3>6
  <2>3. CASE AddTotal(u)
    <3>1. /\ UNCHANGED <<duration, timely>> /\ pc[u] = "total" /\ Goto(u, "round")
          /\ total' = [total EXCEPT ![u][k] = total[u][k] + 1]
      BY <1>k, <2>3, TotalStep
    <3>2. PICK n : n = total[u][k] + 1
      OBVIOUS
    <3>3. n \in Nat
      BY <1>a, <3>2
    <3>4. /\ total' \in Counters /\ total'[u][k] = n
          /\ \A j \in Threads, i \in Types : j # u \/ i # k => total'[j][i] = total[j][i]
      <4>1. PICK f, g : f = total /\ g = total'
        OBVIOUS
      <4>2. f \in Counters /\ n \in Nat /\ g = [f EXCEPT ![u][k] = n] /\ k \in Types
        BY <1>a, <3>1, <3>2, <3>3, <4>1
      <4>3. /\ g \in Counters /\ g[u][k] = n
            /\ \A j \in Threads, i \in Types : j # u \/ i # k => g[j][i] = f[j][i]
        BY <4>2 DEF Counters
      <4> QED
        BY <4>1, <4>3
    <3>5. Ahead(u, m) = (IF m = k THEN 1 ELSE 0) /\ Ahead(u, m)' = 0
      BY <1>a, <1>k, <3>1 DEF Ahead, Goto
    <3>6. /\ timely'[u][m] <= total'[u][m] + Ahead(u, m)'
          /\ total[u][m] + Ahead(u, m) <= total'[u][m] + Ahead(u, m)'
      <4>1. CASE m = k
        BY <2>0, <3>1, <3>2, <3>4, <3>5, <4>1
      <4>2. CASE m # k
        BY <2>0, <3>1, <3>4, <3>5, <4>2
      <4> QED
        BY <4>1, <4>2
    <3> QED
      BY <1>a, <2>0, <3>1, <3>4, <3>6
  <2> QED
    BY <2>1, <2>2, <2>3
<1>2. CounterTypes'
  <2>1. timely' \in Counters /\ total' \in Counters /\ duration' \in Counters
    BY <1>1, TypesHaveZero
  <2> QED
    BY <1>0, <1>c, <1>e, <2>1 DEF CounterTypes
<1>3. ASSUME NEW j \in Threads, NEW m \in Types
      PROVE  /\ timely'[j][m] <= total'[j][m] + Ahead(j, m)'
             /\ total[j][m] + Ahead(j, m) <= total'[j][m] + Ahead(j, m)'
             /\ total'[j][m] \in Nat
  <2>1. total'[j][m] \in Nat
    BY <1>2 DEF CounterTypes, Counters
  <2>2. CASE j = u
    BY <1>1, <2>1, <2>2
  <2>3. CASE j # u
    <3>1. Ahead(j, m)' = Ahead(j, m) /\ Ahead(j, m) \in Nat
      BY <1>e, <2>3 DEF Ahead
    <3>2. timely'[j][m] = timely[j][m] /\ total'[j][m] = total[j][m]
      BY <1>1, <2>3
    <3> QED
      BY <1>0, <2>1, <3>1, <3>2 DEF OwnCounters
  <2> QED
    BY <2>2, <2>3
<1>4. OwnCounters'
  BY <1>3 DEF OwnCounters
<1>5. SumBound(u)'
  BY <1>0, <1>c, <1>e DEF SumBound
<1>6. ASSUME NEW t \in Threads, t # u PROVE SumBound(t)'
  <2>1. pc'[t] = pc[t] /\ sum'[t] = sum[t]
    BY <1>c, <1>e, <1>6
  <2> QED
    BY <1>3, <2>1, OtherStep
<1> QED
  BY <1>2, <1>4, <1>5, <1>6 DEF SumInv

\* What ReadDuration leaves: the next type, the next thread, or the end.
LEMMA ReadDurationStep ==
  ASSUME CounterTypes, NEW u \in Threads, ReadDuration(u), sum[u].next \in Threads
  PROVE  LET n == sum[u].next
             k == sum[u].type
             d == sum[u].duration + duration[n][k]
         IN  /\ UNCHANGED <<timely, total, duration, xact>>
             /\ k + 1 < NumTypes =>
                  /\ Goto(u, "readTimely") /\ k + 1 \in Types
                  /\ sum' = [sum EXCEPT ![u] = [next |-> n, type |-> k + 1, timely |-> sum[u].timely,
                                                total |-> sum[u].total, duration |-> d]]
             /\ ~(k + 1 < NumTypes) =>
                  /\ Goto(u, IF n + 1 < NumThreads THEN "readTimely" ELSE "advance")
                  /\ k + 1 = NumTypes
                  /\ sum' = [sum EXCEPT ![u] = [next |-> n + 1, type |-> 0, timely |-> sum[u].timely,
                                                total |-> sum[u].total, duration |-> d]]
             /\ d \in Nat
<1> USE SamplingAssumption
<1> DEFINE n == sum[u].next
           k == sum[u].type
           d == sum[u].duration + duration[n][k]
<1>1. sum[u] \in Sums /\ k \in Types /\ duration[n][k] \in Nat /\ sum[u].duration \in Nat
  BY DEF CounterTypes, Counters, Sums
<1>2. k \in Nat /\ k < NumTypes /\ NumTypes \in Nat
  BY <1>1 DEF Types
<1>3. d \in Nat
  BY <1>1
<1>4. UNCHANGED <<timely, total, duration, xact>>
  BY DEF ReadDuration, counters
<1>5. ASSUME k + 1 < NumTypes
      PROVE  /\ Goto(u, "readTimely") /\ k + 1 \in Types
             /\ sum' = [sum EXCEPT ![u] = [next |-> n, type |-> k + 1, timely |-> sum[u].timely,
                                           total |-> sum[u].total, duration |-> d]]
  <2>1. k + 1 \in Types
    BY <1>2, <1>5 DEF Types
  <2>2. /\ Goto(u, "readTimely")
        /\ sum' = [sum EXCEPT ![u] = [sum[u] EXCEPT !.duration = d, !.type = k + 1]]
    BY <1>5, Zenon DEF ReadDuration
  <2>3. [sum[u] EXCEPT !.duration = d, !.type = k + 1] =
          [next |-> n, type |-> k + 1, timely |-> sum[u].timely, total |-> sum[u].total, duration |-> d]
    BY <1>1, SumChange, Zenon
  <2> QED
    BY <2>1, <2>2, <2>3
<1>6. ASSUME ~(k + 1 < NumTypes)
      PROVE  /\ Goto(u, IF n + 1 < NumThreads THEN "readTimely" ELSE "advance")
             /\ k + 1 = NumTypes
             /\ sum' = [sum EXCEPT ![u] = [next |-> n + 1, type |-> 0, timely |-> sum[u].timely,
                                           total |-> sum[u].total, duration |-> d]]
  <2>1. k + 1 = NumTypes
    BY <1>2, <1>6
  <2>2. /\ Goto(u, IF n + 1 < NumThreads THEN "readTimely" ELSE "advance")
        /\ sum' = [sum EXCEPT ![u] = [sum[u] EXCEPT !.duration = d, !.type = 0, !.next = n + 1]]
    BY <1>6, Zenon DEF ReadDuration
  <2>3. [sum[u] EXCEPT !.duration = d, !.type = 0, !.next = n + 1] =
          [next |-> n + 1, type |-> 0, timely |-> sum[u].timely, total |-> sum[u].total, duration |-> d]
    <3>1. PICK r : r = sum[u]
      OBVIOUS
    <3>2. PICK s : s = [r EXCEPT !.duration = d, !.type = 0, !.next = n + 1]
      OBVIOUS
    <3>3. s = [next |-> n + 1, type |-> 0, timely |-> r.timely, total |-> r.total, duration |-> d]
      BY <1>1, <3>1, <3>2 DEF Sums
    <3> QED
      BY <3>1, <3>2, <3>3, Zenon
  <2> QED
    BY <2>1, <2>2, <2>3
<1> QED
  BY <1>3, <1>4, <1>5, <1>6

LEMMA SumSampling ==
  ASSUME SumInv, NEW u \in Threads,
         \/ AggregateStart(u) \/ ReadTimely(u) \/ ReadTotal(u) \/ ReadDuration(u)
         \/ Advance(u) \/ Assign(u) \/ Store(u)
         \/ MonitorDegree(u) \/ MonitorDelay(u) \/ StatsPrint(u)
  PROVE  SumInv'
<1> USE SamplingAssumption DEF Labels
<1>0. CounterTypes /\ OwnCounters /\ SumBound(u) /\ sum[u] \in Sums /\ pc \in [Threads -> Labels]
      /\ sum \in [Threads -> Sums]
  BY DEF SumInv, CounterTypes
<1>a. sum = [sum EXCEPT ![u] = sum[u]]
  BY <1>0
<1>n. PICK n, k, r : n = sum[u].next /\ k = sum[u].type /\ r = sum[u]
  OBVIOUS
<1>b. /\ r \in Sums /\ n \in Nat /\ k \in Types /\ r.timely \in Nat /\ r.total \in Nat
      /\ r.next = n /\ r.type = k
  BY <1>0, <1>n DEF Sums
<1>c. ASSUME n \in Threads
      PROVE  /\ timely[n][k] \in Nat /\ total[n][k] \in Nat
             /\ timely[n][k] <= total[n][k] + Ahead(n, k)
             /\ Slack(u, n, k) \in Int /\ Slack(u, n, k + 1) \in Int
             /\ Slack(u, n, k + 1) = Slack(u, n, k) + (IF n = u THEN 0 ELSE 1)
             /\ k + 1 = NumTypes => Slack(u, n, k + 1) = Slack(u, n + 1, 0)
  BY <1>0, <1>b, <1>c, SlackGrows DEF CounterTypes, Counters, OwnCounters
<1>1. CASE AggregateStart(u)
  <2>1. pc[u] = "round" /\ pc'[u] = "readTimely" /\ UNCHANGED sum
    BY <1>0, <1>1 DEF AggregateStart, Goto, sampler
  <2>2. sum'[u] = NoSum
    BY <1>0, <2>1 DEF SumBound
  <2>3. 0 \in Threads /\ Slack(u, 0, 0) = 0
    BY SlackGrows, TypesHaveZero DEF Threads
  <2>4. SumBound(u)'
    BY <2>1, <2>2, <2>3 DEF SumBound, NoSum
  <2> QED
    BY <1>0, <1>a, <1>1, <2>4, SamplerStep DEF AggregateStart, sampler, counters
<1>2. CASE ReadTimely(u)
  <2>1. /\ n \in Threads /\ r.timely <= r.total + Slack(u, n, k)
    BY <1>0, <1>n, <1>2 DEF SumBound, ReadTimely
  <2>2. PICK s : s = [r EXCEPT !.timely = r.timely + timely[n][k]]
    OBVIOUS
  <2>3. /\ s \in Sums /\ s.next = n /\ s.type = k /\ s.total = r.total
        /\ s.timely = r.timely + timely[n][k]
    BY <1>b, <1>c, <2>1, <2>2 DEF Sums
  <2>4. sum' = [sum EXCEPT ![u] = s]
    BY <1>n, <1>2, <2>2 DEF ReadTimely
  <2>5. sum'[u] = s
    BY <1>0, <2>4
  <2>6. /\ pc[u] = "readTimely" /\ pc'[u] = "readTotal" /\ Goto(u, "readTotal")
        /\ UNCHANGED <<timely, total, duration, xact>>
    BY <1>0, <1>2 DEF ReadTimely, Goto, counters
  <2>7. Ahead(n, k)' = Ahead(n, k) /\ Ahead(n, k) \in Nat
    BY <1>0, <1>2, <2>1, <2>6 DEF ReadTimely, Goto, Ahead
  <2>8. s.timely <= s.total + Slack(u, n, k) + total'[n][k] + Ahead(n, k)'
    BY <1>b, <1>c, <2>1, <2>3, <2>6, <2>7
  <2>9. Ahead(sum[u].next, sum[u].type)' = Ahead(n, k)'
    BY <2>3, <2>5 DEF Ahead
  <2>10. SumBound(u)'
    BY <2>1, <2>3, <2>5, <2>6, <2>8, <2>9 DEF SumBound
  <2> QED
    BY <2>3, <2>4, <2>6, <2>10, SamplerStep
<1>3. CASE ReadTotal(u)
  <2>1. /\ n \in Threads /\ r.timely <= r.total + Slack(u, n, k) + total[n][k] + Ahead(n, k)
    BY <1>0, <1>n, <1>3 DEF SumBound, ReadTotal
  <2>2. PICK s : s = [r EXCEPT !.total = r.total + total[n][k]]
    OBVIOUS
  <2>3. /\ s \in Sums /\ s.next = n /\ s.type = k /\ s.timely = r.timely
        /\ s.total = r.total + total[n][k]
    BY <1>b, <1>c, <2>1, <2>2 DEF Sums
  <2>4. sum' = [sum EXCEPT ![u] = s]
    BY <1>n, <1>3, <2>2 DEF ReadTotal
  <2>5. sum'[u] = s
    BY <1>0, <2>4
  <2>6. /\ pc[u] = "readTotal" /\ pc'[u] = "readDuration" /\ Goto(u, "readDuration")
        /\ UNCHANGED <<timely, total, duration, xact>>
    BY <1>0, <1>3 DEF ReadTotal, Goto, counters
  <2>7. Ahead(n, k) \in {0, 1} /\ (n = u => Ahead(n, k) = 0)
    BY <2>6 DEF Ahead
  <2>8. s.timely <= s.total + Slack(u, n, k + 1)
    BY <1>b, <1>c, <2>1, <2>3, <2>7
  <2>9. SumBound(u)'
    BY <2>1, <2>3, <2>5, <2>6, <2>8 DEF SumBound
  <2> QED
    BY <2>3, <2>4, <2>6, <2>9, SamplerStep
<1>4. CASE ReadDuration(u)
  <2>1. /\ n \in Threads /\ r.timely <= r.total + Slack(u, n, k + 1) /\ pc[u] = "readDuration"
    BY <1>0, <1>n, <1>4 DEF SumBound, ReadDuration
  <2>2. PICK d : d = sum[u].duration + duration[n][k]
    OBVIOUS
  <2>3. CASE k + 1 < NumTypes
    <3>1. PICK s : s = [next |-> n, type |-> k + 1, timely |-> r.timely, total |-> r.total, duration |-> d]
      OBVIOUS
    <3>2. /\ UNCHANGED <<timely, total, duration, xact>> /\ Goto(u, "readTimely")
          /\ k + 1 \in Types /\ d \in Nat /\ sum' = [sum EXCEPT ![u] = s]
      BY <1>0, <1>n, <1>4, <2>1, <2>2, <2>3, <3>1, ReadDurationStep
    <3>3. s \in Sums
      BY <1>b, <3>1, <3>2 DEF Sums
    <3>4. sum'[u] = s /\ pc'[u] = "readTimely"
      BY <1>0, <3>2 DEF Goto
    <3>5. SumBound(u)'
      BY <2>1, <3>1, <3>4 DEF SumBound
    <3> QED
      BY <2>1, <3>2, <3>3, <3>5, SamplerStep
  <2>4. CASE ~(k + 1 < NumTypes)
    <3>1. PICK s : s = [next |-> n + 1, type |-> 0, timely |-> r.timely, total |-> r.total, duration |-> d]
      OBVIOUS
    <3>2. PICK l : l = IF n + 1 < NumThreads THEN "readTimely" ELSE "advance"
      OBVIOUS
    <3>3. /\ UNCHANGED <<timely, total, duration, xact>> /\ Goto(u, l)
          /\ k + 1 = NumTypes /\ d \in Nat /\ sum' = [sum EXCEPT ![u] = s]
      BY <1>0, <1>n, <1>4, <2>1, <2>2, <2>4, <3>1, <3>2, ReadDurationStep
    <3>4. s \in Sums
      BY <1>b, <3>1, <3>3, TypesHaveZero DEF Sums
    <3>5. sum'[u] = s /\ pc'[u] = l
      BY <1>0, <3>3 DEF Goto
    <3>6. r.timely <= r.total + Slack(u, n + 1, 0)
      BY <1>c, <2>1, <3>3
    <3>7. CASE n + 1 < NumThreads
      <4>1. n + 1 \in Threads
        BY <2>1, <3>7 DEF Threads
      <4>2. SumBound(u)'
        BY <3>1, <3>2, <3>5, <3>6, <3>7, <4>1 DEF SumBound
      <4> QED
        BY <2>1, <3>2, <3>3, <3>4, <3>7, <4>2, SamplerStep
    <3>8. CASE ~(n + 1 < NumThreads)
      <4>1. n + 1 = NumThreads
        BY <2>1, <3>8 DEF Threads
      <4>2. Slack(u, NumThreads, 0) = NumTypes * (NumThreads - 1)
        BY <1>b, <2>1, SlackGrows
      <4>3. r.timely <= r.total + NumTypes * (NumThreads - 1)
        BY <3>6, <4>1, <4>2
      <4>4. SumBound(u)'
        BY <3>1, <3>2, <3>5, <3>8, <4>3 DEF SumBound
      <4> QED
        BY <2>1, <3>2, <3>3, <3>4, <3>8, <4>4, SamplerStep
    <3> QED
      BY <3>7, <3>8
  <2> QED
    BY <2>3, <2>4
<1>5. CASE Advance(u) \/ Assign(u) \/ Store(u) \/ MonitorDegree(u) \/ MonitorDelay(u)
  <2> DEFINE After == {"assign", "store", "monitor", "delay", "print"}
  <2>1. PICK l \in After : Goto(u, l)
    BY <1>5 DEF Advance, Assign, Store, MonitorDegree, MonitorDelay
  <2>2. UNCHANGED <<timely, total, duration, xact, sum>> /\ pc[u] # "total"
    BY <1>5 DEF Advance, Assign, Store, MonitorDegree, MonitorDelay, counters, sampler
  <2>3. pc'[u] = l
    BY <1>0, <2>1 DEF Goto
  <2>4. SumBound(u)'
    BY <2>1, <2>3 DEF SumBound
  <2> QED
    BY <1>0, <1>a, <2>1, <2>2, <2>4, SamplerStep
<1>6. CASE StatsPrint(u)
  <2>1. SumBound(u)'
    BY <1>0, <1>6 DEF SumBound, StatsPrint, Goto
  <2>2. NoSum \in Sums
    BY TypesHaveZero DEF NoSum, Sums
  <2> QED
    BY <1>6, <2>1, <2>2, SamplerStep DEF StatsPrint, counters
<1> QED
  BY <1>1, <1>2, <1>3, <1>4, <1>5, <1>6

\* Every step keeps the invariant.
LEMMA SumStep == SumInv /\ [Next]_vars => SumInv'
<1> SUFFICES ASSUME SumInv, [Next]_vars PROVE SumInv'
  OBVIOUS
<1>1. ASSUME NEW t \in Threads, ThreadStep(t) PROVE SumInv'
  <2>1. CASE AddTimely(t) \/ AddTotal(t)
    <3>1. AddDuration(t, 0, 0, TRUE) \/ AddTimely(t) \/ AddTotal(t)
      BY <2>1
    <3> QED
      BY <3>1, SumCounting, TypesHaveZero
  <2> QED
    BY <1>1, <2>1, SumSampling DEF ThreadStep
<1>2. ASSUME NEW t \in Threads, NEW type \in Types, NEW ms \in Durations, NEW ok \in BOOLEAN,
             AddDuration(t, type, ms, ok)
      PROVE  SumInv'
  BY <1>2, SumCounting, SamplingAssumption
<1>3. ASSUME UNCHANGED <<pc, counters, sampler>> PROVE SumInv'
  BY <1>3 DEF counters, sampler, SumInv, CounterTypes, OwnCounters, Ahead, SumBound
<1> QED
  BY <1>1, <1>2, <1>3 DEF Next, Period, vars

\* The sums of aggregate_thread_stats are torn by at most one transaction for
\* every type of every other processing thread, each caught between the two
\* increments of update_thread_stats; how many threads there are does not matter.
THEOREM TearingIsBounded == Spec => []TimelyBounded
<1>1. SumInv => TimelyBounded
  BY DEF SumInv, SumBound, TimelyBounded
<1> QED
  BY <1>1, SumInit, SumStep, PTL DEF Spec

-----------------------------------------------------------------------------
(***************************************************************************)
(* One processing thread.  Its samples then follow each other, and slot s  *)
(* of the ring holds what the thread added up as many samples ago as s is  *)
(* behind sample_num: this is the link between the ring and the history    *)
(* variable `reads' that makes MinuteCounts and RowsAddUp inductive.  With *)
(* a second thread it is lost, as the run of MCMinute shows.               *)
(***************************************************************************)

Rows == [history : 0 .. MaxXacts, timely : 0 .. MaxXacts, duration : Nat,
         tpm : 0 .. MaxXacts, ttpm : 0 .. MaxXacts,
         count_in_period : 0 .. MaxXacts, duration_in_period : Nat]

\* The types of what TypeOK is about and of what it rests on.
SampleTypes ==
  /\ CounterTypes
  /\ xacts \in 0 .. MaxXacts
  /\ due \subseteq Threads
  /\ sample_num \in SlotRange
  /\ slot \in [Threads -> SlotRange]
  /\ ring \in [SlotRange -> Rows]
  /\ smoth_degree_timing_violation \in Nat
  /\ inter_xact_sleep_ms \in Nat
  /\ reads \in [Threads -> Seq(Nat)]
  /\ Len(reads[0]) = Slots + 1

\* What the first k types of a thread add up to.
Over(f, k) ==
  (IF k > 0 THEN f[0] ELSE 0) + (IF k > 1 THEN f[1] ELSE 0)
    + (IF k > 2 THEN f[2] ELSE 0) + (IF k > 3 THEN f[3] ELSE 0)

\* The counters of the thread over all types.
Total    == Over(total[0], NumTypes)
Timely   == Over(timely[0], NumTypes)
Duration == Over(duration[0], NumTypes)

\* The sums when the thread has read the counters of as many types as given.
SumsOf(n, k, a, b, c) ==
  [next |-> n, type |-> k, timely |-> Over(timely[0], a),
   total |-> Over(total[0], b), duration |-> Over(duration[0], c)]

\* The transaction that is being counted is in xacts, but not yet in the counters.
Counted ==
  /\ Timely + (IF pc[0] = "timely" THEN 1 ELSE 0) <= xacts
  /\ Total + (IF pc[0] \in {"timely", "total"} THEN 1 ELSE 0) <= xacts

\* The thread does not count while it adds up, so its sums are its counters.
OwnSums ==
  /\ pc[0] \in {"round", "timely", "total"} => sum[0] = NoSum
  /\ pc[0] = "readTimely" => sum[0] = SumsOf(0, sum[0].type, sum[0].type, sum[0].type, sum[0].type)
  /\ pc[0] = "readTotal" => sum[0] = SumsOf(0, sum[0].type, sum[0].type + 1, sum[0].type, sum[0].type)
  /\ pc[0] = "readDuration" =>
       sum[0] = SumsOf(0, sum[0].type, sum[0].type + 1, sum[0].type + 1, sum[0].type)
  /\ pc[0] \in {"advance", "assign", "store", "monitor", "delay", "print"} =>
       sum[0] = SumsOf(1, 0, NumTypes, NumTypes, NumTypes)

\* No sample is ahead of the counters.
NotAhead ==
  \A s \in SlotRange : /\ ring[s].history <= Total
                       /\ ring[s].timely <= Timely
                       /\ ring[s].duration <= Duration

\* Where the total of slot s is in `reads' when slot n is the latest one, and
\* when slot n is the one to be overwritten next.
Place(s, n) == IF s <= n THEN Slots + 1 - n + s ELSE 1 - n + s
NextPlace(s, n) == IF s < n THEN Slots + 2 - n + s ELSE 2 - n + s

RingRecords ==
  \A s \in SlotRange :
    ring[s].history = reads[0][IF pc[0] = "store" THEN NextPlace(s, sample_num)
                                                  ELSE Place(s, sample_num)]

Successor(n) == IF n + 1 = Slots THEN 0 ELSE n + 1

\* The slot of the sample and the counts that have been stored in it.
RowStored ==
  /\ pc[0] = "assign" => slot[0] = Successor(sample_num)
  /\ pc[0] \in {"monitor", "delay", "print"} =>
       /\ slot[0] = sample_num
       /\ ring[sample_num].tpm = reads[0][Slots + 1] - reads[0][1]
       /\ ring[sample_num].count_in_period = reads[0][Slots + 1] - reads[0][Slots]

SampleInv == SampleTypes /\ Counted /\ OwnSums /\ NotAhead /\ RingRecords /\ RowStored

LEMMA NextSlot ==
  ASSUME NEW n \in SlotRange
  PROVE  /\ (n + 1) % Slots = Successor(n) /\ Successor(n) \in SlotRange
         /\ (n + Slots - 1) % Slots = IF n = 0 THEN Slots - 1 ELSE n - 1
<1> USE SamplingAssumption
<1>1. /\ n + 1 < Slots => (n + 1) % Slots = n + 1
      /\ Slots % Slots = 0
  BY DEF SlotRange
<1>2. (n + 1) % Slots = Successor(n)
  BY <1>1 DEF SlotRange, Successor
<1>3. n = 0 => (n + Slots - 1) % Slots = Slots - 1
  BY DEF SlotRange
<1>4. n # 0 => (n + Slots - 1) % Slots = n - 1
  <2> SUFFICES ASSUME n # 0 PROVE (n + Slots - 1) % Slots = n - 1
    OBVIOUS
  <2> DEFINE k == n - 1
  <2>1. k \in 0 .. Slots - 1 /\ n + Slots - 1 = k + Slots
    BY DEF SlotRange
  <2> HIDE DEF k
  <2>2. (k + Slots) % Slots = k
    BY <2>1
  <2> QED
    BY <2>1, <2>2 DEF k
<1> QED
  BY <1>2, <1>3, <1>4 DEF SlotRange, Successor

\* Quotients of natural numbers are natural numbers.
LEMMA Quotient ==
  ASSUME NEW a \in Nat, NEW b \in Nat \ {0}
  PROVE  a \div b \in Nat
OBVIOUS

LEMMA DegreeNatural ==
  ASSUME NEW ms \in Nat, NEW count \in Nat, NEW previous \in Nat
  PROVE  Smoothed(OverloadDegree(ms, count), previous) \in Nat
<1> USE SamplingAssumption
<1>1. OverloadDegree(ms, count) \in Nat
  <2>1. CASE count > 0 /\ desiredDelayBoundMS > 0 /\ ms > count * desiredDelayBoundMS
    <3> DEFINE b == count * desiredDelayBoundMS
    <3>1. b \in Nat \ {0}
      BY <2>1
    <3>2. Scale * (ms - b) \in Nat
      <4> HIDE DEF b
      <4>1. ms > b
        BY <2>1 DEF b
      <4> QED
        BY <3>1, <4>1 DEF Scale
    <3>3. (Scale * (ms - b)) \div b \in Nat
      BY <3>1, <3>2, Quotient
    <3> QED
      BY <2>1, <3>3 DEF OverloadDegree
  <2>2. CASE ~(count > 0 /\ desiredDelayBoundMS > 0 /\ ms > count * desiredDelayBoundMS)
    BY <2>2 DEF OverloadDegree
  <2> QED
    BY <2>1, <2>2
<1>2. 6 * OverloadDegree(ms, count) + 4 * previous \in Nat
  BY <1>1
<1> QED
  BY <1>2, Quotient DEF Smoothed

LEMMA OverFacts ==
  ASSUME NEW f \in [Types -> Nat]
  PROVE  /\ Over(f, 0) = 0 /\ Over(f, NumTypes) \in Nat
         /\ \A k \in Types : /\ Over(f, k) \in Nat /\ Over(f, k + 1) = Over(f, k) + f[k]
                             /\ f[k] <= Over(f, NumTypes)
<1> USE SamplingAssumption DEF Over, Types
<1>1. CASE NumTypes = 1
  BY <1>1
<1>2. CASE NumTypes = 2
  BY <1>2
<1>3. CASE NumTypes = 3
  BY <1>3
<1>4. CASE NumTypes = 4
  BY <1>4
<1> QED
  BY <1>1, <1>2, <1>3, <1>4

\* Adding to the counter of one type adds as much to the sum.
LEMMA OverAdds ==
  ASSUME NEW f \in [Types -> Nat], NEW k \in Types, NEW n \in Nat,
         NEW g, g = [f EXCEPT ![k] = f[k] + n]
  PROVE  Over(g, NumTypes) = Over(f, NumTypes) + n
<1> USE SamplingAssumption DEF Over
<1>0. /\ g \in [Types -> Nat] /\ g[k] = f[k] + n /\ f[k] \in Nat
      /\ \A i \in Types : f[i] \in Nat /\ (i # k => g[i] = f[i])
  OBVIOUS
<1>1. CASE NumTypes = 1
  BY <1>0, <1>1 DEF Types
<1>2. CASE NumTypes = 2
  BY <1>0, <1>2 DEF Types
<1>3. CASE NumTypes = 3
  BY <1>0, <1>3 DEF Types
<1>4. CASE NumTypes = 4
  BY <1>0, <1>4 DEF Types
<1> QED
  BY <1>1, <1>2, <1>3, <1>4

\* The counters over all types are natural numbers.
LEMMA TotalsNatural ==
  ASSUME NEW f \in Counters, 0 \in Threads
  PROVE  f[0] \in [Types -> Nat] /\ Over(f[0], NumTypes) \in Nat
BY OverFacts DEF Counters

LEMMA SampleInit == NumThreads = 1 /\ Init => SampleInv
<1> SUFFICES ASSUME NumThreads = 1, Init PROVE SampleInv
  OBVIOUS
<1> USE SamplingAssumption
<1>1. 0 \in Threads /\ 0 \in SlotRange
  BY DEF Threads, SlotRange
<1>2. CounterTypes
  BY SumInit DEF SumInv
<1>3. reads \in [Threads -> Seq(Nat)] /\ Len(reads[0]) = Slots + 1
  <2> DEFINE r == [i \in 1 .. Slots + 1 |-> 0]
  <2>1. r \in Seq(Nat) /\ Len(r) = Slots + 1
    OBVIOUS
  <2>2. reads = [t \in Threads |-> r]
    BY DEF Init
  <2> HIDE DEF r
  <2> QED
    BY <1>1, <2>1, <2>2
<1>4. NoSlot \in Rows
  BY DEF NoSlot, Rows
<1>5. SampleTypes
  BY <1>1, <1>2, <1>3, <1>4 DEF Init, SampleTypes
<1>6. Total = 0 /\ Timely = 0 /\ Duration = 0
  <2>1. PICK z : z = [k \in Types |-> 0]
    OBVIOUS
  <2>2. Over(z, NumTypes) = 0
    BY <2>1 DEF Over, Types
  <2> QED
    BY <1>1, <2>1, <2>2 DEF Init, Total, Timely, Duration
<1>8. Counted /\ OwnSums /\ NotAhead /\ RowStored
  BY <1>1, <1>6 DEF Init, Counted, OwnSums, NotAhead, RowStored, NoSlot
<1>7. RingRecords
  <2> SUFFICES ASSUME NEW s \in SlotRange PROVE reads[0][Place(s, sample_num)] = 0
    BY <1>1 DEF Init, RingRecords, NoSlot
  <2>1. Place(s, sample_num) \in 1 .. Slots + 1
    BY DEF Init, Place, SlotRange
  <2> QED
    BY <1>1, <2>1 DEF Init
<1> QED
  BY <1>5, <1>7, <1>8 DEF SampleInv

\* A step that leaves the ring alone and only lets the counters grow.
LEMMA RingUntouched ==
  ASSUME SampleTypes, NotAhead, RingRecords, UNCHANGED <<sample_num, ring, reads>>,
         Total <= Total', Timely <= Timely', Duration <= Duration',
         Total' \in Nat, Timely' \in Nat, Duration' \in Nat,
         pc[0] # "store", pc'[0] # "store", 0 \in Threads
  PROVE  NotAhead' /\ RingRecords'
<1>1. NotAhead'
  <2> SUFFICES ASSUME NEW s \in SlotRange
               PROVE  /\ ring[s].history <= Total'
                      /\ ring[s].timely <= Timely'
                      /\ ring[s].duration <= Duration'
    BY DEF NotAhead
  <2>1. /\ ring[s].history \in Nat /\ ring[s].timely \in Nat /\ ring[s].duration \in Nat
        /\ Total \in Nat /\ Timely \in Nat /\ Duration \in Nat
    <3>1. ring[s] \in Rows
      BY DEF SampleTypes
    <3>2. ring[s].history \in Nat /\ ring[s].timely \in Nat /\ ring[s].duration \in Nat
      BY <3>1, SamplingAssumption DEF Rows
    <3>3. Total \in Nat /\ Timely \in Nat /\ Duration \in Nat
      BY TotalsNatural DEF SampleTypes, CounterTypes, Total, Timely, Duration
    <3> QED
      BY <3>2, <3>3
  <2>2. /\ ring[s].history <= Total
        /\ ring[s].timely <= Timely
        /\ ring[s].duration <= Duration
    BY DEF NotAhead
  <2> QED
    BY <2>1, <2>2
<1>2. RingRecords'
  BY DEF RingRecords
<1> QED
  BY <1>1, <1>2

LEMMA SampleCounting ==
  ASSUME NumThreads = 1, SampleInv, CounterTypes', 
         NEW type \in Types, NEW ms \in Nat, NEW ok \in BOOLEAN,
         AddDuration(0, type, ms, ok) \/ AddTimely(0) \/ AddTotal(0)
  PROVE  SampleInv'
<1> USE SamplingAssumption
<1>1. 0 \in Threads
  BY DEF Threads
<1>2. SampleTypes'
  BY DEF SampleInv, SampleTypes, AddDuration, AddTimely, AddTotal, sampler, shared, degree
<1>3. /\ pc'[0] \in {"round", "timely", "total"} /\ pc[0] \in {"round", "timely", "total"}
      /\ UNCHANGED <<sum, slot, sample_num, ring, reads>>
  BY <1>1 DEF SampleInv, SampleTypes, CounterTypes, AddDuration, AddTimely, AddTotal, Goto, sampler, shared
<1>a. /\ xacts \in Nat /\ pc \in [Threads -> Labels] /\ timely \in Counters
      /\ total \in Counters /\ duration \in Counters
      /\ timely[0] \in [Types -> Nat] /\ total[0] \in [Types -> Nat] /\ duration[0] \in [Types -> Nat]
      /\ xact[0].type \in Types
  <2>1. /\ xacts \in 0 .. MaxXacts /\ pc \in [Threads -> Labels] /\ timely \in Counters
        /\ total \in Counters /\ duration \in Counters
        /\ xact \in [Threads -> [type : Types, ms : Nat, ok : BOOLEAN]]
    BY DEF SampleInv, SampleTypes, CounterTypes
  <2>2. xact[0] \in [type : Types, ms : Nat, ok : BOOLEAN]
    BY <1>1, <2>1
  <2>3. /\ timely[0] \in [Types -> Nat] /\ total[0] \in [Types -> Nat]
        /\ duration[0] \in [Types -> Nat]
    BY <1>1, <2>1, TotalsNatural
  <2> QED
    BY <2>1, <2>2, <2>3
<1>n. /\ Timely \in Nat /\ Total \in Nat /\ Duration \in Nat
  BY <1>1, <1>a, TotalsNatural DEF Total, Timely, Duration
<1>b. \/ /\ pc[0] = "round" /\ pc'[0] = "timely" /\ UNCHANGED <<timely, total>>
         /\ xacts' = xacts + 1 /\ Duration' = Duration + ms
      \/ /\ pc[0] = "timely" /\ pc'[0] = "total" /\ UNCHANGED <<duration, total, xacts>>
         /\ Timely' = Timely \/ Timely' = Timely + 1
      \/ /\ pc[0] = "total" /\ pc'[0] = "round" /\ UNCHANGED <<duration, timely, xacts>>
         /\ Total' = Total + 1
  <2>1. CASE AddDuration(0, type, ms, ok)
    <3>1. duration'[0] = [duration[0] EXCEPT ![type] = duration[0][type] + ms]
      BY <1>1, <1>a, <2>1 DEF AddDuration, Counters
    <3>2. Duration' = Duration + ms
      BY <1>a, <3>1, OverAdds DEF Duration
    <3> QED
      BY <1>1, <1>a, <2>1, <3>2 DEF AddDuration, Goto
  <2>2. CASE AddTimely(0)
    <3>k. PICK k \in Types : k = xact[0].type
      BY <1>a
    <3>1. PICK n \in {timely[0][k], timely[0][k] + 1} : timely' = [timely EXCEPT ![0][k] = n]
      BY <1>1, <2>2, <3>k, TimelyStep
    <3>2. timely'[0] = [timely[0] EXCEPT ![k] = n]
      BY <1>1, <1>a, <3>1 DEF Counters
    <3>3. PICK d \in {0, 1} : n = timely[0][k] + d
      <4>1. timely[0][k] \in Nat
        BY <1>a
      <4> QED
        BY <3>1, <4>1
    <3>4. timely'[0] = [timely[0] EXCEPT ![k] = timely[0][k] + d]
      BY <3>2, <3>3
    <3>5. Timely' = Timely + d
      BY <1>a, <3>3, <3>4, OverAdds DEF Timely
    <3> QED
      BY <1>1, <1>a, <1>n, <2>2, <3>5 DEF AddTimely, Goto
  <2>3. CASE AddTotal(0)
    <3>k. PICK k \in Types : k = xact[0].type
      BY <1>a
    <3>1. total'[0] = [total[0] EXCEPT ![k] = total[0][k] + 1]
      BY <1>1, <1>a, <2>3, <3>k DEF AddTotal, Counters
    <3>2. Total' = Total + 1
      BY <1>a, <3>1, OverAdds DEF Total
    <3> QED
      BY <1>1, <1>a, <2>3, <3>2 DEF AddTotal, Goto
  <2> QED
    BY <2>1, <2>2, <2>3
<1>c. /\ (UNCHANGED timely => Timely' = Timely) /\ (UNCHANGED total => Total' = Total)
      /\ (UNCHANGED duration => Duration' = Duration)
  BY DEF Timely, Total, Duration
<1>4. Counted'
  BY <1>a, <1>b, <1>c, <1>n DEF SampleInv, Counted
<1>5. OwnSums' /\ RowStored'
  BY <1>3 DEF SampleInv, OwnSums, RowStored
<1>6. /\ Total <= Total' /\ Timely <= Timely' /\ Duration <= Duration'
      /\ Total' \in Nat /\ Timely' \in Nat /\ Duration' \in Nat
  BY <1>b, <1>c, <1>n
<1>7. NotAhead' /\ RingRecords'
  BY <1>1, <1>3, <1>6, RingUntouched DEF SampleInv
<1> QED
  BY <1>2, <1>4, <1>5, <1>7 DEF SampleInv

\* The sums are taken, and the slot of the sample is chosen.
LEMMA SampleReading ==
  ASSUME NumThreads = 1, SampleInv, CounterTypes',
         AggregateStart(0) \/ ReadTimely(0) \/ ReadTotal(0) \/ ReadDuration(0) \/ Advance(0)
  PROVE  SampleInv'
<1> USE SamplingAssumption
<1>1. 0 \in Threads
  BY DEF Threads
<1>2. /\ UNCHANGED <<timely, total, duration, xacts, due, sample_num, ring, reads>>
      /\ UNCHANGED degree
  BY DEF AggregateStart, ReadTimely, ReadTotal, ReadDuration, Advance, counters, shared
<1>3. /\ pc[0] \in {"round", "readTimely", "readTotal", "readDuration", "advance"}
      /\ pc'[0] \in {"readTimely", "readTotal", "readDuration", "advance", "assign"}
  BY <1>1 DEF SampleInv, SampleTypes, CounterTypes, AggregateStart, ReadTimely, ReadTotal,
              ReadDuration, Advance, Goto
<1>4. slot' \in [Threads -> SlotRange] /\ (pc'[0] = "assign" => slot'[0] = Successor(sample_num))
  <2>1. CASE Advance(0)
    <3>1. (sample_num + 1) % Slots = Successor(sample_num) /\ Successor(sample_num) \in SlotRange
      BY NextSlot DEF SampleInv, SampleTypes
    <3> QED
      BY <1>1, <2>1, <3>1 DEF SampleInv, SampleTypes, Advance
  <2>2. CASE ~Advance(0)
    BY <1>1, <2>2 DEF SampleInv, SampleTypes, CounterTypes, AggregateStart, ReadTimely, ReadTotal,
                      ReadDuration, Goto, sampler
  <2> QED
    BY <2>1, <2>2
<1>5. SampleTypes'
  BY <1>2, <1>4 DEF SampleInv, SampleTypes, degree
<1>6. Counted'
  BY <1>2, <1>3 DEF SampleInv, Counted, Total, Timely
<1>t. Total' = Total /\ Timely' = Timely /\ Duration' = Duration
  BY <1>2 DEF Total, Timely, Duration
<1>7. OwnSums'
  <2>0. /\ pc \in [Threads -> Labels] /\ sum \in [Threads -> Sums] /\ sum[0] \in Sums /\ OwnSums
        /\ timely \in Counters /\ total \in Counters /\ duration \in Counters
    BY <1>1 DEF SampleInv, SampleTypes, CounterTypes
  <2>k. PICK k \in Types, r \in Sums : k = sum[0].type /\ r = sum[0]
    BY <2>0 DEF Sums
  <2>f. PICK f, g, h : f = timely[0] /\ g = total[0] /\ h = duration[0]
    OBVIOUS
  <2>o. /\ Over(f, 0) = 0 /\ Over(g, 0) = 0 /\ Over(h, 0) = 0
        /\ Over(f, k + 1) = Over(f, k) + f[k] /\ Over(g, k + 1) = Over(g, k) + g[k]
        /\ Over(h, k + 1) = Over(h, k) + h[k]
    <3>1. f \in [Types -> Nat] /\ g \in [Types -> Nat] /\ h \in [Types -> Nat]
      BY <1>1, <2>0, <2>f, TotalsNatural
    <3> QED
      BY <3>1, OverFacts
  <2>s. ASSUME NEW n, NEW i, NEW a, NEW b, NEW c
        PROVE  /\ SumsOf(n, i, a, b, c) = [next |-> n, type |-> i, timely |-> Over(f, a),
                                          total |-> Over(g, b), duration |-> Over(h, c)]
               /\ SumsOf(n, i, a, b, c)' = [next |-> n, type |-> i, timely |-> Over(f, a),
                                           total |-> Over(g, b), duration |-> Over(h, c)]
    BY <1>2, <2>f DEF SumsOf, Over
  <2>1. CASE AggregateStart(0)
    <3>1. sum'[0] = NoSum /\ pc'[0] = "readTimely"
      BY <1>1, <2>0, <2>1 DEF OwnSums, AggregateStart, Goto, sampler
    <3>2. SumsOf(0, 0, 0, 0, 0)' = NoSum
      BY <2>o, <2>s DEF NoSum
    <3>3. SumsOf(0, sum[0].type, sum[0].type, sum[0].type, sum[0].type)' = SumsOf(0, 0, 0, 0, 0)'
      BY <3>1 DEF NoSum, SumsOf
    <3> QED
      BY <3>1, <3>2, <3>3 DEF OwnSums
  <2>2. CASE ReadTimely(0)
    <3>1. r = SumsOf(0, k, k, k, k) /\ pc'[0] = "readTotal"
      BY <1>1, <2>0, <2>k, <2>2 DEF OwnSums, ReadTimely, Goto
    <3>2. r = [next |-> 0, type |-> k, timely |-> Over(f, k), total |-> Over(g, k), duration |-> Over(h, k)]
      BY <2>s, <3>1
    <3>3. sum'[0] = [r EXCEPT !.timely = r.timely + f[k]]
      BY <1>1, <2>0, <2>k, <2>f, <2>2, <3>2 DEF ReadTimely
    <3>4. sum'[0] = [next |-> 0, type |-> k, timely |-> Over(f, k + 1), total |-> Over(g, k),
                     duration |-> Over(h, k)]
      BY <2>o, <3>2, <3>3
    <3>5. sum'[0] = SumsOf(0, k, k + 1, k, k)' /\ sum'[0].type = k
      BY <2>s, <3>4
    <3>6. SumsOf(0, sum[0].type, sum[0].type + 1, sum[0].type, sum[0].type)' = SumsOf(0, k, k + 1, k, k)'
      BY <3>5 DEF SumsOf
    <3> QED
      BY <3>1, <3>5, <3>6 DEF OwnSums
  <2>3. CASE ReadTotal(0)
    <3>1. r = SumsOf(0, k, k + 1, k, k) /\ pc'[0] = "readDuration"
      BY <1>1, <2>0, <2>k, <2>3 DEF OwnSums, ReadTotal, Goto
    <3>2. r = [next |-> 0, type |-> k, timely |-> Over(f, k + 1), total |-> Over(g, k), duration |-> Over(h, k)]
      BY <2>s, <3>1
    <3>3. sum'[0] = [r EXCEPT !.total = r.total + g[k]]
      BY <1>1, <2>0, <2>k, <2>f, <2>3, <3>2 DEF ReadTotal
    <3>4. sum'[0] = [next |-> 0, type |-> k, timely |-> Over(f, k + 1), total |-> Over(g, k + 1),
                     duration |-> Over(h, k)]
      BY <2>o, <3>2, <3>3
    <3>5. sum'[0] = SumsOf(0, k, k + 1, k + 1, k)' /\ sum'[0].type = k
      BY <2>s, <3>4
    <3>6. SumsOf(0, sum[0].type, sum[0].type + 1, sum[0].type + 1, sum[0].type)'
            = SumsOf(0, k, k + 1, k + 1, k)'
      BY <3>5 DEF SumsOf
    <3> QED
      BY <3>1, <3>5, <3>6 DEF OwnSums
  <2>4. CASE ReadDuration(0)
    <3>1. r = SumsOf(0, k, k + 1, k + 1, k)
      BY <2>0, <2>k, <2>4 DEF OwnSums, ReadDuration
    <3>2. /\ r = [next |-> 0, type |-> k, timely |-> Over(f, k + 1), total |-> Over(g, k + 1),
                  duration |-> Over(h, k)]
          /\ r.next = 0
      BY <2>s, <3>1
    <3>3. CounterTypes /\ sum[0].next \in Threads
      BY <1>1, <2>k, <3>2 DEF SampleInv, SampleTypes
    <3>4. r.duration + h[k] = Over(h, k + 1)
      BY <2>o, <3>2
    <3>5. CASE k + 1 < NumTypes
      <4>1. /\ Goto(0, "readTimely")
            /\ sum' = [sum EXCEPT ![0] = [next |-> 0, type |-> k + 1, timely |-> r.timely,
                                          total |-> r.total, duration |-> r.duration + h[k]]]
        BY <1>1, <2>k, <2>f, <2>4, <3>2, <3>3, <3>5, ReadDurationStep
      <4>2. pc'[0] = "readTimely"
        BY <1>1, <2>0, <4>1 DEF Goto
      <4>3. sum'[0] = [next |-> 0, type |-> k + 1, timely |-> Over(f, k + 1),
                       total |-> Over(g, k + 1), duration |-> Over(h, k + 1)]
        BY <1>1, <2>0, <3>2, <3>4, <4>1
      <4>4. sum'[0] = SumsOf(0, k + 1, k + 1, k + 1, k + 1)' /\ sum'[0].type = k + 1
        BY <2>s, <4>3
      <4>5. SumsOf(0, sum[0].type, sum[0].type, sum[0].type, sum[0].type)'
              = SumsOf(0, k + 1, k + 1, k + 1, k + 1)'
        BY <4>4 DEF SumsOf
      <4> QED
        BY <4>2, <4>4, <4>5 DEF OwnSums
    <3>6. CASE ~(k + 1 < NumTypes)
      <4>0. (IF r.next + 1 < NumThreads THEN "readTimely" ELSE "advance") = "advance" /\ r.next + 1 = 1
        BY <3>2
      <4>1. /\ Goto(0, "advance") /\ k + 1 = NumTypes
            /\ sum' = [sum EXCEPT ![0] = [next |-> 1, type |-> 0, timely |-> r.timely,
                                          total |-> r.total, duration |-> r.duration + h[k]]]
        <5>1. /\ Goto(0, IF sum[0].next + 1 < NumThreads THEN "readTimely" ELSE "advance")
              /\ sum[0].type + 1 = NumTypes
              /\ sum' = [sum EXCEPT ![0] =
                           [next |-> sum[0].next + 1, type |-> 0, timely |-> sum[0].timely, total |-> sum[0].total,
                            duration |-> sum[0].duration + duration[sum[0].next][sum[0].type]]]
          BY <1>1, <2>k, <2>4, <3>3, <3>6, ReadDurationStep
        <5>2. r.next = 0 /\ duration[sum[0].next][sum[0].type] = h[k]
          BY <2>k, <2>f, <3>2
        <5> QED
          BY <2>k, <4>0, <5>1, <5>2
      <4>2. pc'[0] = "advance"
        BY <1>1, <2>0, <4>1 DEF Goto
      <4>3. sum'[0] = [next |-> 1, type |-> 0, timely |-> Over(f, NumTypes),
                       total |-> Over(g, NumTypes), duration |-> Over(h, NumTypes)]
        BY <1>1, <2>0, <3>2, <3>4, <4>1
      <4>4. sum'[0] = SumsOf(1, 0, NumTypes, NumTypes, NumTypes)'
        BY <2>s, <4>3
      <4> QED
        BY <4>2, <4>4 DEF OwnSums
    <3> QED
      BY <3>5, <3>6
  <2>5. CASE Advance(0)
    BY <1>1, <1>2, <2>0, <2>5 DEF OwnSums, SumsOf, Advance, Goto
  <2> QED
    BY <2>1, <2>2, <2>3, <2>4, <2>5
<1>8. NotAhead' /\ RingRecords'
  <2>1. /\ Total <= Total' /\ Timely <= Timely' /\ Duration <= Duration'
        /\ Total' \in Nat /\ Timely' \in Nat /\ Duration' \in Nat
    <3>1. Total \in Nat /\ Timely \in Nat /\ Duration \in Nat
      BY <1>1, TotalsNatural DEF SampleInv, SampleTypes, CounterTypes, Total, Timely, Duration
    <3>2. Total' = Total /\ Timely' = Timely /\ Duration' = Duration
      BY <1>2 DEF Total, Timely, Duration
    <3> QED
      BY <3>1, <3>2
  <2> QED
    BY <1>1, <1>2, <1>3, <2>1, RingUntouched DEF SampleInv
<1>9. RowStored'
  BY <1>2, <1>3, <1>4 DEF RowStored
<1> QED
  BY <1>5, <1>6, <1>7, <1>8, <1>9 DEF SampleInv

\* sample_num is moved on: what was the latest slot is now the one before it.
LEMMA SampleAssign ==
  ASSUME NumThreads = 1, SampleInv, CounterTypes', Assign(0)
  PROVE  SampleInv'
<1> USE SamplingAssumption
<1>1. 0 \in Threads
  BY DEF Threads
<1>2. /\ UNCHANGED <<timely, total, duration, xacts, due, sum, slot, ring, reads>> /\ UNCHANGED degree
      /\ sample_num' = slot[0] /\ pc[0] = "assign" /\ pc'[0] = "store"
  BY <1>1 DEF SampleInv, SampleTypes, CounterTypes, Assign, Goto, counters, sampler
<1>3. slot[0] = Successor(sample_num) /\ slot[0] \in SlotRange /\ sample_num \in SlotRange
  BY <1>1, <1>2 DEF SampleInv, SampleTypes, RowStored
<1>4. SampleTypes'
  BY <1>2, <1>3 DEF SampleInv, SampleTypes, degree
<1>5. Counted' /\ OwnSums' /\ NotAhead' /\ RowStored'
  BY <1>2 DEF SampleInv, Counted, OwnSums, NotAhead, RowStored, SumsOf, Total, Timely, Duration
<1>6. ASSUME NEW s \in SlotRange PROVE NextPlace(s, Successor(sample_num)) = Place(s, sample_num)
  BY <1>3 DEF NextPlace, Successor, Place, SlotRange
<1>7. RingRecords'
  BY <1>2, <1>3, <1>6 DEF SampleInv, RingRecords
<1> QED
  BY <1>4, <1>5, <1>7 DEF SampleInv

\* The slot sample_num names is overwritten, and the history moves on by one.
LEMMA SampleStore ==
  ASSUME NumThreads = 1, SampleInv, CounterTypes', Store(0)
  PROVE  SampleInv'
<1> USE SamplingAssumption
<1> DEFINE n    == sample_num
           p    == IF n = 0 THEN Slots - 1 ELSE n - 1
           row  == [history |-> Total, timely |-> Timely, duration |-> Duration,
                    tpm |-> Total - ring[n].history, ttpm |-> Timely - ring[n].timely,
                    count_in_period |-> Total - ring[p].history,
                    duration_in_period |-> Duration - ring[p].duration]
<1>1. 0 \in Threads
  BY DEF Threads
<1>2. /\ UNCHANGED <<timely, total, duration, xacts, due, sum, sample_num>> /\ UNCHANGED degree
      /\ pc[0] = "store" /\ pc'[0] = "monitor"
  BY <1>1 DEF SampleInv, SampleTypes, CounterTypes, Store, Goto, counters
<1>3. /\ n \in SlotRange /\ p \in SlotRange /\ (n + Slots - 1) % Slots = p
      /\ ring \in [SlotRange -> Rows] /\ ring[n] \in Rows /\ ring[p] \in Rows
  <2>1. n \in SlotRange /\ ring \in [SlotRange -> Rows]
    BY DEF SampleInv, SampleTypes
  <2>2. p \in SlotRange /\ (n + Slots - 1) % Slots = p
    <3>1. (n + Slots - 1) % Slots = p
      BY <2>1, NextSlot
    <3>2. p \in SlotRange
      BY <2>1 DEF SlotRange
    <3> QED
      BY <3>1, <3>2
  <2> QED
    BY <2>1, <2>2
<1>4. /\ Timely \in Nat /\ Total \in Nat /\ Duration \in Nat /\ xacts \in 0 .. MaxXacts
      /\ reads[0] \in Seq(Nat) /\ Len(reads[0]) = Slots + 1
  <2>1. Timely \in Nat /\ Total \in Nat /\ Duration \in Nat
    BY <1>1, TotalsNatural DEF SampleInv, SampleTypes, CounterTypes, Total, Timely, Duration
  <2> QED
    BY <1>1, <2>1 DEF SampleInv, SampleTypes
<1>t. Total' = Total /\ Timely' = Timely /\ Duration' = Duration
  BY <1>2 DEF Total, Timely, Duration
<1>5. sum[0] = [next |-> 1, type |-> 0, timely |-> Timely, total |-> Total, duration |-> Duration]
  BY <1>2 DEF SampleInv, OwnSums, SumsOf, Total, Timely, Duration
<1>6. ring' = [ring EXCEPT ![n] = row] /\ slot' = [slot EXCEPT ![0] = n]
  <2>1. sum[0].total = Total /\ sum[0].timely = Timely /\ sum[0].duration = Duration
    BY <1>5
  <2>2. /\ slot' = [slot EXCEPT ![0] = n]
        /\ ring' = [ring EXCEPT ![n] =
                     [history |-> sum[0].total, timely |-> sum[0].timely,
                      duration |-> sum[0].duration, tpm |-> sum[0].total - ring[n].history,
                      ttpm |-> sum[0].timely - ring[n].timely,
                      count_in_period |-> sum[0].total - ring[(n + Slots - 1) % Slots].history,
                      duration_in_period |-> sum[0].duration - ring[(n + Slots - 1) % Slots].duration]]
    BY Zenon DEF Store
  <2>3. (n + Slots - 1) % Slots = p
    BY <1>3
  <2> HIDE DEF n, p
  <2> QED
    BY <2>1, <2>2, <2>3, Zenon
<1>7. reads' = [reads EXCEPT ![0] = Append(Tail(reads[0]), Total)]
  BY <1>5 DEF Store
<1> HIDE DEF p
<1>8. Total <= xacts /\ Timely <= xacts
  BY <1>2, <1>4 DEF SampleInv, Counted
<1>9. row \in Rows
  <2>1. /\ ring[n].history \in Nat /\ ring[n].timely \in Nat
        /\ ring[p].history \in Nat /\ ring[p].duration \in Nat
    BY <1>3 DEF Rows
  <2>2. /\ ring[n].history <= Total /\ ring[n].timely <= Timely
        /\ ring[p].history <= Total /\ ring[p].duration <= Duration
    BY <1>3 DEF SampleInv, NotAhead
  <2>3. /\ Total \in 0 .. MaxXacts /\ Timely \in 0 .. MaxXacts
    BY <1>4, <1>8
  <2>4. /\ Total - ring[n].history \in 0 .. MaxXacts
        /\ Timely - ring[n].timely \in 0 .. MaxXacts
        /\ Total - ring[p].history \in 0 .. MaxXacts
        /\ Duration - ring[p].duration \in Nat
    <3>1. ASSUME NEW a \in 0 .. MaxXacts, NEW b \in Nat, b <= a PROVE a - b \in 0 .. MaxXacts
      BY <3>1
    <3>2. Duration - ring[p].duration \in Nat
      BY <1>4, <2>1, <2>2
    <3> QED
      BY <2>1, <2>2, <2>3, <3>1, <3>2
  <2> QED
    BY <1>4, <2>3, <2>4 DEF Rows
<1>10. /\ reads'[0] \in Seq(Nat) /\ Len(reads'[0]) = Slots + 1
       /\ \A i \in 1 .. Slots : reads'[0][i] = reads[0][i + 1]
       /\ reads'[0][Slots + 1] = Total
       /\ reads' \in [Threads -> Seq(Nat)]
  <2> DEFINE r == Append(Tail(reads[0]), Total)
  <2>1. Tail(reads[0]) \in Seq(Nat) /\ Len(Tail(reads[0])) = Slots
        /\ \A i \in 1 .. Slots : Tail(reads[0])[i] = reads[0][i + 1]
    BY <1>4
  <2>2. r \in Seq(Nat) /\ Len(r) = Slots + 1 /\ r[Slots + 1] = Total
        /\ \A i \in 1 .. Slots : r[i] = Tail(reads[0])[i]
    BY <1>4, <2>1
  <2>3. reads \in [Threads -> Seq(Nat)]
    BY DEF SampleInv, SampleTypes
  <2> HIDE DEF r
  <2>4. reads' = [reads EXCEPT ![0] = r]
    BY <1>7 DEF r
  <2>5. reads'[0] = r /\ reads' \in [Threads -> Seq(Nat)]
    BY <1>1, <2>2, <2>3, <2>4
  <2> QED
    BY <2>1, <2>2, <2>5
<1>11. /\ ring'[n] = row /\ \A s \in SlotRange \ {n} : ring'[s] = ring[s]
       /\ ring' \in [SlotRange -> Rows]
  <2> HIDE DEF row
  <2> QED
    BY <1>3, <1>6, <1>9
<1>12. SampleTypes'
  <2>1. slot' \in [Threads -> SlotRange]
    BY <1>1, <1>3, <1>6 DEF SampleInv, SampleTypes
  <2> QED
    BY <1>2, <1>10, <1>11, <2>1 DEF SampleInv, SampleTypes, degree
<1>13. Counted' /\ OwnSums'
  BY <1>2, <1>t DEF SampleInv, Counted, OwnSums, SumsOf
<1>14. NotAhead'
  <2>1. ring'[n].history = Total /\ ring'[n].timely = Timely /\ ring'[n].duration = Duration
    BY <1>11
  <2> HIDE DEF row
  <2> QED
    BY <1>4, <1>t, <1>11, <2>1 DEF SampleInv, NotAhead
<1>15. RingRecords'
  <2> SUFFICES ASSUME NEW s \in SlotRange PROVE ring'[s].history = reads'[0][Place(s, n)]
    BY <1>2 DEF RingRecords
  <2>1. CASE s = n
    <3>1. Place(s, n) = Slots + 1
      BY <1>3, <2>1 DEF Place, SlotRange
    <3>2. ring'[n].history = Total
      BY <1>11
    <3> QED
      BY <1>10, <2>1, <3>1, <3>2
  <2>2. CASE s # n
    <3>1. Place(s, n) \in 1 .. Slots /\ NextPlace(s, n) = Place(s, n) + 1
      BY <1>3, <2>2 DEF Place, NextPlace, SlotRange
    <3>2. ring[s].history = reads[0][NextPlace(s, n)]
      BY <1>2 DEF SampleInv, RingRecords
    <3> HIDE DEF n, row
    <3>3. ring'[s] = ring[s]
      BY <1>11, <2>2
    <3>4. reads'[0][Place(s, n)] = reads[0][Place(s, n) + 1]
      BY <1>10, <3>1
    <3> QED
      BY <3>1, <3>2, <3>3, <3>4
  <2> QED
    BY <2>1, <2>2
<1>16. RowStored'
  <2>1. /\ ring'[n].tpm = Total - ring[n].history
        /\ ring'[n].count_in_period = Total - ring[p].history
    BY <1>11
  <2>2. slot'[0] = n
    BY <1>1, <1>6 DEF SampleInv, SampleTypes
  <2>3. NextPlace(n, n) = 2 /\ NextPlace(p, n) = Slots + 1
    BY <1>3 DEF NextPlace, SlotRange, p
  <2>4. ring[n].history = reads[0][2] /\ ring[p].history = reads[0][Slots + 1]
    BY <1>2, <1>3, <2>3 DEF SampleInv, RingRecords
  <2>5. reads'[0][1] = reads[0][2] /\ reads'[0][Slots] = reads[0][Slots + 1]
    BY <1>10
  <2> HIDE DEF row
  <2> QED
    BY <1>2, <1>10, <2>1, <2>2, <2>4, <2>5 DEF RowStored
<1> QED
  BY <1>12, <1>13, <1>14, <1>15, <1>16 DEF SampleInv

LEMMA SampleReport ==
  ASSUME NumThreads = 1, SampleInv, CounterTypes',
         MonitorDegree(0) \/ MonitorDelay(0) \/ StatsPrint(0)
  PROVE  SampleInv'
<1> USE SamplingAssumption
<1>1. 0 \in Threads
  BY DEF Threads
<1>2. /\ UNCHANGED <<timely, total, duration, xacts, sample_num, ring, reads>>
      /\ pc[0] \in {"monitor", "delay", "print"} /\ pc'[0] \in {"delay", "print", "round"}
      /\ pc'[0] # "round" => UNCHANGED <<sum, slot>>
      /\ pc'[0] = "round" => sum'[0] = NoSum
  BY <1>1 DEF SampleInv, SampleTypes, CounterTypes, MonitorDegree, MonitorDelay, StatsPrint, Goto,
              counters, shared, sampler
<1>3. slot' \in [Threads -> SlotRange] /\ due' \subseteq Threads
  <2>1. CASE MonitorDegree(0) \/ MonitorDelay(0)
    BY <2>1 DEF SampleInv, SampleTypes, MonitorDegree, MonitorDelay, sampler
  <2>2. CASE StatsPrint(0)
    <3>1. 0 \in SlotRange
      BY DEF SlotRange
    <3> QED
      BY <2>2, <3>1 DEF SampleInv, SampleTypes, StatsPrint
  <2> QED
    BY <2>1, <2>2
<1>4. smoth_degree_timing_violation' \in Nat
  <2>1. CASE MonitorDegree(0)
    <3>1. Last \in Rows
      BY DEF SampleInv, SampleTypes, Last
    <3>2. Last.duration_in_period \in Nat /\ Last.count_in_period \in Nat
      BY <3>1 DEF Rows
    <3>3. smoth_degree_timing_violation \in Nat
      BY DEF SampleInv, SampleTypes
    <3> QED
      BY <2>1, <3>2, <3>3, DegreeNatural DEF MonitorDegree
  <2>2. CASE MonitorDelay(0) \/ StatsPrint(0)
    BY <2>2 DEF SampleInv, SampleTypes, MonitorDelay, StatsPrint, degree
  <2> QED
    BY <2>1, <2>2
<1>5. inter_xact_sleep_ms' \in Nat
  BY DEF SampleInv, SampleTypes, MonitorDegree, MonitorDelay, StatsPrint, degree
<1>6. SampleTypes'
  BY <1>2, <1>3, <1>4, <1>5 DEF SampleInv, SampleTypes
<1>7. Counted' /\ OwnSums' /\ RowStored'
  BY <1>2 DEF SampleInv, Counted, OwnSums, RowStored, SumsOf, Total, Timely
<1>8. NotAhead' /\ RingRecords'
  <2>1. /\ Total <= Total' /\ Timely <= Timely' /\ Duration <= Duration'
        /\ Total' \in Nat /\ Timely' \in Nat /\ Duration' \in Nat
    <3>1. Total \in Nat /\ Timely \in Nat /\ Duration \in Nat
      BY <1>1, TotalsNatural DEF SampleInv, SampleTypes, CounterTypes, Total, Timely, Duration
    <3>2. Total' = Total /\ Timely' = Timely /\ Duration' = Duration
      BY <1>2 DEF Total, Timely, Duration
    <3> QED
      BY <3>1, <3>2
  <2> QED
    BY <1>1, <1>2, <2>1, RingUntouched DEF SampleInv
<1> QED
  BY <1>6, <1>7, <1>8 DEF SampleInv

LEMMA SampleStep == NumThreads = 1 /\ SumInv /\ SampleInv /\ [Next]_vars => SampleInv'
<1> SUFFICES ASSUME NumThreads = 1, SumInv, SampleInv, [Next]_vars PROVE SampleInv'
  OBVIOUS
<1>1. Threads = {0}
  BY DEF Threads
<1>2. CounterTypes'
  BY SumStep DEF SumInv
<1>3. CASE ThreadStep(0)
  <2>1. CASE AddTimely(0) \/ AddTotal(0)
    <3>1. AddDuration(0, 0, 0, TRUE) \/ AddTimely(0) \/ AddTotal(0)
      BY <2>1
    <3> QED
      BY <1>2, <3>1, SampleCounting, TypesHaveZero
  <2> QED
    BY <1>2, <1>3, <2>1, SampleReading, SampleAssign, SampleStore, SampleReport DEF ThreadStep
<1>4. ASSUME NEW type \in Types, NEW ms \in Durations, NEW ok \in BOOLEAN,
             AddDuration(0, type, ms, ok)
      PROVE  SampleInv'
  BY <1>2, <1>4, SampleCounting, SamplingAssumption
<1>5. CASE Period(0)
  <2>1. due' \subseteq Threads
    BY <1>1, <1>5 DEF SampleInv, SampleTypes, Period
  <2> QED
    BY <1>2, <1>5, <2>1 DEF Period, counters, sampler, shared, degree, SampleInv, SampleTypes, Counted,
                            OwnSums, NotAhead, RingRecords, RowStored,
                            SumsOf, Total, Timely, Duration
<1>6. CASE UNCHANGED vars
  BY <1>2, <1>6 DEF vars, counters, sampler, shared, degree, SampleInv, SampleTypes, Counted,
                    OwnSums, NotAhead, RingRecords, RowStored,
                            SumsOf, Total, Timely, Duration
<1> QED
  BY <1>1, <1>3, <1>4, <1>5, <1>6 DEF Next

LEMMA SampleInvariant == NumThreads = 1 => (Spec => [](SumInv /\ SampleInv))
<1> SUFFICES ASSUME NumThreads = 1 PROVE Spec => [](SumInv /\ SampleInv)
  OBVIOUS
<1>1. Init => SumInv /\ SampleInv
  BY SumInit, SampleInit
<1>2. SumInv /\ SampleInv /\ [Next]_vars => (SumInv /\ SampleInv)'
  BY SumStep, SampleStep
<1> QED
  BY <1>1, <1>2, PTL DEF Spec

\* While one thread samples, the ring index stays in the ring and no counter of
\* the ring becomes negative or exceeds what has been counted, for every number
\* of slots and every delay bound.
THEOREM SamplesTypeCorrect == NumThreads = 1 => (Spec => []TypeOK)
<1> SUFFICES ASSUME NumThreads = 1 PROVE Spec => []TypeOK
  OBVIOUS
<1>1. SampleInv => TypeOK
  <2> SUFFICES ASSUME SampleInv PROVE TypeOK
    OBVIOUS
  <2>1. Threads = {0} /\ xacts \in 0 .. MaxXacts
    BY SamplingAssumption DEF Threads, SampleInv, SampleTypes
  <2>2. ASSUME NEW f \in {timely, total}
        PROVE  f \in [Threads -> [Types -> 0 .. MaxXacts]]
    <3>1. f \in Counters /\ f[0] \in [Types -> Nat] /\ Over(f[0], NumTypes) \in Nat
      BY <2>1, TotalsNatural DEF SampleInv, SampleTypes, CounterTypes
    <3>2. Over(f[0], NumTypes) <= xacts
      <4>1. Timely \in Nat /\ Total \in Nat
        BY <2>1, TotalsNatural DEF SampleInv, SampleTypes, CounterTypes, Total, Timely
      <4>2. Timely <= xacts /\ Total <= xacts
        BY <2>1, <4>1, SamplingAssumption DEF SampleInv, Counted
      <4> QED
        BY <4>2 DEF Timely, Total
    <3>3. \A k \in Types : f[0][k] \in 0 .. MaxXacts
      <4> SUFFICES ASSUME NEW k \in Types PROVE f[0][k] \in 0 .. MaxXacts
        OBVIOUS
      <4>1. f[0][k] \in Nat /\ f[0][k] <= Over(f[0], NumTypes)
        BY <3>1, OverFacts
      <4> QED
        BY <2>1, <3>1, <3>2, <4>1, SamplingAssumption
    <3> QED
      BY <2>1, <3>1, <3>3 DEF Counters
  <2>3. timely \in [Threads -> [Types -> 0 .. MaxXacts]] /\ total \in [Threads -> [Types -> 0 .. MaxXacts]]
    BY <2>2
  <2> QED
    BY <2>3 DEF SampleInv, SampleTypes, CounterTypes, Counters, Labels, Rows, TypeOK
<1> QED
  BY <1>1, SampleInvariant, PTL

\* With one processing thread the count per minute that update_user_xacts_history
\* stores is the number of transactions since its sample Slots periods ago, for
\* every number of slots.
THEOREM MinuteIsExact == NumThreads = 1 => (Spec => []MinuteCounts)
<1> SUFFICES ASSUME NumThreads = 1 PROVE Spec => []MinuteCounts
  OBVIOUS
<1>1. SampleInv => MinuteCounts
  BY SamplingAssumption DEF Threads, SampleInv, RowStored, MinuteCounts
<1> QED
  BY <1>1, SampleInvariant, PTL

\* With one processing thread each row of the statistics file starts where the
\* last one ended, for every number of slots.
THEOREM RowsAreExact == NumThreads = 1 => (Spec => []RowsAddUp)
<1> SUFFICES ASSUME NumThreads = 1 PROVE Spec => []RowsAddUp
  OBVIOUS
<1>1. SampleInv => RowsAddUp
  BY SamplingAssumption DEF Threads, SampleInv, RowStored, RowsAddUp, Last
<1> QED
  BY <1>1, SampleInvariant, PTL
=============================================================================
