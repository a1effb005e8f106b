--------------------------- MODULE AdmissionProofs ---------------------------
(***************************************************************************)
(* Proofs about AdmissionControl with one processing thread, for every     *)
(* finite set of clients, every number of failures and of calls of         *)
(* qosManager.                                                             *)
(***************************************************************************)
EXTENDS AdmissionControl, FiniteSetTheorems, TLAPS

\* What qosManager read is still in the queue when it sets the count: no
\* other thread dequeues.
ReadCovered ==
  \A s \in Servers : server[s] = "qos" => enqueued_xacts[s] <= Cardinality(queued)

ACInv == TypeOK /\ CountCovered /\ ReadCovered

LEMMA ClientsFinite ==
  /\ Cardinality(Clients) \in Nat
  /\ \A S \in SUBSET Clients :
       IsFiniteSet(S) /\ Cardinality(S) \in Nat /\ Cardinality(S) <= Cardinality(Clients)
BY ACAssumption, FS_Subset, FS_CardinalityType

\* With the one thread s at most one transaction is being executed.
LEMMA ExecutingOne ==
  ASSUME NEW s, Servers = {s}, NEW at
  PROVE  Cardinality({t \in Servers : at[t] = "execute"}) =
           IF at[s] = "execute" THEN 1 ELSE 0
<1>1. CASE at[s] = "execute"
  <2>1. {t \in Servers : at[t] = "execute"} = {s}
    BY <1>1
  <2> QED
    BY <1>1, <2>1, FS_Singleton
<1>2. CASE at[s] # "execute"
  <2>1. {t \in Servers : at[t] = "execute"} = {}
    BY <1>2
  <2> QED
    BY <1>2, <2>1, FS_EmptySet
<1> QED
  BY <1>1, <1>2

LEMMA ACTypeInit == Init => TypeOK
<1> SUFFICES ASSUME Init PROVE TypeOK
  OBVIOUS
<1>1. 0 \in 0 .. Cardinality(Clients) /\ 0 \in 0 .. MaxSets /\ 0 \in 0 .. MaxFailures
  BY ACAssumption, ClientsFinite
<1>2. time_to_die \in BOOLEAN
  BY Zenon DEF Init
<1> QED
  BY <1>1, <1>2 DEF Init, TypeOK

LEMMA ACTypeStep == TypeOK /\ [Next]_vars => TypeOK'
<1> SUFFICES ASSUME TypeOK, [Next]_vars PROVE TypeOK'
  OBVIOUS
<1> USE ACAssumption, ClientsFinite
<1>1. ASSUME NEW c \in Clients, HandlerStep(c) PROVE TypeOK'
  <2>1. CASE Receive(c) \/ Wait(c) \/ Leave(c)
    BY <2>1 DEF Receive, Wait, Leave, Handler, TypeOK
  <2>2. CASE Enqueue(c)
    BY <2>2 DEF Enqueue, Handler, TypeOK
  <2> QED
    BY <1>1, <2>1, <2>2 DEF HandlerStep
<1>2. ASSUME NEW s \in Servers, NEW c \in Clients, Dequeue(s, c) PROVE TypeOK'
  BY <1>2 DEF Dequeue, Server, TypeOK
<1>3. ASSUME NEW s \in Servers, WaitDecrease(s) \/ TransactionFails(s) PROVE TypeOK'
  BY <1>3 DEF WaitDecrease, TransactionFails, Server, TypeOK
<1>4. ASSUME NEW s \in Servers, Done(s) PROVE TypeOK'
  <2>1. handler' \in [Clients -> {"idle", "wait", "admitted", "queued", "gone"}]
    BY <1>4 DEF Done, TypeOK
  <2> QED
    BY <1>4, <2>1 DEF Done, Server, TypeOK
<1>5. ASSUME NEW s \in Servers, QosRead(s) PROVE TypeOK'
  <2>1. Cardinality(queued) \in 0 .. Cardinality(Clients)
    BY DEF TypeOK
  <2> QED
    BY <1>5, <2>1 DEF QosRead, Server, TypeOK
<1>6. ASSUME NEW s \in Servers, NEW w \in Wanted, WaitSet(s, w) PROVE TypeOK'
  BY <1>6 DEF WaitSet, Server, TypeOK, Wanted
<1>7. ASSUME Expire \/ UNCHANGED vars PROVE TypeOK'
  BY <1>7 DEF Expire, vars, TypeOK
<1> QED
  BY <1>1, <1>2, <1>3, <1>4, <1>5, <1>6, <1>7 DEF Next, ServerStep

\* The variables keep their types, with any number of processing threads: the
\* count is never negative and never exceeds the number of clients.
THEOREM ACTypeCorrect == Spec => []TypeOK
BY ACTypeInit, ACTypeStep, PTL DEF Spec

-----------------------------------------------------------------------------
LEMMA CoveredStep ==
  ASSUME NEW s, Servers = {s}
  PROVE  ACInv /\ [Next]_vars => CountCovered' /\ ReadCovered'
<1> SUFFICES ASSUME TypeOK, CountCovered, ReadCovered, [Next]_vars
             PROVE  CountCovered' /\ ReadCovered'
  BY DEF ACInv
<1> DEFINE Executing == IF server[s] = "execute" THEN 1 ELSE 0
<1>1. TypeOK'
  BY ACTypeStep
<1>2. /\ Pending = Cardinality(queued) + Executing
      /\ Pending' = Cardinality(queued') + Executing'
  BY ExecutingOne DEF Pending
<1>3. /\ Cardinality(queued) \in Nat /\ Cardinality(queued') \in Nat
      /\ IsFiniteSet(queued)
      /\ num_txn_to_wait \in Nat /\ num_txn_to_wait' \in Nat
      /\ failed \in Nat /\ failed' \in Nat
      /\ enqueued_xacts[s] \in Nat
  BY <1>1, ClientsFinite, ACAssumption DEF TypeOK
<1>4. /\ num_txn_to_wait <= Cardinality(queued) + Executing + failed
      /\ server[s] = "qos" => enqueued_xacts[s] <= Cardinality(queued)
  BY <1>2 DEF CountCovered, ReadCovered
<1>5. SUFFICES
        /\ num_txn_to_wait' <= Cardinality(queued') + Executing' + failed'
        /\ server'[s] = "qos" => enqueued_xacts'[s] <= Cardinality(queued')
  BY <1>2 DEF CountCovered, ReadCovered
<1>6. CASE \E c \in Clients : Receive(c) \/ Wait(c) \/ Leave(c)
  BY <1>4, <1>6 DEF Receive, Wait, Leave
<1>7. CASE \E c \in Clients : Enqueue(c)
  <2>1. PICK c \in Clients : Enqueue(c)
    BY <1>7
  <2>2. Cardinality(queued') >= Cardinality(queued)
    BY <1>3, <2>1, FS_AddElement DEF Enqueue
  <2> QED
    BY <1>3, <1>4, <2>1, <2>2 DEF Enqueue
<1>8. CASE \E c \in Clients : Dequeue(s, c)
  <2>1. PICK c \in Clients : Dequeue(s, c)
    BY <1>8
  <2>2. Cardinality(queued') = Cardinality(queued) - 1
    BY <1>3, <2>1, FS_RemoveElement DEF Dequeue
  <2>3. server[s] = "round" /\ server'[s] = "execute"
    BY <2>1 DEF Dequeue, Server, TypeOK
  <2> QED
    BY <1>3, <1>4, <2>1, <2>2, <2>3 DEF Dequeue
<1>9. CASE WaitDecrease(s)
  <2>1. server[s] = "execute" /\ server'[s] = "done"
    BY <1>9 DEF WaitDecrease, Server, TypeOK
  <2> QED
    BY <1>3, <1>4, <1>9, <2>1 DEF WaitDecrease
<1>10. CASE TransactionFails(s)
  <2>1. server[s] = "execute" /\ server'[s] = "done"
    BY <1>10 DEF TransactionFails, Server, TypeOK
  <2> QED
    BY <1>3, <1>4, <1>10, <2>1 DEF TransactionFails
<1>11. CASE Done(s)
  <2>1. server[s] = "done" /\ server'[s] = "round"
    BY <1>11 DEF Done, Server, TypeOK
  <2> QED
    BY <1>3, <1>4, <1>11, <2>1 DEF Done
<1>12. CASE QosRead(s)
  <2>1. server[s] = "round" /\ server'[s] = "qos" /\ enqueued_xacts'[s] = Cardinality(queued)
    BY <1>12 DEF QosRead, Server, TypeOK
  <2> QED
    BY <1>3, <1>4, <1>12, <2>1 DEF QosRead
<1>13. CASE \E w \in Wanted : WaitSet(s, w)
  <2>1. PICK w \in Wanted : WaitSet(s, w)
    BY <1>13
  <2>2. server[s] = "qos" /\ server'[s] = "round"
    BY <2>1 DEF WaitSet, Server, TypeOK
  <2>3. w \in Nat
    BY ClientsFinite DEF Wanted
  <2> QED
    BY <1>3, <1>4, <2>1, <2>2, <2>3 DEF WaitSet
<1>14. CASE Expire \/ UNCHANGED vars
  BY <1>4, <1>14 DEF Expire, vars
<1> QED
  BY <1>6, <1>7, <1>8, <1>9, <1>10, <1>11, <1>12, <1>13, <1>14
     DEF Next, HandlerStep, ServerStep

\* With one processing thread, every transaction the handlers wait for is in
\* the queue, being executed, or has failed: without failures no handler of
\* chronos_ac_wait waits on an empty system.
THEOREM WaitsAreCovered ==
  ASSUME NEW s, Servers = {s}
  PROVE  Spec => []CountCovered
<1>1. Init => ACInv
  <2> SUFFICES ASSUME Init PROVE CountCovered /\ ReadCovered
    BY ACTypeInit DEF ACInv
  <2>1. Pending = Cardinality(queued) + (IF server[s] = "execute" THEN 1 ELSE 0)
    BY ExecutingOne DEF Pending
  <2>2. Cardinality(queued) = 0 /\ server[s] = "round"
    BY FS_EmptySet DEF Init
  <2> QED
    BY <2>1, <2>2 DEF Init, CountCovered, ReadCovered
<1>2. ACInv /\ [Next]_vars => ACInv'
  BY ACTypeStep, CoveredStep DEF ACInv
<1>3. ACInv => CountCovered
  BY DEF ACInv
<1> QED
  BY <1>1, <1>2, <1>3, PTL DEF Spec
=============================================================================
