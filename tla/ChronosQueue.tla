---------------------------- MODULE ChronosQueue ----------------------------
(***************************************************************************)
(* The ready queue of chronos_queue.c: a ring of QueueSize transaction     *)
(* slots under one mutex, with the condition variables `more' (consumers   *)
(* wait on it while the ring is empty) and `less' (producers wait on it    *)
(* while the ring is full).  Every wait is a pthread_cond_timedwait of     *)
(* five seconds, after which the caller looks at time_to_die before it     *)
(* looks at the ring again.                                                *)
(*                                                                         *)
(* A step of the model is one access that another thread can see: taking   *)
(* the mutex, the loop test, the wait, the wake-up, the time_to_die test,  *)
(* the copy with its index updates, and the signal with the unlock.        *)
(***************************************************************************)
EXTENDS Naturals, FiniteSets

CONSTANTS
  Producers,      \* threads that enqueue (handlers or update threads)
  Consumers,      \* threads that dequeue (processing threads)
  Txns,           \* transaction requests
  QueueSize,      \* CHRONOS_READY_QUEUE_SIZE
  TicketModulus,  \* 2^64 in the code: ticketReq is unsigned long long
  NoTxn,          \* contents of a zeroed txn_info_t
  NoThread        \* the mutex is free

Threads == Producers \cup Consumers
Slots   == 0 .. QueueSize - 1
Tickets == 0 .. TicketModulus - 1

\* txn_info_t: the request (time stamp and result pointers included) and the
\* ticket the queue stamps on it.
TxnInfo == [request : Txns, ticket : Tickets]

ASSUME QueueAssumption ==
  /\ QueueSize \in Nat \ {0}
  /\ TicketModulus \in Nat
  /\ TicketModulus > QueueSize
  /\ IsFiniteSet(Producers)
  /\ IsFiniteSet(Consumers)
  /\ Producers \cap Consumers = {}
  /\ NoThread \notin Producers \cup Consumers
  /\ NoTxn \notin TxnInfo

VARIABLES
  txnInfoArr,  \* the ring
  occupied,    \* number of filled slots
  nextin,      \* slot the next enqueue fills
  nextout,     \* slot the next dequeue empties
  ticketReq,   \* ticket of the latest enqueued transaction
  mutex,       \* the thread that holds the mutex, or NoThread
  timeToDie,   \* what timeToDieFp() returns
  pc,          \* where each thread is inside the queue's functions
  request,     \* request[p]: the txnInfoP argument of producer p
  ticketRet,   \* ticketRet[p]: *ticket_ret of producer p
  received     \* received[c]: the txnInfoP buffer of consumer c

ring == <<txnInfoArr, occupied, nextin, nextout, ticketReq>>
bufs == <<request, ticketRet, received>>
vars == <<txnInfoArr, occupied, nextin, nextout, ticketReq, mutex, timeToDie,
          pc, request, ticketRet, received>>

(***************************************************************************)
(* idle: outside.  lock: before pthread_mutex_lock.  test: at the loop     *)
(* condition.  waiting: asleep in the timed wait.  relock: woken, wants    *)
(* the mutex back.  dieTest: before timeToDieFp().  copy: past the loop.   *)
(* signal: before the signal and the unlock.  failed: returned FAIL, and   *)
(* its caller leaves for good.                                             *)
(***************************************************************************)
Labels == {"idle", "lock", "test", "waiting", "relock", "dieTest", "copy",
           "signal", "failed"}

Goto(th, l) == pc' = [pc EXCEPT ![th] = l]

\* The condition under which th stays in its wait loop.
MustWait(th) ==
  IF th \in Producers THEN occupied >= QueueSize ELSE occupied <= 0

\* Threads asleep on the condition variable of a role.
Asleep(role) == {th \in role : pc[th] = "waiting"}

Init ==
  /\ txnInfoArr = [s \in Slots |-> NoTxn]
  /\ occupied = 0
  /\ nextin = 0
  /\ nextout = 0
  /\ ticketReq = 0
  /\ mutex = NoThread
  /\ timeToDie = FALSE
  /\ pc = [th \in Threads |-> "idle"]
  /\ request = [p \in Producers |-> NoTxn]
  /\ ticketRet = [p \in Producers |-> 0]
  /\ received = [c \in Consumers |-> NoTxn]

-----------------------------------------------------------------------------
\* chronos_enqueue_*_transaction: fill a txn_info_t and call the ring.
EnqueueCall(p, t) ==
  /\ pc[p] = "idle"
  /\ request' = [request EXCEPT ![p] = t]
  /\ Goto(p, "lock")
  /\ UNCHANGED <<txnInfoArr, occupied, nextin, nextout, ticketReq, mutex,
                 timeToDie, ticketRet, received>>

\* chronos_dequeue_*_transaction: call the ring with an empty txn_info_t.
DequeueCall(c) ==
  /\ pc[c] = "idle"
  /\ Goto(c, "lock")
  /\ UNCHANGED <<ring, bufs, mutex, timeToDie>>

\* pthread_mutex_lock.
Lock(th) ==
  /\ pc[th] = "lock"
  /\ mutex = NoThread
  /\ mutex' = th
  /\ Goto(th, "test")
  /\ UNCHANGED <<ring, bufs, timeToDie>>

\* The loop condition is false: leave the loop with the mutex held.
Leave(th) ==
  /\ pc[th] = "test"
  /\ ~MustWait(th)
  /\ Goto(th, "copy")
  /\ UNCHANGED <<ring, bufs, mutex, timeToDie>>

\* pthread_cond_timedwait: give the mutex up and fall asleep, atomically.
Wait(th) ==
  /\ pc[th] = "test"
  /\ MustWait(th)
  /\ mutex' = NoThread
  /\ Goto(th, "waiting")
  /\ UNCHANGED <<ring, bufs, timeToDie>>

\* The five seconds are over (or the wake-up is spurious).
Timeout(th) ==
  /\ pc[th] = "waiting"
  /\ Goto(th, "relock")
  /\ UNCHANGED <<ring, bufs, mutex, timeToDie>>

\* pthread_cond_timedwait returns with the mutex held again.
Relock(th) ==
  /\ pc[th] = "relock"
  /\ mutex = NoThread
  /\ mutex' = th
  /\ Goto(th, "dieTest")
  /\ UNCHANGED <<ring, bufs, timeToDie>>

\* Faulty variant: `if' instead of `while', the ring is not looked at again.
DieTest_NoRecheck(th) ==
  /\ pc[th] = "dieTest"
  /\ IF timeToDie
     THEN mutex' = NoThread /\ Goto(th, "failed")
     ELSE mutex' = mutex    /\ Goto(th, "copy")
  /\ UNCHANGED <<ring, bufs, timeToDie>>

\* Faulty variant: time_to_die is only looked at while there is no work.
DieTest_Ignored(th) ==
  /\ pc[th] = "dieTest"
  /\ Goto(th, "test")
  /\ UNCHANGED <<ring, bufs, mutex, timeToDie>>

\* After the wait: return FAIL when asked to die, else test the ring again.
DieTest(th) ==
  /\ pc[th] = "dieTest"
  /\ IF timeToDie
     THEN mutex' = NoThread /\ Goto(th, "failed")
     ELSE mutex' = mutex    /\ Goto(th, "test")
  /\ UNCHANGED <<ring, bufs, timeToDie>>

\* Faulty variant: the index is incremented without the modulus.
EnqueueCopy_NoWrap(p) ==
  /\ pc[p] = "copy"
  /\ LET tk == (ticketReq + 1) % TicketModulus IN
       /\ txnInfoArr' = [txnInfoArr EXCEPT ![nextin] = [request |-> request[p], ticket |-> tk]]
       /\ ticketReq' = tk
       /\ ticketRet' = [ticketRet EXCEPT ![p] = tk]
  /\ nextin' = nextin + 1
  /\ occupied' = occupied + 1
  /\ Goto(p, "signal")
  /\ UNCHANGED <<nextout, mutex, timeToDie, request, received>>

\* Faulty variant: the caller's ticket is stamped before ticketReq advances.
EnqueueCopy_StaleTicket(p) ==
  /\ pc[p] = "copy"
  /\ LET tk == (ticketReq + 1) % TicketModulus IN
       /\ txnInfoArr' = [txnInfoArr EXCEPT ![nextin] = [request |-> request[p], ticket |-> ticketReq]]
       /\ ticketReq' = tk
       /\ ticketRet' = [ticketRet EXCEPT ![p] = tk]
  /\ nextin' = (nextin + 1) % QueueSize
  /\ occupied' = occupied + 1
  /\ Goto(p, "signal")
  /\ UNCHANGED <<nextout, mutex, timeToDie, request, received>>

\* The body of chronos_enqueue_transaction: copy the argument into the next
\* free slot, stamp it with a fresh ticket, advance nextin and occupied.
EnqueueCopy(p) ==
  /\ pc[p] = "copy"
  /\ LET tk == (ticketReq + 1) % TicketModulus IN
       /\ txnInfoArr' = [txnInfoArr EXCEPT ![nextin] = [request |-> request[p], ticket |-> tk]]
       /\ ticketReq' = tk
       /\ ticketRet' = [ticketRet EXCEPT ![p] = tk]
  /\ nextin' = (nextin + 1) % QueueSize
  /\ occupied' = occupied + 1
  /\ Goto(p, "signal")
  /\ UNCHANGED <<nextout, mutex, timeToDie, request, received>>

\* Faulty variant: read at nextin, as if the ring were a stack.
DequeueCopy_WrongEnd(c) ==
  /\ pc[c] = "copy"
  /\ received' = [received EXCEPT ![c] = txnInfoArr[(nextin + QueueSize - 1) % QueueSize]]
  /\ nextout' = (nextout + 1) % QueueSize
  /\ occupied' = occupied - 1
  /\ Goto(c, "signal")
  /\ UNCHANGED <<txnInfoArr, nextin, ticketReq, mutex, timeToDie, request, ticketRet>>

\* The body of chronos_dequeue_transaction: copy the oldest slot out, advance
\* nextout, decrement occupied.  The slot itself is not cleared.
DequeueCopy(c) ==
  /\ pc[c] = "copy"
  /\ received' = [received EXCEPT ![c] = txnInfoArr[nextout]]
  /\ nextout' = (nextout + 1) % QueueSize
  /\ occupied' = occupied - 1
  /\ Goto(c, "signal")
  /\ UNCHANGED <<txnInfoArr, nextin, ticketReq, mutex, timeToDie, request, ticketRet>>

\* pthread_cond_signal on the condition variable `role' sleeps on, then
\* pthread_mutex_unlock and the return of SUCCESS.
SignalUnlock(th, role) ==
  /\ pc[th] = "signal"
  /\ mutex' = NoThread
  /\ IF Asleep(role) = {}
     THEN Goto(th, "idle")
     ELSE \E w \in Asleep(role) :
            pc' = [pc EXCEPT ![th] = "idle", ![w] = "relock"]
  /\ UNCHANGED <<ring, bufs, timeToDie>>

\* Faulty variant: signal `more' only when the ring was empty before.
SignalMore_OnlyWhenEmpty(p) ==
  IF occupied = 1 THEN SignalUnlock(p, Consumers)
  ELSE /\ pc[p] = "signal"
       /\ mutex' = NoThread
       /\ Goto(p, "idle")
       /\ UNCHANGED <<ring, bufs, timeToDie>>

\* Enqueue signals `more'.
SignalMore(p) == SignalUnlock(p, Consumers)

\* Dequeue signals `less'.
SignalLess(c) == SignalUnlock(c, Producers)

\* A processing thread ends the experiment: time_to_die = 1.
SetTimeToDie ==
  /\ ~timeToDie
  /\ timeToDie' = TRUE
  /\ UNCHANGED <<ring, bufs, mutex, pc>>

-----------------------------------------------------------------------------
\* One step of a thread inside the queue's functions, its call excluded.
Inside(th) ==
  \/ Lock(th) \/ Leave(th) \/ Wait(th) \/ Timeout(th) \/ Relock(th) \/ DieTest(th)

Next ==
  \/ \E p \in Producers : \/ \E t \in Txns : EnqueueCall(p, t)
                          \/ EnqueueCopy(p)
                          \/ SignalMore(p)
  \/ \E c \in Consumers : DequeueCall(c) \/ DequeueCopy(c) \/ SignalLess(c)
  \/ \E th \in Threads : Inside(th)
  \/ SetTimeToDie

Spec == Init /\ [][Next]_vars

(***************************************************************************)
(* Threads keep running and timed waits do end (weak fairness), and a      *)
(* thread that keeps asking for the mutex gets it (strong fairness): no    *)
(* critical section of the queue blocks, so the mutex is released again    *)
(* and again.  No thread is obliged to call.                               *)
(***************************************************************************)
Fairness ==
  /\ \A th \in Threads : /\ SF_vars(Lock(th)) /\ SF_vars(Relock(th))
                         /\ WF_vars(Leave(th) \/ Wait(th) \/ DieTest(th))
                         /\ WF_vars(Timeout(th))
  /\ \A p \in Producers : WF_vars(EnqueueCopy(p) \/ SignalMore(p))
  /\ \A c \in Consumers : WF_vars(DequeueCopy(c) \/ SignalLess(c))

FairSpec == Spec /\ Fairness

-----------------------------------------------------------------------------
\* Type correctness of the queue and of the threads' places in its code.
TypeOK ==
  /\ txnInfoArr \in [Slots -> TxnInfo \cup {NoTxn}]
  /\ occupied \in 0 .. QueueSize
  /\ nextin \in Slots
  /\ nextout \in Slots
  /\ ticketReq \in Tickets
  /\ mutex \in Threads \cup {NoThread}
  /\ timeToDie \in BOOLEAN
  /\ pc \in [Threads -> Labels]
  /\ request \in [Producers -> Txns \cup {NoTxn}]
  /\ ticketRet \in [Producers -> Tickets]
  /\ received \in [Consumers -> TxnInfo \cup {NoTxn}]

(***************************************************************************)
(* The two assert()s of chronos_queue.c: a consumer that has left its loop *)
(* finds occupied > 0, a producer finds occupied < CHRONOS_READY_QUEUE_    *)
(* SIZE, whatever the other threads did while it slept.                    *)
(***************************************************************************)
AssertsHold ==
  /\ \A c \in Consumers : pc[c] = "copy" => occupied > 0
  /\ \A p \in Producers : pc[p] = "copy" => occupied < QueueSize

\* The i-th oldest queued transaction.
SlotOf(i) == (nextout + i - 1) % QueueSize
Contents  == [i \in 1 .. occupied |-> txnInfoArr[SlotOf(i)]]

(***************************************************************************)
(* The queued transactions carry the last `occupied' tickets, in order and *)
(* without a gap, also when the ticket counter has wrapped around: a       *)
(* ticket identifies a queued transaction and its age.                     *)
(***************************************************************************)
TicketsConsecutive ==
  \A i \in 1 .. occupied :
     /\ txnInfoArr[SlotOf(i)] # NoTxn
     /\ (txnInfoArr[SlotOf(i)].ticket + (occupied - i)) % TicketModulus = ticketReq

\* Threads of a role that were woken, or never slept, and will look at the
\* ring before they sleep again.
Awake(role) == {th \in role : pc[th] \in {"relock", "dieTest", "test", "copy"}}

\* A thread of the other role that still owes the signal for its change.
SignalDue(role) == IF \E th \in role : pc[th] = "signal" THEN 1 ELSE 0

(***************************************************************************)
(* No wake-up is lost: until the server is asked to die, as long as a      *)
(* consumer sleeps there is, for every transaction in the ring, a consumer *)
(* that is awake and on its way to the ring (or a signal about to be       *)
(* sent); the same for sleeping producers and free slots.  The five-second *)
(* timeouts are not needed for progress.                                   *)
(***************************************************************************)
NoLostWakeup ==
  ~timeToDie =>
    /\ Asleep(Consumers) # {} =>
         occupied <= Cardinality(Awake(Consumers)) + SignalDue(Producers)
    /\ Asleep(Producers) # {} =>
         QueueSize - occupied <= Cardinality(Awake(Producers)) + SignalDue(Consumers)

(***************************************************************************)
(* The ring implements the abstract queue: its contents are the occupied   *)
(* slots from nextout on, and only the copies, SetTimeToDie and the FAIL   *)
(* returns are visible steps.                                              *)
(***************************************************************************)
RQ == INSTANCE ReadyQueue WITH
        queue <- Contents, lastTicket <- ticketReq, granted <- ticketRet,
        failed <- {th \in Threads : pc[th] = "failed"}

RefinesReadyQueue == RQ!Spec

(***************************************************************************)
(* Once the server is asked to die no call hangs: every thread inside the  *)
(* queue returns, with SUCCESS or with FAIL.                               *)
(***************************************************************************)
ShutdownReturns ==
  \A th \in Threads : timeToDie ~> pc[th] \in {"idle", "failed"}
=============================================================================
