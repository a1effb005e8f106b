------------------------- MODULE ChronosQueueProofs -------------------------
(***************************************************************************)
(* Proofs about ChronosQueue, for any number of threads, any ring size and *)
(* any ticket width above it.                                              *)
(*                                                                         *)
(* TypeOK is not inductive: occupied stays in range only because a thread  *)
(* that copies still finds what its loop test found, which in turn needs   *)
(* mutual exclusion over the code between the lock and the unlock.         *)
(***************************************************************************)
EXTENDS ChronosQueue, Sequences, FiniteSetTheorems, TLAPS

\* The labels at which a thread holds the mutex.
Critical == {"test", "dieTest", "copy", "signal"}

\* A thread is between lock and unlock exactly when it holds the mutex.
MutualExclusion == \A th \in Threads : mutex = th <=> pc[th] \in Critical

\* The buffer of a producer that is inside the queue holds a request.
RequestSet ==
  \A p \in Producers : pc[p] \notin {"idle", "failed"} => request[p] \in Txns

\* The inductive invariant behind TypeOK and AssertsHold.
TypeInv == TypeOK /\ MutualExclusion /\ RequestSet /\ AssertsHold

\* nextin is the slot behind the occupied ones.
IndexInv == nextin = (nextout + occupied) % QueueSize

\* The inductive invariant behind TicketsConsecutive and the refinement.
RingInv == TypeInv /\ IndexInv /\ TicketsConsecutive

-----------------------------------------------------------------------------
\* Arithmetic of indices and tickets: one turn around the ring at most.
LEMMA ModBelow ==
  ASSUME NEW n \in Nat \ {0}, NEW a \in 0 .. n - 1
  PROVE  a % n = a
BY Z3

LEMMA ModAbove ==
  ASSUME NEW n \in Nat \ {0}, NEW a \in n .. 2 * n - 1
  PROVE  a % n = a - n
BY Z3

LEMMA ModRange ==
  ASSUME NEW n \in Nat \ {0}, NEW a \in Nat
  PROVE  a % n \in 0 .. n - 1
BY Z3

\* Adding one before or after taking the remainder is the same.
LEMMA ModSucc ==
  ASSUME NEW n \in Nat \ {0}, NEW a \in 0 .. 2 * n - 2
  PROVE  ((a % n) + 1) % n = (a + 1) % n
<1>1. CASE a < n
  <2>1. a % n = a
    BY <1>1, ModBelow
  <2> QED
    BY <2>1
<1>2. CASE a >= n
  <2>1. a % n = a - n
    BY <1>2, ModAbove
  <2>2. (a + 1) % n = a + 1 - n
    BY <1>2, ModAbove
  <2>3. (a - n + 1) % n = a - n + 1
    BY <1>2, ModBelow
  <2> QED
    BY <2>1, <2>2, <2>3
<1> QED
  BY <1>1, <1>2

\* A window of n slots that starts anywhere in the ring meets no slot twice.
LEMMA SlotsDistinct ==
  ASSUME NEW n \in Nat \ {0}, NEW o \in 0 .. n - 1,
         NEW i \in 0 .. n - 1, NEW j \in 0 .. n - 1, i # j
  PROVE  (o + i) % n # (o + j) % n
<1>1. ASSUME NEW k \in 0 .. n - 1
      PROVE  (o + k) % n = IF o + k < n THEN o + k ELSE o + k - n
  <2>1. CASE o + k < n
    BY <2>1, ModBelow
  <2>2. CASE o + k >= n
    BY <2>2, ModAbove
  <2> QED
    BY <2>1, <2>2
<1> QED
  BY <1>1

\* The window that starts one slot further on.
LEMMA SlotShift ==
  ASSUME NEW n \in Nat \ {0}, NEW o \in 0 .. n - 1, NEW i \in 0 .. n - 1
  PROVE  (((o + 1) % n) + i) % n = (o + (i + 1)) % n
<1>1. CASE o < n - 1
  BY <1>1, ModBelow
<1>2. CASE o = n - 1
  <2>1. (o + 1) % n = 0
    BY <1>2, Z3
  <2>2. (o + (i + 1)) % n = i
    BY <1>2, ModAbove
  <2>3. (0 + i) % n = i
    BY ModBelow
  <2> QED
    BY <2>1, <2>2, <2>3
<1> QED
  BY <1>1, <1>2

-----------------------------------------------------------------------------
\* An advanced index is a slot of the ring, an advanced ticket a ticket.
LEMMA AdvancedInRange ==
  /\ \A i \in Slots : (i + 1) % QueueSize \in Slots
  /\ \A t \in Tickets : (t + 1) % TicketModulus \in Tickets
<1>1. QueueSize \in Nat \ {0} /\ TicketModulus \in Nat \ {0}
  BY QueueAssumption
<1>2. \A i \in Slots : i + 1 \in Nat
  BY <1>1 DEF Slots
<1>3. \A t \in Tickets : t + 1 \in Nat
  BY <1>1 DEF Tickets
<1> QED
  BY <1>1, <1>2, <1>3, ModRange DEF Slots, Tickets

\* The first step of each proof: TypeOK and AssertsHold with what they need.
LEMMA TypeInvInit == Init => TypeInv
<1> SUFFICES ASSUME Init PROVE TypeInv
  OBVIOUS
<1> USE QueueAssumption DEF Init
<1>1. TypeOK
  <2>1. 0 \in Slots /\ 0 \in Tickets /\ 0 \in 0 .. QueueSize
    BY DEF Slots, Tickets
  <2> QED
    BY <2>1 DEF TypeOK, Labels
<1>2. MutualExclusion
  BY DEF MutualExclusion, Critical, Threads
<1>3. RequestSet /\ AssertsHold
  BY DEF RequestSet, AssertsHold, Threads
<1> QED
  BY <1>1, <1>2, <1>3 DEF TypeInv

LEMMA TypeInvNext == TypeInv /\ [Next]_vars => TypeInv'
<1> SUFFICES ASSUME TypeInv, [Next]_vars PROVE TypeInv'
  OBVIOUS
<1> USE QueueAssumption DEF TypeInv
<1>1. ASSUME NEW p \in Producers, NEW t \in Txns, EnqueueCall(p, t)
      PROVE  TypeInv'
  <2> USE <1>1 DEF EnqueueCall, Goto
  <2>1. TypeOK'
    BY DEF TypeOK, Threads, Labels
  <2>2. MutualExclusion'
    BY DEF TypeOK, MutualExclusion, Critical, Threads
  <2>3. RequestSet' /\ AssertsHold'
    BY DEF TypeOK, RequestSet, AssertsHold, Threads
  <2> QED
    BY <2>1, <2>2, <2>3
<1>2. ASSUME NEW p \in Producers, EnqueueCopy(p)
      PROVE  TypeInv'
  <2> USE <1>2 DEF EnqueueCopy, Goto
  <2>1. occupied < QueueSize /\ request[p] \in Txns /\ p \in Threads
    BY DEF AssertsHold, RequestSet, Threads
  <2>2. (ticketReq + 1) % TicketModulus \in Tickets
    BY AdvancedInRange DEF TypeOK
  <2>3. (nextin + 1) % QueueSize \in Slots
    BY AdvancedInRange DEF TypeOK
  <2>4. TypeOK'
    BY <2>1, <2>2, <2>3 DEF TypeOK, Labels, TxnInfo
  <2>5. MutualExclusion'
    BY <2>1 DEF TypeOK, MutualExclusion, Critical
  <2>6. \A th \in Threads : pc'[th] # "copy"
    BY <2>1 DEF TypeOK, MutualExclusion, Critical
  <2>7. RequestSet' /\ AssertsHold'
    BY <2>1, <2>6 DEF TypeOK, RequestSet, AssertsHold, Threads
  <2> QED
    BY <2>4, <2>5, <2>7
<1>3. ASSUME NEW c \in Consumers, DequeueCall(c)
      PROVE  TypeInv'
  <2> USE <1>3 DEF DequeueCall, Goto, ring, bufs
  <2>1. TypeOK'
    BY DEF TypeOK, Threads, Labels
  <2>2. MutualExclusion'
    BY DEF TypeOK, MutualExclusion, Critical, Threads
  <2>3. RequestSet' /\ AssertsHold'
    BY DEF TypeOK, RequestSet, AssertsHold, Threads
  <2> QED
    BY <2>1, <2>2, <2>3
<1>4. ASSUME NEW c \in Consumers, DequeueCopy(c)
      PROVE  TypeInv'
  <2> USE <1>4 DEF DequeueCopy, Goto
  <2>1. occupied > 0 /\ c \in Threads
    BY DEF AssertsHold, Threads
  <2>2. (nextout + 1) % QueueSize \in Slots
    BY AdvancedInRange DEF TypeOK
  <2>3. TypeOK'
    BY <2>1, <2>2 DEF TypeOK, Labels
  <2>4. MutualExclusion'
    BY <2>1 DEF TypeOK, MutualExclusion, Critical
  <2>5. \A th \in Threads : pc'[th] # "copy"
    BY <2>1 DEF TypeOK, MutualExclusion, Critical
  <2>6. RequestSet' /\ AssertsHold'
    BY <2>1, <2>5 DEF TypeOK, RequestSet, AssertsHold, Threads
  <2> QED
    BY <2>3, <2>4, <2>6
<1>5. ASSUME NEW th \in Threads, NEW role, role \in {Producers, Consumers},
             SignalUnlock(th, role)
      PROVE  TypeInv'
  <2> USE <1>5 DEF SignalUnlock, Goto, ring, bufs
  <2>1. PICK pc1 \in [Threads -> Labels] :
          /\ pc' = pc1
          /\ pc1[th] = "idle"
          /\ \A x \in Threads \ {th} : pc1[x] = pc[x] \/ (pc[x] = "waiting" /\ pc1[x] = "relock")
    <3>1. CASE Asleep(role) = {}
      BY <3>1 DEF TypeOK, Labels
    <3>2. CASE Asleep(role) # {}
      <4>1. PICK w \in Asleep(role) : pc' = [pc EXCEPT ![th] = "idle", ![w] = "relock"]
        BY <3>2
      <4>2. w \in Threads /\ pc[w] = "waiting" /\ w # th
        BY <4>1 DEF Asleep, Threads
      <4> QED
        BY <4>1, <4>2 DEF TypeOK, Labels
    <3> QED
      BY <3>1, <3>2
  <2>2. TypeOK'
    BY <2>1 DEF TypeOK, Threads
  <2>3. MutualExclusion'
    BY <2>1 DEF TypeOK, MutualExclusion, Critical, Threads
  <2>4. RequestSet' /\ AssertsHold'
    BY <2>1 DEF TypeOK, RequestSet, AssertsHold, Threads
  <2> QED
    BY <2>2, <2>3, <2>4
<1>6. ASSUME NEW th \in Threads, Inside(th)
      PROVE  TypeInv'
  <2> USE <1>6 DEF Inside, Lock, Leave, Wait, Timeout, Relock, DieTest, MustWait,
                   Goto, ring, bufs
  <2>1. TypeOK'
    BY DEF TypeOK, Labels
  <2>2. MutualExclusion'
    BY DEF TypeOK, MutualExclusion, Critical, Threads
  <2>3. RequestSet'
    BY DEF TypeOK, RequestSet, Threads
  <2>4. AssertsHold'
    BY DEF TypeOK, AssertsHold, Threads
  <2> QED
    BY <2>1, <2>2, <2>3, <2>4
<1>7. CASE SetTimeToDie
  BY <1>7 DEF SetTimeToDie, ring, bufs, TypeOK, MutualExclusion, RequestSet, AssertsHold
<1>8. CASE UNCHANGED vars
  BY <1>8 DEF vars, TypeOK, MutualExclusion, RequestSet, AssertsHold
<1> QED
  BY <1>1, <1>2, <1>3, <1>4, <1>5, <1>6, <1>7, <1>8
  DEF Next, SignalMore, SignalLess, Threads

(***************************************************************************)
(* The queue of chronos_queue.c keeps its types, in particular its indices *)
(* inside the ring and its count between 0 and CHRONOS_READY_QUEUE_SIZE.   *)
(***************************************************************************)
THEOREM TypeCorrect == Spec => []TypeOK
<1>1. TypeInv => TypeOK
  BY DEF TypeInv
<1> QED
  BY TypeInvInit, TypeInvNext, <1>1, PTL DEF Spec

(***************************************************************************)
(* Neither assert() of chronos_queue.c ever fails, for any number of       *)
(* producers and consumers and any interleaving of waits, timeouts and     *)
(* wake-ups.                                                               *)
(***************************************************************************)
THEOREM AssertsNeverFail == Spec => []AssertsHold
<1>1. TypeInv => AssertsHold
  BY DEF TypeInv
<1> QED
  BY TypeInvInit, TypeInvNext, <1>1, PTL DEF Spec

-----------------------------------------------------------------------------
LEMMA RingInvInit == Init => RingInv
<1> SUFFICES ASSUME Init PROVE RingInv
  OBVIOUS
<1>1. IndexInv
  BY QueueAssumption, ModBelow DEF Init, IndexInv
<1>2. TicketsConsecutive
  BY DEF Init, TicketsConsecutive
<1> QED
  BY <1>1, <1>2, TypeInvInit DEF RingInv

\* What an enqueue does to the occupied slots: it fills the one behind them.
LEMMA EnqueueSlots ==
  ASSUME RingInv, NEW p \in Producers, EnqueueCopy(p)
  PROVE  /\ occupied < QueueSize
         /\ occupied' = occupied + 1
         /\ \A i \in 1 .. occupied : txnInfoArr'[SlotOf(i)'] = txnInfoArr[SlotOf(i)]
         /\ \A i : i = occupied + 1 =>
              txnInfoArr'[SlotOf(i)'] =
                [request |-> request[p], ticket |-> (ticketReq + 1) % TicketModulus]
         /\ IndexInv'
<1> USE QueueAssumption DEF EnqueueCopy, RingInv, TypeInv, Slots
<1>1. occupied < QueueSize /\ occupied \in Nat
  BY DEF AssertsHold, TypeOK
<1>2. nextin \in Slots /\ nextout \in Slots /\ txnInfoArr \in [Slots -> TxnInfo \cup {NoTxn}]
  BY DEF TypeOK
<1>3. \A i : SlotOf(i)' = SlotOf(i)
  BY DEF SlotOf
<1>4. ASSUME NEW i \in 1 .. occupied
      PROVE  SlotOf(i) # nextin /\ SlotOf(i) \in Slots
  <2>1. i - 1 \in 0 .. QueueSize - 1 /\ occupied \in 0 .. QueueSize - 1 /\ i - 1 # occupied
    BY <1>1
  <2>2. (nextout + (i - 1)) % QueueSize # (nextout + occupied) % QueueSize
    BY <2>1, <1>2, SlotsDistinct
  <2>3. nextout + i - 1 = nextout + (i - 1) /\ nextout + i - 1 \in Nat
    BY <1>1, <1>2
  <2> QED
    BY <2>2, <2>3, ModRange DEF SlotOf, IndexInv
<1>5. SlotOf(occupied + 1) = nextin
  <2>1. nextout + (occupied + 1) - 1 = nextout + occupied
    BY <1>1, <1>2
  <2> QED
    BY <2>1 DEF SlotOf, IndexInv
<1>6. IndexInv'
  <2>1. nextout + occupied \in 0 .. 2 * QueueSize - 2
    BY <1>1, <1>2
  <2>2. (((nextout + occupied) % QueueSize) + 1) % QueueSize = (nextout + occupied + 1) % QueueSize
    BY <2>1, ModSucc
  <2>3. nextout + (occupied + 1) = nextout + occupied + 1
    BY <1>1, <1>2
  <2> QED
    BY <2>2, <2>3 DEF IndexInv
<1>7. occupied' = occupied + 1
  OBVIOUS
<1>8. \A i \in 1 .. occupied : txnInfoArr'[SlotOf(i)'] = txnInfoArr[SlotOf(i)]
  BY <1>2, <1>3, <1>4
<1>9. \A i : i = occupied + 1 =>
        txnInfoArr'[SlotOf(i)'] =
          [request |-> request[p], ticket |-> (ticketReq + 1) % TicketModulus]
  BY <1>2, <1>3, <1>5
<1> QED
  BY <1>1, <1>6, <1>7, <1>8, <1>9

\* What a dequeue does to the occupied slots: the window moves on by one.
LEMMA DequeueSlots ==
  ASSUME RingInv, NEW c \in Consumers, DequeueCopy(c)
  PROVE  /\ occupied > 0
         /\ occupied' = occupied - 1
         /\ SlotOf(1) = nextout
         /\ \A i \in 1 .. occupied - 1 : txnInfoArr'[SlotOf(i)'] = txnInfoArr[SlotOf(i + 1)]
         /\ IndexInv'
<1> USE QueueAssumption DEF DequeueCopy, RingInv, TypeInv, Slots
<1>1. occupied > 0 /\ occupied \in 0 .. QueueSize
  BY DEF AssertsHold, TypeOK
<1>2. nextin \in Slots /\ nextout \in Slots
  BY DEF TypeOK
<1>3. SlotOf(1) = nextout
  BY <1>2, ModBelow DEF SlotOf
<1>4. ASSUME NEW i \in 1 .. occupied - 1
      PROVE  SlotOf(i)' = SlotOf(i + 1)
  <2>1. (((nextout + 1) % QueueSize) + (i - 1)) % QueueSize = (nextout + ((i - 1) + 1)) % QueueSize
    BY <1>1, <1>2, SlotShift
  <2>2. (nextout + 1) % QueueSize \in Nat
    BY <1>2, ModRange
  <2>3. /\ ((nextout + 1) % QueueSize) + (i - 1) = ((nextout + 1) % QueueSize) + i - 1
        /\ nextout + ((i - 1) + 1) = nextout + (i + 1) - 1
    BY <1>1, <1>2, <2>2
  <2> QED
    BY <2>1, <2>3 DEF SlotOf
<1>5. IndexInv'
  <2>1. (((nextout + 1) % QueueSize) + (occupied - 1)) % QueueSize
          = (nextout + ((occupied - 1) + 1)) % QueueSize
    BY <1>1, <1>2, SlotShift
  <2>2. nextout + ((occupied - 1) + 1) = nextout + occupied
    BY <1>1, <1>2
  <2> QED
    BY <2>1, <2>2 DEF IndexInv
<1>6. \A i \in 1 .. occupied - 1 : txnInfoArr'[SlotOf(i)'] = txnInfoArr[SlotOf(i + 1)]
  BY <1>4
<1> QED
  BY <1>1, <1>3, <1>5, <1>6

LEMMA RingInvNext == RingInv /\ [Next]_vars => RingInv'
<1> SUFFICES ASSUME RingInv, [Next]_vars PROVE RingInv'
  OBVIOUS
<1>0. TypeInv'
  BY TypeInvNext DEF RingInv
<1>1. ASSUME NEW p \in Producers, EnqueueCopy(p)
      PROVE  IndexInv' /\ TicketsConsecutive'
  <2> USE QueueAssumption DEF RingInv
  <2>1. /\ ticketReq' = (ticketReq + 1) % TicketModulus
        /\ ticketReq \in Tickets
        /\ occupied \in 0 .. QueueSize
        /\ occupied < QueueSize
        /\ occupied' = occupied + 1
    BY <1>1, EnqueueSlots DEF EnqueueCopy, TypeInv, TypeOK
  <2>2. ASSUME NEW i \in 1 .. occupied
        PROVE  /\ txnInfoArr[SlotOf(i)] # NoTxn
               /\ (txnInfoArr[SlotOf(i)].ticket + (occupied + 1 - i)) % TicketModulus = ticketReq'
    <3> DEFINE tk == txnInfoArr[SlotOf(i)].ticket
    <3>1. txnInfoArr[SlotOf(i)] # NoTxn /\ (tk + (occupied - i)) % TicketModulus = ticketReq
      BY DEF TicketsConsecutive
    <3>2. SlotOf(i) \in Slots
      <4>1. nextout + i - 1 \in Nat
        BY <2>1 DEF Slots, TypeInv, TypeOK
      <4> QED
        BY <4>1, ModRange DEF SlotOf, Slots
    <3>3. tk \in Tickets
      BY <3>1, <3>2 DEF TypeInv, TypeOK, TxnInfo
    <3> HIDE DEF tk
    <3>4. tk + (occupied - i) \in 0 .. 2 * TicketModulus - 2
      BY <2>1, <3>3 DEF Tickets
    <3>5. (((tk + (occupied - i)) % TicketModulus) + 1) % TicketModulus
             = ((tk + (occupied - i)) + 1) % TicketModulus
      BY <3>4, ModSucc
    <3>6. tk + (occupied - i) + 1 = tk + (occupied + 1 - i)
      BY <2>1, <3>3 DEF Tickets
    <3> QED
      BY <2>1, <3>1, <3>5, <3>6 DEF tk
  <2>3. [request |-> request[p], ticket |-> ticketReq'] \in TxnInfo
    BY <1>1, <1>0, <2>1 DEF TypeInv, TypeOK, TxnInfo, RequestSet, EnqueueCopy
  <2>4. ASSUME NEW i \in 1 .. occupied + 1
        PROVE  /\ txnInfoArr'[SlotOf(i)'] # NoTxn
               /\ (txnInfoArr'[SlotOf(i)'].ticket + (occupied + 1 - i)) % TicketModulus = ticketReq'
    <3>1. CASE i <= occupied
      <4>1. i \in 1 .. occupied
        BY <3>1, <2>1
      <4>2. txnInfoArr'[SlotOf(i)'] = txnInfoArr[SlotOf(i)]
        BY <4>1, <1>1, EnqueueSlots
      <4> QED
        BY <4>1, <4>2, <2>2
    <3>2. CASE i = occupied + 1
      <4>1. txnInfoArr'[SlotOf(i)'] = [request |-> request[p], ticket |-> ticketReq']
        BY <3>2, <1>1, <2>1, EnqueueSlots
      <4>2. ticketReq' \in 0 .. TicketModulus - 1
        BY <1>0 DEF TypeInv, TypeOK, Tickets
      <4>3. (ticketReq' + (occupied + 1 - i)) % TicketModulus = ticketReq'
        BY <3>2, <4>2, <2>1, ModBelow
      <4> QED
        BY <4>1, <4>3, <2>3
    <3> QED
      BY <2>1, <3>1, <3>2
  <2>5. TicketsConsecutive'
    BY <2>1, <2>4 DEF TicketsConsecutive
  <2>6. IndexInv'
    BY <1>1, EnqueueSlots
  <2> QED
    BY <2>5, <2>6
<1>2. ASSUME NEW c \in Consumers, DequeueCopy(c)
      PROVE  IndexInv' /\ TicketsConsecutive'
  <2> USE QueueAssumption DEF RingInv
  <2>1. ticketReq' = ticketReq /\ occupied \in Nat
    BY <1>2 DEF DequeueCopy, TypeInv, TypeOK
  <2>2. ASSUME NEW i \in 1 .. occupied - 1
        PROVE  /\ txnInfoArr'[SlotOf(i)'] # NoTxn
               /\ (txnInfoArr'[SlotOf(i)'].ticket + (occupied - 1 - i)) % TicketModulus = ticketReq'
    <3>1. txnInfoArr'[SlotOf(i)'] = txnInfoArr[SlotOf(i + 1)]
      BY <1>2, DequeueSlots
    <3>2. i + 1 \in 1 .. occupied /\ occupied - (i + 1) = occupied - 1 - i
      BY <2>1
    <3>3. /\ txnInfoArr[SlotOf(i + 1)] # NoTxn
          /\ (txnInfoArr[SlotOf(i + 1)].ticket + (occupied - (i + 1))) % TicketModulus = ticketReq
      BY <3>2 DEF TicketsConsecutive
    <3> QED
      BY <2>1, <3>1, <3>2, <3>3
  <2> QED
    BY <1>2, <2>2, DequeueSlots DEF TicketsConsecutive
<1>3. ASSUME UNCHANGED ring
      PROVE  IndexInv' /\ TicketsConsecutive'
  BY <1>3 DEF ring, RingInv, IndexInv, TicketsConsecutive, SlotOf
<1>4. \/ \E p \in Producers : EnqueueCopy(p)
      \/ \E c \in Consumers : DequeueCopy(c)
      \/ UNCHANGED ring
  BY DEF Next, vars, ring, EnqueueCall, DequeueCall, SignalMore, SignalLess, SignalUnlock,
         Inside, Lock, Leave, Wait, Timeout, Relock, DieTest, SetTimeToDie
<1> QED
  BY <1>0, <1>1, <1>2, <1>3, <1>4 DEF RingInv

(***************************************************************************)
(* The transactions in the ring carry the last tickets given out, oldest   *)
(* first, whatever the ring size and however often nextin, nextout and the *)
(* ticket counter have wrapped around.                                     *)
(***************************************************************************)
THEOREM TicketsAreConsecutive == Spec => []TicketsConsecutive
<1>1. RingInv => TicketsConsecutive
  BY DEF RingInv
<1> QED
  BY RingInvInit, RingInvNext, <1>1, PTL DEF Spec

-----------------------------------------------------------------------------
\* Sequences of the same length with the same elements are equal.
LEMMA SeqExtensional ==
  ASSUME NEW S, NEW s \in Seq(S), NEW t \in Seq(S), Len(s) = Len(t),
         \A i \in 1 .. Len(s) : s[i] = t[i]
  PROVE  s = t
OBVIOUS

\* The occupied slots, as a sequence.
LEMMA ContentsSeq ==
  ASSUME RingInv
  PROVE  /\ Contents \in Seq(TxnInfo \cup {NoTxn})
         /\ Len(Contents) = occupied
         /\ \A i \in 1 .. occupied : Contents[i] = txnInfoArr[SlotOf(i)]
<1>1. occupied \in Nat
  BY QueueAssumption DEF RingInv, TypeInv, TypeOK
<1>2. ASSUME NEW i \in 1 .. occupied
      PROVE  txnInfoArr[SlotOf(i)] \in TxnInfo \cup {NoTxn}
  <2>1. nextout + i - 1 \in Nat
    BY QueueAssumption DEF RingInv, TypeInv, TypeOK, Slots
  <2>2. SlotOf(i) \in Slots
    BY <2>1, QueueAssumption, ModRange DEF SlotOf, Slots
  <2> QED
    BY <2>2 DEF RingInv, TypeInv, TypeOK
<1>3. Contents \in [1 .. occupied -> TxnInfo \cup {NoTxn}]
  BY <1>2 DEF Contents
<1> QED
  BY <1>1, <1>3 DEF Contents

\* An enqueue appends to the abstract queue.
LEMMA EnqueueRefines ==
  ASSUME RingInv, NEW p \in Producers, EnqueueCopy(p)
  PROVE  RQ!Put(p, request[p]) /\ request[p] \in Txns
<1> DEFINE rec == [request |-> request[p], ticket |-> (ticketReq + 1) % TicketModulus]
<1>1. /\ occupied \in Nat
      /\ pc[p] = "copy"
      /\ p \in Threads
      /\ pc \in [Threads -> Labels]
      /\ request[p] \in Txns
  BY QueueAssumption DEF EnqueueCopy, RingInv, TypeInv, TypeOK, RequestSet, Threads
<1>2. /\ occupied < QueueSize
      /\ occupied' = occupied + 1
      /\ \A i \in 1 .. occupied : txnInfoArr'[SlotOf(i)'] = txnInfoArr[SlotOf(i)]
      /\ \A i : i = occupied + 1 => txnInfoArr'[SlotOf(i)'] = rec
  BY EnqueueSlots
<1>3. Contents' = [i \in 1 .. occupied + 1 |-> txnInfoArr'[SlotOf(i)']]
  BY <1>2 DEF Contents
<1> HIDE DEF rec
<1>4. Contents' = Append(Contents, rec)
  <2> DEFINE S == TxnInfo \cup {NoTxn, rec}
  <2>1. /\ Contents \in Seq(S)
        /\ Len(Contents) = occupied
        /\ \A i \in 1 .. occupied : Contents[i] = txnInfoArr[SlotOf(i)]
    BY ContentsSeq
  <2>2. \A i \in 1 .. occupied + 1 :
           txnInfoArr'[SlotOf(i)'] = IF i <= occupied THEN Contents[i] ELSE rec
    BY <1>1, <1>2, <2>1
  <2>3. /\ Append(Contents, rec) \in Seq(S)
        /\ Len(Append(Contents, rec)) = occupied + 1
        /\ \A i \in 1 .. occupied + 1 :
             Append(Contents, rec)[i] = IF i <= occupied THEN Contents[i] ELSE rec
    BY <1>1, <2>1
  <2>4. /\ Contents' \in [1 .. occupied + 1 -> S]
        /\ \A i \in 1 .. occupied + 1 :
             Contents'[i] = IF i <= occupied THEN Contents[i] ELSE rec
    BY <1>1, <1>3, <2>1, <2>2
  <2>5. Contents' \in Seq(S) /\ Len(Contents') = occupied + 1
    BY <1>1, <2>4
  <2> HIDE DEF S
  <2> QED
    BY <2>3, <2>4, <2>5, SeqExtensional
<1>5. {th \in Threads : pc[th] = "failed"}' = {th \in Threads : pc[th] = "failed"}
  BY <1>1 DEF EnqueueCopy, Goto
<1> QED
  BY <1>1, <1>2, <1>4, <1>5, ContentsSeq DEF RQ!Put, RQ!NextTicket, EnqueueCopy, rec

\* A dequeue takes the head of the abstract queue.
LEMMA DequeueRefines ==
  ASSUME RingInv, NEW c \in Consumers, DequeueCopy(c)
  PROVE  RQ!Take(c)
<1>1. /\ occupied \in Nat
      /\ pc[c] = "copy"
      /\ c \in Threads
      /\ pc \in [Threads -> Labels]
  BY QueueAssumption DEF DequeueCopy, RingInv, TypeInv, TypeOK, Threads
<1>2. /\ occupied > 0
      /\ occupied' = occupied - 1
      /\ SlotOf(1) = nextout
      /\ \A i \in 1 .. occupied - 1 : txnInfoArr'[SlotOf(i)'] = txnInfoArr[SlotOf(i + 1)]
  BY DequeueSlots
<1>3. Contents # << >> /\ Head(Contents) = txnInfoArr[nextout]
  BY <1>1, <1>2, ContentsSeq
<1>4. Contents' = [i \in 1 .. occupied - 1 |-> txnInfoArr'[SlotOf(i)']]
  BY <1>2 DEF Contents
<1>5. Contents' = Tail(Contents)
  <2> DEFINE S == TxnInfo \cup {NoTxn}
  <2>1. /\ Contents \in Seq(S)
        /\ Len(Contents) = occupied
        /\ \A i \in 1 .. occupied : Contents[i] = txnInfoArr[SlotOf(i)]
    BY ContentsSeq
  <2> HIDE DEF S
  <2>2. /\ Tail(Contents) \in Seq(S)
        /\ Len(Tail(Contents)) = occupied - 1
        /\ \A i \in 1 .. occupied - 1 : Tail(Contents)[i] = Contents[i + 1]
    BY <1>1, <1>3, <2>1
  <2>3. \A i \in 1 .. occupied - 1 : txnInfoArr'[SlotOf(i)'] = Contents[i + 1]
    BY <1>1, <1>2, <2>1
  <2>4. /\ Contents' \in [1 .. occupied - 1 -> S]
        /\ \A i \in 1 .. occupied - 1 : Contents'[i] = Contents[i + 1]
    BY <1>1, <1>4, <2>1, <2>3
  <2>5. Contents' \in Seq(S) /\ Len(Contents') = occupied - 1
    BY <1>1, <1>2, <2>4
  <2> QED
    BY <2>2, <2>4, <2>5, SeqExtensional
<1>6. {th \in Threads : pc[th] = "failed"}' = {th \in Threads : pc[th] = "failed"}
  BY <1>1 DEF DequeueCopy, Goto
<1> QED
  BY <1>3, <1>5, <1>6 DEF RQ!Take, DequeueCopy

\* Steps that change neither the ring nor what callers see are stutters.
LEMMA StutterRefines ==
  ASSUME UNCHANGED <<ring, ticketRet, received, timeToDie>>,
         \A th \in Threads : pc'[th] = "failed" <=> pc[th] = "failed"
  PROVE  UNCHANGED RQ!vars
<1>1. Contents' = Contents
  BY DEF Contents, SlotOf, ring
<1>2. {th \in Threads : pc[th] = "failed"}' = {th \in Threads : pc[th] = "failed"}
  OBVIOUS
<1> QED
  BY <1>1, <1>2 DEF RQ!vars, ring

LEMMA StepRefines == RingInv /\ [Next]_vars => [RQ!Next]_(RQ!vars)
<1> SUFFICES ASSUME RingInv, [Next]_vars PROVE [RQ!Next]_(RQ!vars)
  OBVIOUS
<1>0. pc \in [Threads -> Labels]
  BY DEF RingInv, TypeInv, TypeOK
<1>1. ASSUME NEW p \in Producers, EnqueueCopy(p) PROVE RQ!Next
  BY <1>1, EnqueueRefines DEF RQ!Next
<1>2. ASSUME NEW c \in Consumers, DequeueCopy(c) PROVE RQ!Next
  BY <1>2, DequeueRefines DEF RQ!Next
<1>3. ASSUME SetTimeToDie PROVE RQ!Next
  <2>1. Contents' = Contents
    BY <1>3 DEF SetTimeToDie, Contents, SlotOf, ring
  <2> QED
    BY <1>3, <2>1 DEF SetTimeToDie, RQ!Next, RQ!Stop, ring, bufs
<1>4. ASSUME NEW th \in Threads, DieTest(th), timeToDie PROVE RQ!Next
  <2>1. Contents' = Contents
    BY <1>4 DEF DieTest, Contents, SlotOf, ring
  <2>2. {x \in Threads : pc[x] = "failed"}' = {x \in Threads : pc[x] = "failed"} \cup {th}
    BY <1>0, <1>4 DEF DieTest, Goto
  <2> QED
    BY <1>4, <2>1, <2>2 DEF DieTest, RQ!Next, RQ!TurnAway, ring, bufs, Threads
<1>5. ASSUME NEW th \in Threads, Inside(th), ~(DieTest(th) /\ timeToDie)
      PROVE  UNCHANGED RQ!vars
  BY <1>0, <1>5, StutterRefines
  DEF Inside, Lock, Leave, Wait, Timeout, Relock, DieTest, Goto, ring, bufs
<1>6. ASSUME NEW th \in Threads, NEW role, role \in {Producers, Consumers},
             SignalUnlock(th, role)
      PROVE  UNCHANGED RQ!vars
  <2>1. \A x \in Threads : pc'[x] = "failed" <=> pc[x] = "failed"
    BY <1>0, <1>6 DEF SignalUnlock, Goto, Asleep, Threads
  <2> QED
    BY <1>6, <2>1, StutterRefines DEF SignalUnlock, ring, bufs
<1>7. ASSUME NEW p \in Producers, NEW t \in Txns, EnqueueCall(p, t)
      PROVE  UNCHANGED RQ!vars
  BY <1>0, <1>7, StutterRefines DEF EnqueueCall, Goto, ring, Threads
<1>8. ASSUME NEW c \in Consumers, DequeueCall(c)
      PROVE  UNCHANGED RQ!vars
  BY <1>0, <1>8, StutterRefines DEF DequeueCall, Goto, ring, bufs, Threads
<1>9. CASE UNCHANGED vars
  BY <1>9, StutterRefines DEF vars, ring
<1> QED
  BY <1>1, <1>2, <1>3, <1>4, <1>5, <1>6, <1>7, <1>8, <1>9
  DEF Next, SignalMore, SignalLess, Threads

(***************************************************************************)
(* The ring of chronos_queue.c implements the abstract ready queue: first  *)
(* in first out, nothing lost, duplicated or altered, and no call turned   *)
(* away before the server is asked to die.                                 *)
(***************************************************************************)
THEOREM ImplementsReadyQueue == Spec => RefinesReadyQueue
<1>1. Init => RQ!Init
  <2> SUFFICES ASSUME Init PROVE RQ!Init
    OBVIOUS
  <2>1. Contents = << >>
    BY DEF Init, Contents
  <2>2. {th \in Threads : pc[th] = "failed"} = {}
    BY DEF Init
  <2> QED
    BY <2>1, <2>2 DEF Init, RQ!Init
<1> QED
  BY <1>1, RingInvInit, RingInvNext, StepRefines, PTL DEF Spec, RQ!Spec, RefinesReadyQueue

-----------------------------------------------------------------------------
(***************************************************************************)
(* No wake-up of the ready queue is lost, for any number of producers and  *)
(* consumers.  Together with TypeInv, NoLostWakeup is inductive; the proof *)
(* counts, action by action, the threads of a role that are on their way   *)
(* to the ring against the slots they could use.                           *)
(***************************************************************************)

\* NoLostWakeup for one role: `other' signals it, `avail' slots are usable.
Covered(role, other, avail) ==
  Asleep(role) # {} => avail <= Cardinality(Awake(role)) + SignalDue(other)

\* The labels that Awake counts.
OnTheWay == {"relock", "dieTest", "test", "copy"}

\* NoLostWakeup without its premise on time_to_die.
BothCovered ==
  /\ Covered(Consumers, Producers, occupied)
  /\ Covered(Producers, Consumers, QueueSize - occupied)

WakeInv == TypeInv /\ NoLostWakeup

\* Both roles are finite, so their awake threads can be counted.
LEMMA AwakeFinite ==
  ASSUME NEW role, role \in {Producers, Consumers}
  PROVE  /\ IsFiniteSet(Awake(role)) /\ Cardinality(Awake(role)) \in Nat
         /\ IsFiniteSet(Awake(role)') /\ Cardinality(Awake(role)') \in Nat
<1>1. Awake(role) \subseteq role /\ Awake(role)' \subseteq role
  BY DEF Awake
<1> QED
  BY <1>1, QueueAssumption, FS_Subset, FS_CardinalityType

LEMMA SignalDueType ==
  ASSUME NEW role PROVE SignalDue(role) \in 0 .. 1 /\ SignalDue(role)' \in 0 .. 1
BY DEF SignalDue

\* A step after which as many threads are awake, no new one sleeps, and the
\* usable slots and the pending signal are the same, keeps a role covered.
LEMMA CoveredByMore ==
  ASSUME NEW role, role \in {Producers, Consumers},
         NEW other,
         NEW avail \in Int, NEW avail1 \in Int, avail1 <= avail,
         Covered(role, other, avail),
         Asleep(role)' # {} => Asleep(role) # {},
         Awake(role) \subseteq Awake(role)',
         SignalDue(other)' = SignalDue(other)
  PROVE  Asleep(role)' # {} => avail1 <= Cardinality(Awake(role)') + SignalDue(other)'
<1>1. Cardinality(Awake(role)) <= Cardinality(Awake(role)')
  BY AwakeFinite, FS_Subset
<1> QED
  BY <1>1, AwakeFinite, SignalDueType DEF Covered

\* The slots usable by each role.
LEMMA AvailType ==
  ASSUME TypeOK PROVE occupied \in Nat /\ occupied \in Int /\ QueueSize - occupied \in Int
BY QueueAssumption DEF TypeOK

\* Calls, lock, loop exit, timeout, relock and a time_to_die test that goes on:
\* nobody falls asleep, nobody leaves the way to the ring, no signal is due.
LEMMA QuietStep ==
  ASSUME TypeOK, BothCovered, occupied' = occupied,
         \A x \in Threads :
           \/ pc'[x] = pc[x]
           \/ pc[x] \in OnTheWay /\ pc'[x] \in OnTheWay
           \/ pc[x] \notin OnTheWay \cup {"signal"} /\ pc'[x] \notin {"waiting", "signal"}
  PROVE  BothCovered'
<1>1. ASSUME NEW role, role \in {Producers, Consumers}
      PROVE  /\ Asleep(role)' # {} => Asleep(role) # {}
             /\ Awake(role) \subseteq Awake(role)'
             /\ SignalDue(role)' = SignalDue(role)
  <2>1. \A x \in role : x \in Threads
    BY <1>1 DEF Threads
  <2>2. \A x \in role : pc'[x] = "waiting" => pc[x] = "waiting"
    BY <2>1 DEF OnTheWay
  <2>3. \A x \in role : pc[x] \in OnTheWay => pc'[x] \in OnTheWay
    BY <2>1
  <2>4. \A x \in role : pc'[x] = "signal" <=> pc[x] = "signal"
    BY <2>1 DEF OnTheWay
  <2> QED
    BY <2>2, <2>3, <2>4 DEF Asleep, Awake, SignalDue, OnTheWay
<1>2. Covered(Consumers, Producers, occupied)'
  BY <1>1, AvailType, CoveredByMore DEF BothCovered, Covered
<1>3. Covered(Producers, Consumers, QueueSize - occupied)'
  BY <1>1, AvailType, CoveredByMore DEF BothCovered, Covered
<1> QED
  BY <1>2, <1>3 DEF BothCovered

\* A thread that falls asleep found nothing to use; the other role is as before.
LEMMA WaitStep ==
  ASSUME TypeInv, BothCovered, NEW th \in Threads, Wait(th)
  PROVE  BothCovered'
<1> USE QueueAssumption DEF TypeInv
<1>1. /\ pc \in [Threads -> Labels] /\ pc[th] = "test" /\ pc' = [pc EXCEPT ![th] = "waiting"]
      /\ occupied' = occupied /\ occupied \in 0 .. QueueSize
  BY DEF Wait, Goto, TypeOK, ring
<1>2. ASSUME NEW role, role \in {Producers, Consumers}, th \notin role
      PROVE  /\ Asleep(role)' = Asleep(role)
             /\ Awake(role)' = Awake(role)
             /\ SignalDue(role)' = SignalDue(role)
  BY <1>1, <1>2 DEF Asleep, Awake, SignalDue, Threads
<1>3. ASSUME NEW role, role \in {Producers, Consumers}
      PROVE  SignalDue(role)' = SignalDue(role)
  BY <1>1 DEF SignalDue, Threads
<1>4. CASE th \in Producers
  <2>1. QueueSize - occupied' <= 0 /\ th \notin Consumers
    BY <1>1, <1>4 DEF Wait, MustWait
  <2>2. Covered(Consumers, Producers, occupied)'
    BY <1>1, <1>2, <1>3, <2>1 DEF BothCovered, Covered
  <2>3. Covered(Producers, Consumers, QueueSize - occupied)'
    BY <1>1, <2>1, AwakeFinite, SignalDueType DEF Covered
  <2> QED
    BY <2>2, <2>3 DEF BothCovered
<1>5. CASE th \in Consumers
  <2>1. occupied' <= 0 /\ th \notin Producers
    BY <1>1, <1>5 DEF Wait, MustWait
  <2>2. Covered(Producers, Consumers, QueueSize - occupied)'
    BY <1>1, <1>2, <1>3, <2>1 DEF BothCovered, Covered
  <2>3. Covered(Consumers, Producers, occupied)'
    BY <1>1, <2>1, AwakeFinite, SignalDueType DEF Covered
  <2> QED
    BY <2>2, <2>3 DEF BothCovered
<1> QED
  BY <1>4, <1>5 DEF Threads

\* A copy by th of `role': one slot less for its own role, which loses th from
\* the way to the ring; one slot more for `other', which now has a signal due.
LEMMA CopyStep ==
  ASSUME TypeInv, NEW role, NEW other,
         {role, other} = {Producers, Consumers},
         NEW th \in role, pc[th] = "copy", pc' = [pc EXCEPT ![th] = "signal"],
         NEW mine \in Int, NEW theirs \in Int,
         Covered(role, other, mine), Covered(other, role, theirs)
  PROVE  /\ Asleep(role)' # {} => mine - 1 <= Cardinality(Awake(role)') + SignalDue(other)'
         /\ Asleep(other)' # {} => theirs + 1 <= Cardinality(Awake(other)') + SignalDue(role)'
<1> USE QueueAssumption DEF TypeInv
<1>1. /\ role \cap other = {} /\ role \subseteq Threads /\ other \subseteq Threads
      /\ role \in {Producers, Consumers} /\ other \in {Producers, Consumers}
  BY DEF Threads
<1>2. pc \in [Threads -> Labels]
  BY DEF TypeOK
<1>3. \A x \in Threads : x # th => pc[x] # "signal"
  BY <1>1 DEF MutualExclusion, Critical
<1>4. SignalDue(role) = 0 /\ SignalDue(role)' = 1 /\ SignalDue(other)' = SignalDue(other)
  BY <1>1, <1>2, <1>3 DEF SignalDue
<1>5. Asleep(role)' = Asleep(role) /\ Asleep(other)' = Asleep(other)
  BY <1>1, <1>2 DEF Asleep
<1>6. Awake(role)' = Awake(role) \ {th} /\ th \in Awake(role) /\ Awake(other)' = Awake(other)
  BY <1>1, <1>2 DEF Awake
<1>7. Cardinality(Awake(role)') = Cardinality(Awake(role)) - 1
  <2>1. IsFiniteSet(Awake(role)) /\ Cardinality(Awake(role)) \in Nat
    BY <1>1, AwakeFinite
  <2>2. Cardinality(Awake(role) \ {th}) = Cardinality(Awake(role)) - 1
    BY <1>6, <2>1, FS_RemoveElement
  <2> QED
    BY <1>6, <2>2
<1> QED
  BY <1>1, <1>4, <1>5, <1>6, <1>7, AwakeFinite, SignalDueType DEF Covered

\* The signal by th wakes a sleeper of `role', who takes the place of the
\* signal that was due.  th's own role is as before.
LEMMA SignalStep ==
  ASSUME TypeInv, NEW role, NEW other,
         {role, other} = {Producers, Consumers},
         NEW th \in other, SignalUnlock(th, role),
         NEW mine \in Int, NEW theirs \in Int,
         Covered(role, other, mine), Covered(other, role, theirs)
  PROVE  /\ Asleep(role)' # {} => mine <= Cardinality(Awake(role)') + SignalDue(other)'
         /\ Asleep(other)' # {} => theirs <= Cardinality(Awake(other)') + SignalDue(role)'
<1> USE QueueAssumption DEF TypeInv
<1>1. /\ role \cap other = {} /\ role \subseteq Threads /\ other \subseteq Threads
      /\ role \in {Producers, Consumers} /\ other \in {Producers, Consumers}
  BY DEF Threads
<1>2. pc \in [Threads -> Labels] /\ pc[th] = "signal"
  BY DEF TypeOK, SignalUnlock
<1>3. CASE Asleep(role) = {}
  <2>1. pc' = [pc EXCEPT ![th] = "idle"]
    BY <1>3 DEF SignalUnlock, Goto
  <2>2. Asleep(role)' = {} /\ Asleep(other)' = Asleep(other) /\ Awake(other)' = Awake(other)
    BY <1>1, <1>2, <1>3, <2>1 DEF Asleep, Awake
  <2>3. SignalDue(role)' = SignalDue(role)
    BY <1>1, <1>2, <2>1 DEF SignalDue
  <2> QED
    BY <2>2, <2>3 DEF Covered
<1>4. CASE Asleep(role) # {}
  <2>1. PICK w \in Asleep(role) : pc' = [pc EXCEPT ![th] = "idle", ![w] = "relock"]
    BY <1>4 DEF SignalUnlock
  <2>2. w \in role /\ pc[w] = "waiting" /\ w # th
    BY <1>1, <2>1 DEF Asleep
  <2>3. Awake(role)' = Awake(role) \cup {w} /\ w \notin Awake(role) /\ Awake(other)' = Awake(other)
    BY <1>1, <1>2, <2>1, <2>2 DEF Awake
  <2>4. Asleep(other)' = Asleep(other) /\ SignalDue(role)' = SignalDue(role)
    BY <1>1, <1>2, <2>1, <2>2 DEF Asleep, SignalDue
  <2>5. Cardinality(Awake(role)') = Cardinality(Awake(role)) + 1
    BY <1>1, <2>3, AwakeFinite, FS_AddElement
  <2> QED
    BY <1>1, <1>4, <2>3, <2>4, <2>5, AwakeFinite, SignalDueType DEF Covered
<1> QED
  BY <1>3, <1>4

LEMMA WakeInvNext == WakeInv /\ [Next]_vars => WakeInv'
<1> SUFFICES ASSUME WakeInv, [Next]_vars, ~timeToDie' PROVE BothCovered'
  BY TypeInvNext DEF WakeInv, NoLostWakeup, BothCovered, Covered
<1> USE DEF TypeInv
<1>0. TypeInv /\ BothCovered /\ ~timeToDie /\ pc \in [Threads -> Labels]
  BY DEF WakeInv, NoLostWakeup, BothCovered, Covered, Next, vars, EnqueueCall, EnqueueCopy,
         DequeueCall, DequeueCopy, SignalMore, SignalLess, SignalUnlock, Inside, Lock, Leave,
         Wait, Timeout, Relock, DieTest, SetTimeToDie, TypeOK
<1>1. ASSUME NEW p \in Producers, EnqueueCopy(p) PROVE BothCovered'
  <2>1. pc[p] = "copy" /\ pc' = [pc EXCEPT ![p] = "signal"] /\ occupied' = occupied + 1
    BY <1>1 DEF EnqueueCopy, Goto
  <2>2. /\ Asleep(Producers)' # {} =>
             QueueSize - occupied - 1 <= Cardinality(Awake(Producers)') + SignalDue(Consumers)'
        /\ Asleep(Consumers)' # {} =>
             occupied + 1 <= Cardinality(Awake(Consumers)') + SignalDue(Producers)'
    BY <1>0, <2>1, AvailType, CopyStep DEF BothCovered
  <2>3. QueueSize - (occupied + 1) = QueueSize - occupied - 1
    BY <1>0, QueueAssumption, AvailType
  <2> QED
    BY <2>1, <2>2, <2>3 DEF BothCovered, Covered
<1>2. ASSUME NEW c \in Consumers, DequeueCopy(c) PROVE BothCovered'
  <2>1. pc[c] = "copy" /\ pc' = [pc EXCEPT ![c] = "signal"] /\ occupied' = occupied - 1
    BY <1>2 DEF DequeueCopy, Goto
  <2>2. /\ Asleep(Consumers)' # {} =>
             occupied - 1 <= Cardinality(Awake(Consumers)') + SignalDue(Producers)'
        /\ Asleep(Producers)' # {} =>
             QueueSize - occupied + 1 <= Cardinality(Awake(Producers)') + SignalDue(Consumers)'
    BY <1>0, <2>1, AvailType, CopyStep DEF BothCovered
  <2>3. QueueSize - (occupied - 1) = QueueSize - occupied + 1
    BY <1>0, QueueAssumption, AvailType
  <2> QED
    BY <2>1, <2>2, <2>3 DEF BothCovered, Covered
<1>3. ASSUME NEW p \in Producers, SignalMore(p) PROVE BothCovered'
  <2>1. occupied' = occupied
    BY <1>3 DEF SignalMore, SignalUnlock, ring
  <2> QED
    BY <1>0, <1>3, <2>1, AvailType, SignalStep DEF SignalMore, BothCovered, Covered
<1>4. ASSUME NEW c \in Consumers, SignalLess(c) PROVE BothCovered'
  <2>1. occupied' = occupied
    BY <1>4 DEF SignalLess, SignalUnlock, ring
  <2> QED
    BY <1>0, <1>4, <2>1, AvailType, SignalStep DEF SignalLess, BothCovered, Covered
<1>5. ASSUME NEW th \in Threads, Inside(th), ~Wait(th) PROVE BothCovered'
  <2>1. occupied' = occupied
    BY <1>5 DEF Inside, Lock, Leave, Timeout, Relock, DieTest, ring
  <2>2. \A x \in Threads :
           \/ pc'[x] = pc[x]
           \/ pc[x] \in OnTheWay /\ pc'[x] \in OnTheWay
           \/ pc[x] \notin OnTheWay \cup {"signal"} /\ pc'[x] \notin {"waiting", "signal"}
    BY <1>0, <1>5 DEF Inside, Lock, Leave, Timeout, Relock, DieTest, Goto, OnTheWay
  <2> QED
    BY <1>0, <2>1, <2>2, QuietStep
<1>6. ASSUME NEW th \in Threads, Wait(th) PROVE BothCovered'
  BY <1>0, <1>6, WaitStep
<1>7. ASSUME NEW th \in Threads, pc[th] = "idle", Goto(th, "lock"), occupied' = occupied
      PROVE  BothCovered'
  <2>1. \A x \in Threads :
           \/ pc'[x] = pc[x]
           \/ pc[x] \in OnTheWay /\ pc'[x] \in OnTheWay
           \/ pc[x] \notin OnTheWay \cup {"signal"} /\ pc'[x] \notin {"waiting", "signal"}
    BY <1>0, <1>7 DEF Goto, OnTheWay
  <2> QED
    BY <1>0, <1>7, <2>1, QuietStep
<1>8. ASSUME UNCHANGED <<occupied, pc>> PROVE BothCovered'
  BY <1>0, <1>8, QuietStep
<1>9. \/ \E th \in Threads : pc[th] = "idle" /\ Goto(th, "lock") /\ occupied' = occupied
      \/ \E p \in Producers : EnqueueCopy(p) \/ SignalMore(p)
      \/ \E c \in Consumers : DequeueCopy(c) \/ SignalLess(c)
      \/ \E th \in Threads : Inside(th)
      \/ UNCHANGED <<occupied, pc>>
  BY <1>0 DEF Next, vars, EnqueueCall, DequeueCall, SetTimeToDie, ring, Threads
<1> QED
  BY <1>1, <1>2, <1>3, <1>4, <1>5, <1>6, <1>7, <1>8, <1>9

(***************************************************************************)
(* For any number of producers and consumers, no wake-up is lost: while a  *)
(* consumer sleeps in chronos_dequeue_transaction there is a thread on its *)
(* way to every queued transaction, and likewise for sleeping producers    *)
(* and free slots.                                                         *)
(***************************************************************************)
THEOREM WakeupsNeverLost == Spec => []NoLostWakeup
<1>1. Init => WakeInv
  <2> SUFFICES ASSUME Init PROVE NoLostWakeup
    BY TypeInvInit DEF WakeInv
  <2>1. Asleep(Consumers) = {} /\ Asleep(Producers) = {}
    BY DEF Init, Asleep, Threads
  <2> QED
    BY <2>1 DEF NoLostWakeup
<1>2. WakeInv => NoLostWakeup
  BY DEF WakeInv
<1> QED
  BY <1>1, <1>2, WakeInvNext, PTL DEF Spec
=============================================================================
