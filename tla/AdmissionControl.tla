--------------------------- MODULE AdmissionControl ---------------------------
(***************************************************************************)
(* chronos_ac.c and its callers: the admission control that holds back new *)
(* transactions until as many queued ones are done as qosManager asked     *)
(* for ("Version 1: Apply the original admission control approach").       *)
(* This build counts down after every user transaction, but the calls of   *)
(* chronos_ac_wait (in admission_control) and of qosManager (in            *)
(* processThread) are disabled in the source; the module is about the      *)
(* version with both calls.                                                *)
(***************************************************************************)
EXTENDS Integers, FiniteSets

CONSTANTS
  Clients,      \* handler threads, one transaction at a time each
  Servers,      \* processing threads
  MaxFailures,  \* bound: transactions that leave processUserTransaction through failXit
  MaxSets,      \* bound: calls of qosManager
  NoClient

ASSUME ACAssumption ==
  /\ MaxFailures \in Nat
  /\ MaxSets \in Nat
  /\ NoClient \notin Clients
  /\ IsFiniteSet(Clients)

VARIABLES
  handler,          \* per client: where its handler is
  queued,           \* clients with a transaction in userTxnQueue
  server,           \* per processing thread: where it is
  serving,          \* per processing thread: the client it works for
  enqueued_xacts,   \* per processing thread: the local of qosManager
  num_txn_to_wait,
  time_to_die,
  sets,             \* number of calls of qosManager
  failed            \* history: transactions that ended without a decrease

vars == <<handler, queued, server, serving, enqueued_xacts, num_txn_to_wait,
          time_to_die, sets, failed>>

Init ==
  /\ handler = [c \in Clients |-> "idle"]
  /\ queued = {}
  /\ server = [s \in Servers |-> "round"]
  /\ serving = [s \in Servers |-> NoClient]
  /\ enqueued_xacts = [s \in Servers |-> 0]
  /\ num_txn_to_wait = 0
  /\ time_to_die = FALSE
  /\ sets = 0
  /\ failed = 0

Handler(c, l) == handler' = [handler EXCEPT ![c] = l]
Server(s, l)  == server' = [server EXCEPT ![s] = l]

-----------------------------------------------------------------------------
(* Handlers *)

Receive(c) ==
  /\ handler[c] = "idle"
  /\ Handler(c, "wait")
  /\ UNCHANGED <<queued, server, serving, enqueued_xacts, num_txn_to_wait,
                 time_to_die, sets, failed>>

\* Faulty variant: the end of the experiment does not end the wait.
Wait_NoDie(c) ==
  /\ handler[c] = "wait"
  /\ num_txn_to_wait = 0
  /\ Handler(c, "admitted")
  /\ UNCHANGED <<queued, server, serving, enqueued_xacts, num_txn_to_wait,
                 time_to_die, sets, failed>>

\* chronos_ac_wait: polls the count without the lock.
Wait(c) ==
  /\ handler[c] = "wait"
  /\ num_txn_to_wait = 0 \/ time_to_die
  /\ Handler(c, "admitted")
  /\ UNCHANGED <<queued, server, serving, enqueued_xacts, num_txn_to_wait,
                 time_to_die, sets, failed>>

Enqueue(c) ==
  /\ handler[c] = "admitted"
  /\ ~time_to_die
  /\ queued' = queued \cup {c}
  /\ Handler(c, "queued")
  /\ UNCHANGED <<server, serving, enqueued_xacts, num_txn_to_wait, time_to_die, sets, failed>>

\* "Requested to die", before or after the transaction is queued.
Leave(c) ==
  /\ handler[c] \in {"admitted", "queued"}
  /\ time_to_die
  /\ Handler(c, "gone")
  /\ UNCHANGED <<queued, server, serving, enqueued_xacts, num_txn_to_wait,
                 time_to_die, sets, failed>>

-----------------------------------------------------------------------------
(* Processing threads *)

Dequeue(s, c) ==
  /\ server[s] = "round"
  /\ c \in queued
  /\ queued' = queued \ {c}
  /\ serving' = [serving EXCEPT ![s] = c]
  /\ Server(s, "execute")
  /\ UNCHANGED <<handler, enqueued_xacts, num_txn_to_wait, time_to_die, sets, failed>>

\* Faulty variant: the count is decreased below zero.
WaitDecrease_BelowZero(s) ==
  /\ server[s] = "execute"
  /\ num_txn_to_wait' = num_txn_to_wait - 1
  /\ Server(s, "done")
  /\ UNCHANGED <<handler, queued, serving, enqueued_xacts, time_to_die, sets, failed>>

\* The transaction is executed, then chronos_ac_wait_decrease.
WaitDecrease(s) ==
  /\ server[s] = "execute"
  /\ num_txn_to_wait' = IF num_txn_to_wait > 0 THEN num_txn_to_wait - 1 ELSE num_txn_to_wait
  /\ Server(s, "done")
  /\ UNCHANGED <<handler, queued, serving, enqueued_xacts, time_to_die, sets, failed>>

\* failXit of processUserTransaction: no decrease.
TransactionFails(s) ==
  /\ failed < MaxFailures
  /\ server[s] = "execute"
  /\ failed' = failed + 1
  /\ Server(s, "done")
  /\ UNCHANGED <<handler, queued, serving, enqueued_xacts, num_txn_to_wait, time_to_die, sets>>

\* txn_done: the handler replies and reads the next request.
Done(s) ==
  /\ server[s] = "done"
  /\ handler' = [handler EXCEPT ![serving[s]] = IF @ = "queued" THEN "idle" ELSE @]
  /\ serving' = [serving EXCEPT ![s] = NoClient]
  /\ Server(s, "round")
  /\ UNCHANGED <<queued, enqueued_xacts, num_txn_to_wait, time_to_die, sets, failed>>

\* qosManager at the end of a sampling period: the size of the queue is read...
QosRead(s) ==
  /\ server[s] = "round"
  /\ sets < MaxSets
  /\ sets' = sets + 1
  /\ enqueued_xacts' = [enqueued_xacts EXCEPT ![s] = Cardinality(queued)]
  /\ Server(s, "qos")
  /\ UNCHANGED <<handler, queued, serving, num_txn_to_wait, time_to_die, failed>>

\* Faulty variant: the number of waits is not limited to the queue.
WaitSet_NoLimit(s, wanted) ==
  /\ server[s] = "qos"
  /\ num_txn_to_wait' = IF wanted > 0 THEN wanted ELSE num_txn_to_wait
  /\ enqueued_xacts' = [enqueued_xacts EXCEPT ![s] = 0]
  /\ Server(s, "round")
  /\ UNCHANGED <<handler, queued, serving, time_to_die, sets, failed>>

\* ... and degree * enqueued_xacts, at most enqueued_xacts, transactions are
\* waited for; chronos_ac_wait_set ignores 0.
WaitSet(s, wanted) ==
  LET num_waits == IF wanted > enqueued_xacts[s] THEN enqueued_xacts[s] ELSE wanted IN
    /\ server[s] = "qos"
    /\ num_txn_to_wait' = IF num_waits > 0 THEN num_waits ELSE num_txn_to_wait
    /\ enqueued_xacts' = [enqueued_xacts EXCEPT ![s] = 0]
    /\ Server(s, "round")
    /\ UNCHANGED <<handler, queued, serving, time_to_die, sets, failed>>

Expire ==
  /\ ~time_to_die
  /\ time_to_die' = TRUE
  /\ UNCHANGED <<handler, queued, server, serving, enqueued_xacts, num_txn_to_wait,
                 sets, failed>>

-----------------------------------------------------------------------------
HandlerStep(c) == Receive(c) \/ Wait(c) \/ Enqueue(c) \/ Leave(c)

\* Bound: degrees of more than 1 are all alike.
Wanted == 0 .. Cardinality(Clients) + 1

ServerStep(s) ==
  \/ \E c \in Clients : Dequeue(s, c)
  \/ WaitDecrease(s) \/ TransactionFails(s) \/ Done(s)
  \/ QosRead(s)
  \/ \E wanted \in Wanted : WaitSet(s, wanted)

Next ==
  \/ \E c \in Clients : HandlerStep(c)
  \/ \E s \in Servers : ServerStep(s)
  \/ Expire

Spec == Init /\ [][Next]_vars

\* Every thread goes on with its loop; a processing thread ends its
\* transactions.  Receive needs no fairness: a client may stay silent.
FairSpec ==
  /\ Spec
  /\ \A c \in Clients : WF_vars(Wait(c) \/ Enqueue(c) \/ Leave(c))
  /\ \A s \in Servers : WF_vars(ServerStep(s))

-----------------------------------------------------------------------------
\* Type correctness.
TypeOK ==
  /\ handler \in [Clients -> {"idle", "wait", "admitted", "queued", "gone"}]
  /\ queued \subseteq Clients
  /\ server \in [Servers -> {"round", "execute", "done", "qos"}]
  /\ serving \in [Servers -> Clients \cup {NoClient}]
  /\ enqueued_xacts \in [Servers -> 0 .. Cardinality(Clients)]
  /\ num_txn_to_wait \in 0 .. Cardinality(Clients)
  /\ time_to_die \in BOOLEAN
  /\ sets \in 0 .. MaxSets
  /\ failed \in 0 .. MaxFailures

\* The transactions that are still to be executed.
Pending == Cardinality(queued) + Cardinality({s \in Servers : server[s] = "execute"})

\* With one processing thread there is, for every transaction the handlers
\* are told to wait for, one in the system that will decrease the count, or
\* one that has failed without doing so: only failures can hold back the
\* clients of an empty queue.
CountCovered == num_txn_to_wait <= Pending + failed

\* Every transaction that is held back is admitted in the end, once
\* qosManager stops asking for more, unless some transaction has failed; and
\* the end of the experiment releases every handler, whatever the count is.
WaitersReleased ==
  \A c \in Clients :
    handler[c] = "wait" ~> IF time_to_die THEN handler[c] = "gone"
                           ELSE handler[c] # "wait" \/ failed > 0
=============================================================================
