----------------------------- MODULE ReadyQueue -----------------------------
(***************************************************************************)
(* What a Chronos ready queue promises its callers, without the ring       *)
(* buffer, the mutex and the condition variables: a bounded FIFO that      *)
(* stamps every accepted transaction with the next ticket, hands each      *)
(* accepted transaction to exactly one consumer, and turns a call away     *)
(* only once the server has been asked to die.                             *)
(***************************************************************************)
EXTENDS Naturals, Sequences

CONSTANTS
  Producers,      \* threads that enqueue (handlers or update threads)
  Consumers,      \* threads that dequeue (processing threads)
  Txns,           \* transaction requests
  QueueSize,      \* CHRONOS_READY_QUEUE_SIZE
  TicketModulus,  \* 2^64 in the code: tickets are unsigned long long
  NoTxn           \* a buffer nothing was copied into yet

VARIABLES
  queue,       \* the accepted transactions not yet dequeued, oldest first
  lastTicket,  \* the ticket given to the latest accepted transaction
  granted,     \* granted[p]: the ticket the last accepted call of p returned
  received,    \* received[c]: what the last successful dequeue of c returned
  timeToDie,   \* the server has been asked to die
  failed       \* the threads whose call was turned away

vars == <<queue, lastTicket, granted, received, timeToDie, failed>>

NextTicket(t) == (t + 1) % TicketModulus

Init ==
  /\ queue = << >>
  /\ lastTicket = 0
  /\ granted = [p \in Producers |-> 0]
  /\ received = [c \in Consumers |-> NoTxn]
  /\ timeToDie = FALSE
  /\ failed = {}

\* Accept a transaction of p behind everything accepted before it.
Put(p, t) ==
  /\ Len(queue) < QueueSize
  /\ queue' = Append(queue, [request |-> t, ticket |-> NextTicket(lastTicket)])
  /\ lastTicket' = NextTicket(lastTicket)
  /\ granted' = [granted EXCEPT ![p] = NextTicket(lastTicket)]
  /\ UNCHANGED <<received, timeToDie, failed>>

\* Hand the oldest transaction to c.
Take(c) ==
  /\ queue # << >>
  /\ received' = [received EXCEPT ![c] = Head(queue)]
  /\ queue' = Tail(queue)
  /\ UNCHANGED <<lastTicket, granted, timeToDie, failed>>

\* The server is asked to die.
Stop ==
  /\ timeToDie' = TRUE
  /\ UNCHANGED <<queue, lastTicket, granted, received, failed>>

\* A call is turned away: nothing but its return code tells of it.
TurnAway(th) ==
  /\ timeToDie
  /\ failed' = failed \cup {th}
  /\ UNCHANGED <<queue, lastTicket, granted, received, timeToDie>>

Next ==
  \/ \E p \in Producers, t \in Txns : Put(p, t)
  \/ \E c \in Consumers : Take(c)
  \/ Stop
  \/ \E th \in Producers \cup Consumers : TurnAway(th)

Spec == Init /\ [][Next]_vars
=============================================================================
