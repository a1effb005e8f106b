---------------------------- MODULE ChronosServer ----------------------------
(***************************************************************************)
(* The threads of startup_server.c and what they share: processing threads *)
(* (processThread) that drain the system queue and then serve one user     *)
(* transaction per round, update threads (updateThread) that feed the      *)
(* system queue, the listener (daListener) that hands connections to the   *)
(* pool, pool threads running daHandler, and main, which spawns, joins and *)
(* frees.  The two ready queues are the bounded FIFOs that ReadyQueue      *)
(* specifies and ChronosQueue implements.                                  *)
(*                                                                         *)
(* A user transaction carries pointers to two variables on its handler's   *)
(* stack, txn_done and txn_rc: the processing thread writes through them   *)
(* and the handler polls them, without a lock.                             *)
(***************************************************************************)
EXTENDS Naturals, Sequences, FiniteSets

CONSTANTS
  Servers,         \* processing threads, numServerThreads of them (default 1)
  Updaters,        \* update threads, numUpdateThreads
  Workers,         \* threads of the pool, numClientsThreads
  Clients,         \* connections
  Listener, Main,  \* the two remaining threads
  QueueSize,       \* CHRONOS_READY_QUEUE_SIZE
  MaxRequests,     \* bound: requests a client sends on its connection
  LibraryMayFail,  \* calls into chronosx, the socket library and malloc may fail
  PacketFreeMayFail,  \* benchmark_data_packet_free may fail
  SpawnMayFail,    \* pthread_create in main may fail
  HangUps,         \* clients may close or lose their connections
  NoClient         \* the pool thread serves no connection

ASSUME ServerAssumption ==
  /\ QueueSize \in Nat \ {0}
  /\ MaxRequests \in Nat \ {0}
  /\ LibraryMayFail \in BOOLEAN
  /\ PacketFreeMayFail \in BOOLEAN
  /\ SpawnMayFail \in BOOLEAN
  /\ HangUps \in BOOLEAN
  /\ NoClient \notin Clients
  /\ Servers \cap Updaters = {}
  /\ Servers \cap Workers = {}
  /\ Updaters \cap Workers = {}
  /\ Listener # Main
  /\ {Listener, Main} \cap (Servers \cup Updaters \cup Workers) = {}

Threads  == Servers \cup Updaters \cup Workers \cup {Listener, Main}
Requests == Clients \X (1 .. MaxRequests)
Codes    == {"SUCCESS", "FAIL"}

VARIABLES
  pc,                  \* where each thread is
  time_to_die,         \* set by the processing threads
  warming_up,          \* statistics are not kept yet
  elapsed,             \* 0: warm-up, 1: experiment, 2: duration is over
  userTxnQueue,        \* entries [worker, request]: the worker owns txn_done/txn_rc
  sysTxnQueue,         \* the update threads whose refreshes are queued
  num_txn_to_dequeue,  \* per processing thread
  current,             \* per processing thread: the user entry it works on
  result,              \* per processing thread: rc of the benchmark transaction
  jobs,                \* connections queued in the pool
  threads_keepalive,   \* of the pool
  socket_fd,           \* per worker: its connection
  reqPacket,           \* per worker: the request it read
  txn_done, txn_rc,    \* per worker: the two variables on its stack
  resPacket,           \* per worker: the code it is about to reply
  sock,                \* per client: state of its connection
  sent,                \* per client: number of requests sent
  inbox,               \* per client: a request is waiting in the socket
  committed,           \* history: requests whose transaction committed
  replied              \* history: the code each request was answered with

flags    == <<time_to_die, warming_up, elapsed>>
queues   == <<userTxnQueue, sysTxnQueue>>
serving  == <<num_txn_to_dequeue, current, result>>
pool     == <<jobs, threads_keepalive>>
handling == <<socket_fd, reqPacket, txn_done, txn_rc, resPacket>>
clients  == <<sock, sent, inbox>>
history  == <<committed, replied>>
vars     == <<pc, flags, queues, serving, pool, handling, clients, history>>

Goto(th, l) == pc' = [pc EXCEPT ![th] = l]

NoEntry == [worker |-> NoClient, request |-> << >>]

Init ==
  /\ pc = [th \in Threads |-> IF th = Main THEN "spawnServers" ELSE "unborn"]
  /\ time_to_die = FALSE
  /\ warming_up = TRUE
  /\ elapsed = 0
  /\ userTxnQueue = << >>
  /\ sysTxnQueue = << >>
  /\ num_txn_to_dequeue = [s \in Servers |-> 0]
  /\ current = [s \in Servers |-> NoEntry]
  /\ result = [s \in Servers |-> "FAIL"]
  /\ jobs = << >>
  /\ threads_keepalive = TRUE
  /\ socket_fd = [w \in Workers |-> NoClient]
  /\ reqPacket = [w \in Workers |-> << >>]
  /\ txn_done = [w \in Workers |-> FALSE]
  /\ txn_rc = [w \in Workers |-> "FAIL"]
  /\ resPacket = [w \in Workers |-> "FAIL"]
  /\ sock = [c \in Clients |-> "out"]
  /\ sent = [c \in Clients |-> 0]
  /\ inbox = [c \in Clients |-> FALSE]
  /\ committed = {}
  /\ replied = [r \in Requests |-> "none"]

(***************************************************************************)
(* A call of a ready queue, as ReadyQueue allows it: it goes through when  *)
(* the queue lets it, sleeps otherwise, and a sleeper that wakes up after  *)
(* time_to_die is turned away whatever the queue holds.                    *)
(***************************************************************************)
Passes(th, call, wait) == pc[th] = call \/ (pc[th] = wait /\ ~time_to_die)
TurnedAway(th, wait)   == pc[th] = wait /\ time_to_die

-----------------------------------------------------------------------------
(* processThread *)

\* while (!time_to_die)
ServerTop(s) ==
  /\ pc[s] = "top"
  /\ Goto(s, IF time_to_die THEN "exited" ELSE "snapshot")
  /\ UNCHANGED <<flags, queues, serving, pool, handling, clients, history>>

\* Faulty variant: one transaction more than the queue holds (`>= 0').
ServerSnapshot_OneMore(s) ==
  /\ pc[s] = "snapshot"
  /\ num_txn_to_dequeue' = [num_txn_to_dequeue EXCEPT ![s] = Len(sysTxnQueue) + 1]
  /\ Goto(s, "sys")
  /\ UNCHANGED <<flags, queues, current, result, pool, handling, clients, history>>

\* The size of the system queue is read once, without the queue's mutex.
ServerSnapshot(s) ==
  /\ pc[s] = "snapshot"
  /\ num_txn_to_dequeue' = [num_txn_to_dequeue EXCEPT ![s] = Len(sysTxnQueue)]
  /\ Goto(s, "sys")
  /\ UNCHANGED <<flags, queues, current, result, pool, handling, clients, history>>

\* Faulty variant: the size is read again in every iteration.
ServerDequeueSys_Reread(s) ==
  /\ num_txn_to_dequeue[s] > 0
  /\ Passes(s, "sys", "sysWait")
  /\ sysTxnQueue # << >>
  /\ sysTxnQueue' = Tail(sysTxnQueue)
  /\ num_txn_to_dequeue' = [num_txn_to_dequeue EXCEPT ![s] = Len(sysTxnQueue')]
  /\ Goto(s, "sys")
  /\ UNCHANGED <<flags, userTxnQueue, current, result, pool, handling, clients, history>>

\* chronos_dequeue_system_transaction and processRefreshTransaction.
ServerDequeueSys(s) ==
  /\ num_txn_to_dequeue[s] > 0
  /\ Passes(s, "sys", "sysWait")
  /\ sysTxnQueue # << >>
  /\ sysTxnQueue' = Tail(sysTxnQueue)
  /\ num_txn_to_dequeue' = [num_txn_to_dequeue EXCEPT ![s] = @ - 1]
  /\ Goto(s, "sys")
  /\ UNCHANGED <<flags, userTxnQueue, current, result, pool, handling, clients, history>>

\* The counted refreshes are done.
ServerSysDone(s) ==
  /\ pc[s] = "sys"
  /\ num_txn_to_dequeue[s] = 0
  /\ Goto(s, "userCheck")
  /\ UNCHANGED <<flags, queues, serving, pool, handling, clients, history>>

\* chronos_queue_size(userTxnQueue) > 0, read without the queue's mutex.
ServerUserCheck(s) ==
  /\ pc[s] = "userCheck"
  /\ Goto(s, IF userTxnQueue = << >> THEN "clock" ELSE "user")
  /\ UNCHANGED <<flags, queues, serving, pool, handling, clients, history>>

\* chronos_dequeue_user_transaction.
ServerDequeueUser(s) ==
  /\ Passes(s, "user", "userWait")
  /\ userTxnQueue # << >>
  /\ current' = [current EXCEPT ![s] = Head(userTxnQueue)]
  /\ userTxnQueue' = Tail(userTxnQueue)
  /\ Goto(s, "exec")
  /\ UNCHANGED <<flags, sysTxnQueue, num_txn_to_dequeue, result, pool, handling,
                 clients, history>>

\* A dequeue call finds its queue empty and sleeps.
ServerBlock(s) ==
  /\ \/ pc[s] = "sys" /\ num_txn_to_dequeue[s] > 0 /\ sysTxnQueue = << >> /\ Goto(s, "sysWait")
     \/ pc[s] = "user" /\ userTxnQueue = << >> /\ Goto(s, "userWait")
  /\ UNCHANGED <<flags, queues, serving, pool, handling, clients, history>>

\* A dequeue call that slept returns FAIL: goto cleanup.
ServerFail(s) ==
  /\ TurnedAway(s, "sysWait") \/ TurnedAway(s, "userWait")
  /\ Goto(s, "exited")
  /\ UNCHANGED <<flags, queues, serving, pool, handling, clients, history>>

\* processUserTransaction up to the return of benchmark_*: the transaction has
\* committed or not, *txn_rc is not written yet.
ServerExecute(s, rc) ==
  /\ pc[s] = "exec"
  /\ result' = [result EXCEPT ![s] = rc]
  /\ committed' = committed \cup (IF rc = "SUCCESS" THEN {current[s].request} ELSE {})
  /\ Goto(s, "setRc")
  /\ UNCHANGED <<flags, queues, num_txn_to_dequeue, current, pool, handling, clients, replied>>

\* Faulty variant: the rc of benchmark_data_packet_free is reported.
ServerSetRc_PacketRc(s) ==
  /\ pc[s] = "setRc"
  /\ txn_rc' = [txn_rc EXCEPT ![current[s].worker] = "SUCCESS"]
  /\ Goto(s, "setDone")
  /\ UNCHANGED <<flags, queues, serving, pool, socket_fd, reqPacket, txn_done, resPacket,
                 clients, history>>

\* *txn_rc = rc, into the stack of the handler.
ServerSetRc(s) ==
  /\ pc[s] = "setRc"
  /\ txn_rc' = [txn_rc EXCEPT ![current[s].worker] = result[s]]
  /\ Goto(s, "setDone")
  /\ UNCHANGED <<flags, queues, serving, pool, socket_fd, reqPacket, txn_done, resPacket,
                 clients, history>>

\* *txn_rc = rc, but the packet of the purchase or sale cannot be freed: failXit.
ServerPacketFreeFails(s) ==
  /\ PacketFreeMayFail
  /\ pc[s] = "setRc"
  /\ txn_rc' = [txn_rc EXCEPT ![current[s].worker] = result[s]]
  /\ Goto(s, "failXit")
  /\ UNCHANGED <<flags, queues, serving, pool, socket_fd, reqPacket, txn_done, resPacket,
                 clients, history>>

\* failXit frees the packet again and jumps to itself until that succeeds.
ServerRetryFree(s) ==
  /\ pc[s] = "failXit"
  /\ Goto(s, "setDone")
  /\ UNCHANGED <<flags, queues, serving, pool, handling, clients, history>>

\* *txn_doneP = 1.
ServerSetDone(s) ==
  /\ pc[s] = "setDone"
  /\ txn_done' = [txn_done EXCEPT ![current[s].worker] = TRUE]
  /\ Goto(s, "clock")
  /\ UNCHANGED <<flags, queues, serving, pool, socket_fd, reqPacket, txn_rc, resPacket,
                 clients, history>>

\* The end of a round: leave the warm-up, or end the experiment.  The sampling
\* that may follow changes statistics and the length of the admission sleep only.
ServerClock(s) ==
  /\ pc[s] = "clock"
  /\ warming_up' = (warming_up /\ elapsed = 0)
  /\ time_to_die' = (time_to_die \/ elapsed = 2)
  /\ Goto(s, IF elapsed = 2 THEN "exited" ELSE "top")
  /\ UNCHANGED <<elapsed, queues, serving, pool, handling, clients, history>>

-----------------------------------------------------------------------------
(* updateThread *)

\* Caches, client cache, warm-up sleep.
UpdaterSetup(u) ==
  /\ pc[u] = "setup"
  /\ \/ Goto(u, "create")
     \/ LibraryMayFail /\ Goto(u, "exited")
  /\ UNCHANGED <<flags, queues, serving, pool, handling, clients, history>>

\* chronosRequestUpdateFromListCreate over the items that are due.
UpdaterCreate(u) ==
  /\ pc[u] = "create"
  /\ \/ Goto(u, "enqueue")
     \/ LibraryMayFail /\ Goto(u, "exited")
  /\ UNCHANGED <<flags, queues, serving, pool, handling, clients, history>>

\* nothingToDo: under AUP no item of this thread has expired.
UpdaterNothingToDo(u) ==
  /\ pc[u] = "create"
  /\ Goto(u, "sleep")
  /\ UNCHANGED <<flags, queues, serving, pool, handling, clients, history>>

\* chronos_enqueue_system_transaction.
UpdaterEnqueue(u) ==
  /\ Passes(u, "enqueue", "enqWait")
  /\ Len(sysTxnQueue) < QueueSize
  /\ sysTxnQueue' = Append(sysTxnQueue, u)
  /\ Goto(u, "release")
  /\ UNCHANGED <<flags, userTxnQueue, serving, pool, handling, clients, history>>

\* The queue is full: sleep.
UpdaterBlock(u) ==
  /\ pc[u] = "enqueue"
  /\ Len(sysTxnQueue) >= QueueSize
  /\ Goto(u, "enqWait")
  /\ UNCHANGED <<flags, queues, serving, pool, handling, clients, history>>

\* The enqueue slept and returns FAIL: goto cleanup.
UpdaterFail(u) ==
  /\ TurnedAway(u, "enqWait")
  /\ Goto(u, "exited")
  /\ UNCHANGED <<flags, queues, serving, pool, handling, clients, history>>

\* chronosRequestFree.
UpdaterRelease(u) ==
  /\ pc[u] = "release"
  /\ \/ Goto(u, "sleep")
     \/ LibraryMayFail /\ Goto(u, "exited")
  /\ UNCHANGED <<flags, queues, serving, pool, handling, clients, history>>

\* The period is over: stop when asked to die.
UpdaterWake(u) ==
  /\ pc[u] = "sleep"
  /\ Goto(u, IF time_to_die THEN "exited" ELSE "create")
  /\ UNCHANGED <<flags, queues, serving, pool, handling, clients, history>>

-----------------------------------------------------------------------------
(* The pool's threads, daHandler and dispatchTableFn *)

\* The exit of daHandler: close the socket, free the info, back to the pool.
Cleanup(w) ==
  /\ sock' = [sock EXCEPT ![socket_fd[w]] = "closed"]
  /\ socket_fd' = [socket_fd EXCEPT ![w] = NoClient]
  /\ Goto(w, "idle")

\* A pool thread takes the oldest connection (ThreadPool has the details).
WorkerPull(w) ==
  /\ pc[w] = "idle"
  /\ threads_keepalive
  /\ jobs # << >>
  /\ socket_fd' = [socket_fd EXCEPT ![w] = Head(jobs)]
  /\ jobs' = Tail(jobs)
  /\ Goto(w, "top")
  /\ UNCHANGED <<flags, queues, serving, threads_keepalive, reqPacket, txn_done, txn_rc,
                 resPacket, clients, history>>

\* The pool is being destroyed.
WorkerExit(w) ==
  /\ pc[w] = "idle"
  /\ ~threads_keepalive
  /\ Goto(w, "exited")
  /\ UNCHANGED <<flags, queues, serving, pool, handling, clients, history>>

\* while (!time_to_die)
HandlerTop(w) ==
  /\ pc[w] = "top"
  /\ IF time_to_die THEN Cleanup(w) ELSE Goto(w, "read") /\ UNCHANGED <<sock, socket_fd>>
  /\ UNCHANGED <<flags, queues, serving, pool, reqPacket, txn_done, txn_rc, resPacket,
                 sent, inbox, history>>

\* All the bytes of a request have arrived.  With no bytes the handler stays in
\* read(): it blocks, or at the end of file gets 0 bytes for ever.
HandlerRead(w) ==
  /\ pc[w] = "read"
  /\ inbox[socket_fd[w]]
  /\ inbox' = [inbox EXCEPT ![socket_fd[w]] = FALSE]
  /\ reqPacket' = [reqPacket EXCEPT ![w] = <<socket_fd[w], sent[socket_fd[w]]>>]
  /\ Goto(w, "admit")
  /\ UNCHANGED <<flags, queues, serving, pool, socket_fd, txn_done, txn_rc, resPacket,
                 sock, sent, history>>

\* read() returns -1.
HandlerReadError(w) ==
  /\ pc[w] = "read"
  /\ sock[socket_fd[w]] = "reset"
  /\ Cleanup(w)
  /\ UNCHANGED <<flags, queues, serving, pool, reqPacket, txn_done, txn_rc, resPacket,
                 sent, inbox, history>>

\* After the admission delay: give up when asked to die, else enter
\* dispatchTableFn with fresh txn_done and txn_rc.
HandlerAdmit(w) ==
  /\ pc[w] = "admit"
  /\ IF time_to_die
     THEN Cleanup(w) /\ UNCHANGED <<txn_done, txn_rc>>
     ELSE /\ txn_done' = [txn_done EXCEPT ![w] = FALSE]
          /\ txn_rc' = [txn_rc EXCEPT ![w] = "FAIL"]
          /\ Goto(w, "enqueue")
          /\ UNCHANGED <<sock, socket_fd>>
  /\ UNCHANGED <<flags, queues, serving, pool, reqPacket, resPacket, sent, inbox, history>>

\* Faulty variant: the bound of the queue is not tested.
HandlerEnqueue_NoBound(w) ==
  /\ Passes(w, "enqueue", "enqWait")
  /\ userTxnQueue' = Append(userTxnQueue, [worker |-> w, request |-> reqPacket[w]])
  /\ Goto(w, "poll")
  /\ UNCHANGED <<flags, sysTxnQueue, serving, pool, handling, clients, history>>

\* chronos_enqueue_user_transaction.
HandlerEnqueue(w) ==
  /\ Passes(w, "enqueue", "enqWait")
  /\ Len(userTxnQueue) < QueueSize
  /\ userTxnQueue' = Append(userTxnQueue, [worker |-> w, request |-> reqPacket[w]])
  /\ Goto(w, "poll")
  /\ UNCHANGED <<flags, sysTxnQueue, serving, pool, handling, clients, history>>

\* The queue is full: sleep.
HandlerBlock(w) ==
  /\ pc[w] = "enqueue"
  /\ Len(userTxnQueue) >= QueueSize
  /\ Goto(w, "enqWait")
  /\ UNCHANGED <<flags, queues, serving, pool, handling, clients, history>>

\* The enqueue slept and returns FAIL: goto cleanup.
HandlerFail(w) ==
  /\ TurnedAway(w, "enqWait")
  /\ Cleanup(w)
  /\ UNCHANGED <<flags, queues, serving, pool, reqPacket, txn_done, txn_rc, resPacket,
                 sent, inbox, history>>

\* Faulty variant: the handler stops waiting after a while.
HandlerPoll_GiveUp(w) ==
  /\ pc[w] = "poll"
  /\ Goto(w, "readRc")
  /\ UNCHANGED <<flags, queues, serving, pool, handling, clients, history>>

\* Faulty variant: the handler waits for its transaction only.
HandlerPoll_UntilDone(w) ==
  /\ pc[w] = "poll"
  /\ txn_done[w]
  /\ Goto(w, "readRc")
  /\ UNCHANGED <<flags, queues, serving, pool, handling, clients, history>>

\* while (!txn_done && !time_to_die)
HandlerPoll(w) ==
  /\ pc[w] = "poll"
  /\ txn_done[w] \/ time_to_die
  /\ Goto(w, "readRc")
  /\ UNCHANGED <<flags, queues, serving, pool, handling, clients, history>>

\* *txn_rc_ret = txn_rc
HandlerReadRc(w) ==
  /\ pc[w] = "readRc"
  /\ resPacket' = [resPacket EXCEPT ![w] = txn_rc[w]]
  /\ Goto(w, "reply")
  /\ UNCHANGED <<flags, queues, serving, pool, socket_fd, reqPacket, txn_done, txn_rc,
                 clients, history>>

\* write() the answer, then look at time_to_die; an error closes.
HandlerReply(w) ==
  /\ pc[w] = "reply"
  /\ IF sock[socket_fd[w]] = "reset"
     THEN Cleanup(w) /\ UNCHANGED replied
     ELSE /\ replied' = [replied EXCEPT ![reqPacket[w]] = resPacket[w]]
          /\ IF time_to_die THEN Cleanup(w) ELSE Goto(w, "top") /\ UNCHANGED <<sock, socket_fd>>
  /\ UNCHANGED <<flags, queues, serving, pool, reqPacket, txn_done, txn_rc, resPacket,
                 sent, inbox, committed>>

-----------------------------------------------------------------------------
(* daListener *)

\* thpool_init, which starts the pool's threads, then socket, bind and listen.
\* A failure before the pool exists ends the listener, a later one destroys it.
ListenerInit ==
  /\ pc[Listener] = "start"
  /\ \/ LibraryMayFail /\ Goto(Listener, "exited") /\ UNCHANGED threads_keepalive
     \/ \E l \in {"listen"} \cup (IF LibraryMayFail THEN {"destroy"} ELSE {}) :
          /\ pc' = [th \in Threads |-> IF th \in Workers THEN "idle"
                                       ELSE IF th = Listener THEN l ELSE pc[th]]
          /\ threads_keepalive' = (l = "listen")
  /\ UNCHANGED <<flags, queues, serving, jobs, handling, clients, history>>

\* accept() and thpool_add_work.
ListenerAccept(c) ==
  /\ pc[Listener] = "listen"
  /\ sock[c] = "backlog"
  /\ sock' = [sock EXCEPT ![c] = "open"]
  /\ jobs' = Append(jobs, c)
  /\ UNCHANGED <<pc, flags, queues, serving, threads_keepalive, handling, sent, inbox, history>>

\* The loop ends, or a call of it fails: thpool_destroy stops the pool...
ListenerLeave ==
  /\ pc[Listener] = "listen"
  /\ time_to_die \/ LibraryMayFail
  /\ threads_keepalive' = FALSE
  /\ Goto(Listener, "destroy")
  /\ UNCHANGED <<flags, queues, serving, jobs, handling, clients, history>>

\* Faulty variant: the pool is freed without waiting for its threads.
ListenerDestroy_NoWait ==
  /\ pc[Listener] = "destroy"
  /\ jobs' = << >>
  /\ Goto(Listener, "exited")
  /\ UNCHANGED <<flags, queues, serving, threads_keepalive, handling, clients, history>>

\* ... and returns when num_threads_alive is 0; queued jobs are dropped.
ListenerDestroy ==
  /\ pc[Listener] = "destroy"
  /\ \A w \in Workers : pc[w] = "exited"
  /\ jobs' = << >>
  /\ Goto(Listener, "exited")
  /\ UNCHANGED <<flags, queues, serving, threads_keepalive, handling, clients, history>>

-----------------------------------------------------------------------------
(* main *)

\* Start the threads of a group at label l, or fail after some of them and go
\* straight to the release of everything.  No thread can see how many others
\* exist, so a group is started in one step.
Spawn(at, group, l, next) ==
  /\ pc[Main] = at
  /\ \/ pc' = [th \in Threads |-> IF th \in group THEN l ELSE IF th = Main THEN next ELSE pc[th]]
     \/ /\ SpawnMayFail
        /\ \E started \in SUBSET group :
             /\ started # group
             /\ pc' = [th \in Threads |-> IF th \in started THEN l
                                          ELSE IF th = Main THEN "freed" ELSE pc[th]]
  /\ UNCHANGED <<flags, queues, serving, pool, handling, clients, history>>

MainSpawn ==
  \/ Spawn("spawnServers", Servers, "top", "spawnUpdaters")
  \/ Spawn("spawnUpdaters", Updaters, "setup", "spawnListener")
  \/ Spawn("spawnListener", {Listener}, "start", "joinListener")

\* pthread_join of the listener, of every updater, of every server.
Join(at, group, next) ==
  /\ pc[Main] = at
  /\ \A th \in group : pc[th] = "exited"
  /\ Goto(Main, next)
  /\ UNCHANGED <<flags, queues, serving, pool, handling, clients, history>>

\* The last join is followed by the release of queues and context.
MainJoin ==
  \/ Join("joinListener", {Listener}, "joinUpdaters")
  \/ Join("joinUpdaters", Updaters, "joinServers")
  \/ Join("joinServers", Servers, "freed")

\* main returns: the process ends, and every thread there is with it.
MainReturn ==
  /\ pc[Main] = "freed"
  /\ pc' = [th \in Threads |-> IF th = Main THEN "returned" ELSE "exited"]
  /\ UNCHANGED <<flags, queues, serving, pool, handling, clients, history>>

-----------------------------------------------------------------------------
(* The environment: the clock and the clients *)

Tick ==
  /\ elapsed < 2
  /\ elapsed' = elapsed + 1
  /\ UNCHANGED <<pc, time_to_die, warming_up, queues, serving, pool, handling, clients, history>>

\* A connection completes in the kernel once the socket listens (the listener
\* never closes its socket, but nobody accepts any more when it has left).
ClientConnect(c) ==
  /\ sock[c] = "out"
  /\ pc[Listener] = "listen"
  /\ sock' = [sock EXCEPT ![c] = "backlog"]
  /\ UNCHANGED <<pc, flags, queues, serving, pool, handling, sent, inbox, history>>

\* A client sends its next request after the answer to the one before.
ClientSend(c) ==
  /\ sock[c] \in {"backlog", "open"}
  /\ sent[c] < MaxRequests
  /\ sent[c] > 0 => replied[<<c, sent[c]>>] # "none"
  /\ sent' = [sent EXCEPT ![c] = @ + 1]
  /\ inbox' = [inbox EXCEPT ![c] = TRUE]
  /\ UNCHANGED <<pc, flags, queues, serving, pool, handling, sock, history>>

\* A client closes its end, or its connection breaks and loses unread bytes.
ClientHangUp(c) ==
  /\ HangUps
  /\ sock[c] \in {"backlog", "open"}
  /\ \/ sock' = [sock EXCEPT ![c] = "eof"] /\ inbox' = inbox
     \/ sock' = [sock EXCEPT ![c] = "reset"] /\ inbox' = [inbox EXCEPT ![c] = FALSE]
  /\ UNCHANGED <<pc, flags, queues, serving, pool, handling, sent, history>>

-----------------------------------------------------------------------------
ServerStep(s) ==
  \/ ServerTop(s) \/ ServerSnapshot(s) \/ ServerDequeueSys(s) \/ ServerSysDone(s)
  \/ ServerUserCheck(s) \/ ServerDequeueUser(s) \/ ServerBlock(s) \/ ServerFail(s)
  \/ (\E rc \in Codes : ServerExecute(s, rc))
  \/ ServerSetRc(s) \/ ServerPacketFreeFails(s) \/ ServerSetDone(s) \/ ServerClock(s)

UpdaterStep(u) ==
  \/ UpdaterSetup(u) \/ UpdaterCreate(u) \/ UpdaterNothingToDo(u) \/ UpdaterEnqueue(u) \/ UpdaterBlock(u)
  \/ UpdaterFail(u) \/ UpdaterRelease(u) \/ UpdaterWake(u)

WorkerStep(w) ==
  \/ WorkerPull(w) \/ WorkerExit(w) \/ HandlerTop(w) \/ HandlerRead(w) \/ HandlerReadError(w)
  \/ HandlerAdmit(w) \/ HandlerEnqueue(w) \/ HandlerBlock(w) \/ HandlerFail(w)
  \/ HandlerPoll(w) \/ HandlerReadRc(w) \/ HandlerReply(w)

ListenerStep == ListenerInit \/ (\E c \in Clients : ListenerAccept(c)) \/ ListenerLeave
                \/ ListenerDestroy

MainStep == MainSpawn \/ MainJoin \/ MainReturn

ClientStep(c) == ClientConnect(c) \/ ClientSend(c) \/ ClientHangUp(c)

Next ==
  \/ \E s \in Servers : ServerStep(s) \/ ServerRetryFree(s)
  \/ \E u \in Updaters : UpdaterStep(u)
  \/ \E w \in Workers : WorkerStep(w)
  \/ ListenerStep
  \/ MainStep
  \/ Tick
  \/ \E c \in Clients : ClientStep(c)

Spec == Init /\ [][Next]_vars

(***************************************************************************)
(* Every thread of the server keeps running: its timed waits and sleeps    *)
(* end, and items expire again and again, so an updater cannot find        *)
(* nothing to do for ever.  Nothing obliges benchmark_data_packet_free to  *)
(* succeed in the end (ServerRetryFree), a client to connect, send or      *)
(* close, and the experiment may be as long as one likes (no fairness of   *)
(* Tick).                                                                  *)
(***************************************************************************)
Fairness ==
  /\ \A s \in Servers : WF_vars(ServerStep(s))
  /\ \A u \in Updaters : WF_vars(UpdaterStep(u)) /\ SF_vars(UpdaterCreate(u))
  /\ \A w \in Workers : WF_vars(WorkerStep(w))
  /\ WF_vars(ListenerInit \/ ListenerDestroy)
  /\ WF_vars(\E c \in Clients : ListenerAccept(c))
  /\ WF_vars(time_to_die /\ ListenerLeave)
  /\ WF_vars(MainStep)

FairSpec == Spec /\ Fairness

-----------------------------------------------------------------------------
Labels ==
  {"unborn", "exited",
   "top", "snapshot", "sys", "sysWait", "userCheck", "user", "userWait", "exec", "setRc",
   "failXit", "setDone", "clock",
   "setup", "create", "enqueue", "enqWait", "release", "sleep",
   "idle", "read", "admit", "poll", "readRc", "reply",
   "start", "listen", "destroy",
   "spawnServers", "spawnUpdaters", "spawnListener", "joinListener", "joinUpdaters",
   "joinServers", "freed", "returned"}

Entries == [worker : Workers, request : Requests]

\* Type correctness; both queues keep within CHRONOS_READY_QUEUE_SIZE.
TypeOK ==
  /\ pc \in [Threads -> Labels]
  /\ time_to_die \in BOOLEAN
  /\ warming_up \in BOOLEAN
  /\ elapsed \in 0 .. 2
  /\ userTxnQueue \in Seq(Entries) /\ Len(userTxnQueue) <= QueueSize
  /\ sysTxnQueue \in Seq(Updaters) /\ Len(sysTxnQueue) <= QueueSize
  /\ num_txn_to_dequeue \in [Servers -> 0 .. QueueSize]
  /\ current \in [Servers -> Entries \cup {NoEntry}]
  /\ result \in [Servers -> Codes]
  /\ jobs \in Seq(Clients)
  /\ threads_keepalive \in BOOLEAN
  /\ socket_fd \in [Workers -> Clients \cup {NoClient}]
  /\ reqPacket \in [Workers -> Requests \cup {<< >>}]
  /\ txn_done \in [Workers -> BOOLEAN]
  /\ txn_rc \in [Workers -> Codes]
  /\ resPacket \in [Workers -> Codes]
  /\ sock \in [Clients -> {"out", "backlog", "open", "eof", "reset", "closed"}]
  /\ sent \in [Clients -> 0 .. MaxRequests]
  /\ inbox \in [Clients -> BOOLEAN]
  /\ committed \subseteq Requests
  /\ replied \in [Requests -> Codes \cup {"none"}]

(***************************************************************************)
(* "Wait until the transaction is processed by the processThread": while a *)
(* processing thread holds the pointers of a user transaction, the handler *)
(* that owns txn_done and txn_rc is still in dispatchTableFn with that     *)
(* very request, so every write through the pointers hits live variables.  *)
(***************************************************************************)
NoDanglingWrite ==
  \A s \in Servers : pc[s] \in {"exec", "setRc", "failXit", "setDone"} =>
    /\ pc[current[s].worker] \in {"poll", "readRc"}
    /\ reqPacket[current[s].worker] = current[s].request

(***************************************************************************)
(* A client is told the truth, also around the end of the experiment: a    *)
(* request answered SUCCESS has committed, and one answered FAIL has not   *)
(* committed and never will.                                               *)
(***************************************************************************)
TruthfulReplies ==
  \A r \in Requests : /\ replied[r] = "SUCCESS" => r \in committed
                      /\ replied[r] = "FAIL" => r \notin committed

(***************************************************************************)
(* A processing thread never sleeps in a dequeue: the sizes it read before *)
(* without the queues' mutexes are still there when it dequeues.  It must  *)
(* not sleep, because it alone watches the clock.                          *)
(***************************************************************************)
ServerNeverBlocks == \A s \in Servers : pc[s] \notin {"sysWait", "userWait"}

(***************************************************************************)
(* The queues, the context and the thread infos are freed only when no     *)
(* thread is left that runs CHRONOS_SERVER_CTX_CHECK on them.              *)
(***************************************************************************)
NoUseAfterFree ==
  pc[Main] = "freed" => \A th \in Threads \ {Main} : pc[th] \in {"unborn", "exited"}

(***************************************************************************)
(* No starvation: although refreshes have priority and keep coming, an     *)
(* accepted user transaction is done eventually, unless the experiment     *)
(* ends first.                                                             *)
(***************************************************************************)
UserTxnServed ==
  \A w \in Workers : pc[w] = "poll" ~> txn_done[w] \/ time_to_die \/ pc[Main] = "returned"

(***************************************************************************)
(* When the duration is over some processing thread notices and asks       *)
(* everyone to die ("... requested to finish by the timer"), unless main   *)
(* has failed and returned.                                                *)
(***************************************************************************)
ExpiryNoticed == elapsed = 2 ~> time_to_die \/ pc[Main] = "returned"

(***************************************************************************)
(* Once asked to die every thread stops for good, except handlers that     *)
(* wait for bytes of their client: no sleeper of a queue is forgotten.     *)
(***************************************************************************)
OnlyReadersLinger ==
  time_to_die ~> [](\/ pc[Main] = "returned"
                    \/ /\ \A th \in Servers \cup Updaters : pc[th] = "exited"
                       /\ \A w \in Workers : pc[w] \in {"unborn", "read", "exited"})
=============================================================================
