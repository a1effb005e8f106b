------------------------- MODULE ChronosServerProofs -------------------------
(***************************************************************************)
(* Proofs about ChronosServer for any number of update threads, pool       *)
(* threads, clients and requests and any size of the ready queues.  What   *)
(* depends on a single thread draining the queues (numServerThreads is 1   *)
(* by default) is proved for Servers = {s}; MCBlockedServers shows that    *)
(* two processing threads are one too many.                                *)
(***************************************************************************)
EXTENDS ChronosServer, TLAPS

Busy     == {"exec", "setRc", "failXit", "setDone"}
Active   == {"admit", "enqueue", "enqWait", "poll", "readRc", "reply"}
Waiting  == {"enqueue", "enqWait", "poll", "readRc"}

-----------------------------------------------------------------------------
(* The type invariant and what it needs to be inductive *)

\* A handler has a connection, and a request once it has read one.
HandlerTypes ==
  \A w \in Workers :
    /\ pc[w] \in {"top", "read"} \cup Active => socket_fd[w] \in Clients
    /\ pc[w] \in Active => reqPacket[w] \in Requests

\* A processing thread that runs a user transaction has dequeued one.
ServerTypes == \A s \in Servers : pc[s] \in Busy => current[s] \in Entries

\* A waiting request was sent.
InboxTypes == \A c \in Clients : inbox[c] => sent[c] >= 1

TypeInv == TypeOK /\ HandlerTypes /\ ServerTypes /\ InboxTypes

-----------------------------------------------------------------------------
(* Birth and death of the threads *)

\* Main starts the listener last, and the listener starts the pool and
\* outlives it.
BirthOrder ==
  /\ pc[Main] = "spawnServers" => \A s \in Servers : pc[s] = "unborn"
  /\ pc[Main] \in {"spawnServers", "spawnUpdaters"} => \A u \in Updaters : pc[u] = "unborn"
  /\ pc[Main] \in {"spawnServers", "spawnUpdaters", "spawnListener"} => pc[Listener] = "unborn"
  /\ pc[Listener] \in {"unborn", "start"} => \A w \in Workers : pc[w] = "unborn"
  /\ pc[Listener] = "exited" => \A w \in Workers : pc[w] \in {"unborn", "exited"}

\* Main has joined, group by group, every thread it started.
Joined ==
  /\ pc[Main] \in {"joinUpdaters", "joinServers", "freed"} => pc[Listener] = "exited"
  /\ pc[Main] \in {"joinServers", "freed"} => \A u \in Updaters : pc[u] = "exited"
  /\ pc[Main] = "freed" => \A s \in Servers : pc[s] = "exited"

-----------------------------------------------------------------------------
(* One processing thread *)

\* What s read about the queues without their mutexes is still there.
ReadsHold(s) ==
  /\ pc[s] = "sys" => num_txn_to_dequeue[s] <= Len(sysTxnQueue)
  /\ pc[s] = "user" => userTxnQueue # << >>
  /\ pc[s] \notin {"sysWait", "userWait"}

\* The handler of entry e polls for it and nobody has written through e yet
\* (txn_rc may have been written).
Owned(e) ==
  /\ pc[e.worker] = "poll"
  /\ ~txn_done[e.worker]
  /\ reqPacket[e.worker] = e.request

\* Only s asks everyone to die, and it exits with that.
DeathLast(s) == pc[s] # "exited" => ~time_to_die

\* txn_done and txn_rc are fresh until the request is in the queue.
FreshVars ==
  \A w \in Workers : pc[w] \in {"enqueue", "enqWait"} => ~txn_done[w] /\ txn_rc[w] = "FAIL"

\* Every entry of the queue belongs to a handler of its own that polls.
QueueOwned(s) ==
  pc[s] # "exited" =>
    /\ \A i \in 1 .. Len(userTxnQueue) :
         Owned(userTxnQueue[i]) /\ txn_rc[userTxnQueue[i].worker] = "FAIL"
    /\ \A i, j \in 1 .. Len(userTxnQueue) :
         userTxnQueue[i].worker = userTxnQueue[j].worker => i = j

\* So does the entry s works on.
CurrentOwned(s) ==
  pc[s] \in Busy =>
    /\ Owned(current[s])
    /\ \A i \in 1 .. Len(userTxnQueue) : userTxnQueue[i].worker # current[s].worker
    /\ pc[s] = "exec" => txn_rc[current[s].worker] = "FAIL"

\* Until s has exited nobody is asked to die, so a handler leaves its poll loop
\* only after txn_done.
Ownership(s) == DeathLast(s) /\ FreshVars /\ QueueOwned(s) /\ CurrentOwned(s)

\* A connection is queued in the pool once or held by one handler.
Connections ==
  /\ \A i \in 1 .. Len(jobs) : sock[jobs[i]] \notin {"out", "backlog"}
  /\ \A i, j \in 1 .. Len(jobs) : jobs[i] = jobs[j] => i = j
  /\ \A w \in Workers : socket_fd[w] \in Clients =>
       /\ sock[socket_fd[w]] \notin {"out", "backlog"}
       /\ \A i \in 1 .. Len(jobs) : jobs[i] # socket_fd[w]
       /\ \A v \in Workers : socket_fd[v] = socket_fd[w] => v = w

\* A handler works on the latest request of its client, unanswered so far.
Latest ==
  \A w \in Workers : pc[w] \in Active =>
    /\ reqPacket[w] = <<socket_fd[w], sent[socket_fd[w]]>>
    /\ ~inbox[socket_fd[w]]
    /\ replied[reqPacket[w]] = "none"

\* A request no handler has read yet is neither answered nor committed.
Unread ==
  /\ \A c \in Clients, n \in 1 .. MaxRequests :
       n > sent[c] \/ (n = sent[c] /\ inbox[c]) =>
         replied[<<c, n>>] = "none" /\ <<c, n>> \notin committed
  /\ \A w \in Workers : pc[w] = "admit" => reqPacket[w] \notin committed

\* What the handler and the processing thread know of the outcome is what
\* happened; between the commit and the write to txn_rc only s knows.
Outcomes(s) ==
  /\ \A w \in Workers :
       pc[w] \in Waiting /\ ~(pc[s] = "setRc" /\ current[s].worker = w) =>
         (txn_rc[w] = "SUCCESS" <=> reqPacket[w] \in committed)
  /\ pc[s] = "setRc" => (result[s] = "SUCCESS" <=> current[s].request \in committed)
  /\ \A w \in Workers :
       pc[w] = "reply" => (resPacket[w] = "SUCCESS" <=> reqPacket[w] \in committed)

-----------------------------------------------------------------------------
(* Facts used throughout *)

LEMMA Apart ==
  /\ Servers \subseteq Threads /\ Updaters \subseteq Threads /\ Workers \subseteq Threads
  /\ Listener \in Threads /\ Main \in Threads /\ Listener # Main
  /\ \A w \in Workers : w \notin Servers /\ w \notin Updaters /\ w # Listener /\ w # Main
  /\ \A u \in Updaters : u \notin Servers /\ u \notin Workers /\ u # Listener /\ u # Main
  /\ \A s \in Servers : s \notin Updaters /\ s \notin Workers /\ s # Listener /\ s # Main
  /\ NoClient \notin Clients
  /\ QueueSize \in Nat \ {0} /\ MaxRequests \in Nat \ {0}
BY ServerAssumption DEF Threads

\* Goto moves one thread.
LEMMA GotoMoves ==
  ASSUME pc \in [Threads -> Labels], NEW th \in Threads, NEW l \in Labels, Goto(th, l)
  PROVE  /\ pc' \in [Threads -> Labels]
         /\ pc'[th] = l
         /\ \A o \in Threads : o # th => pc'[o] = pc[o]
BY DEF Goto

\* Starting or ending several threads at once.
LEMMA GroupMoves ==
  ASSUME NEW f \in [Threads -> Labels], pc' = f
  PROVE  pc' \in [Threads -> Labels] /\ \A th \in Threads : pc'[th] = f[th]
OBVIOUS

LEMMA TypeInit == Init => TypeInv
<1> SUFFICES ASSUME Init PROVE TypeInv
  OBVIOUS
<1> USE Apart
<1>1. pc \in [Threads -> Labels] /\ \A th \in Threads \ {Main} : pc[th] = "unborn"
  BY DEF Init, Labels
<1>2. /\ time_to_die \in BOOLEAN /\ warming_up \in BOOLEAN /\ threads_keepalive \in BOOLEAN
      /\ txn_done \in [Workers -> BOOLEAN] /\ inbox \in [Clients -> BOOLEAN]
      /\ \A c \in Clients : ~inbox[c]
  BY Zenon DEF Init
<1>3. /\ userTxnQueue \in Seq(Entries) /\ Len(userTxnQueue) <= QueueSize
      /\ sysTxnQueue \in Seq(Updaters) /\ Len(sysTxnQueue) <= QueueSize
      /\ jobs \in Seq(Clients)
  BY DEF Init
<1>4. /\ elapsed \in 0 .. 2
      /\ num_txn_to_dequeue \in [Servers -> 0 .. QueueSize]
      /\ current \in [Servers -> Entries \cup {NoEntry}]
      /\ result \in [Servers -> Codes]
      /\ sent \in [Clients -> 0 .. MaxRequests]
  BY DEF Init, Codes
<1>5. /\ socket_fd \in [Workers -> Clients \cup {NoClient}]
      /\ reqPacket \in [Workers -> Requests \cup {<< >>}]
      /\ txn_rc \in [Workers -> Codes]
      /\ resPacket \in [Workers -> Codes]
      /\ sock \in [Clients -> {"out", "backlog", "open", "eof", "reset", "closed"}]
      /\ committed \subseteq Requests
      /\ replied \in [Requests -> Codes \cup {"none"}]
  BY DEF Init, Codes
<1>6. TypeOK
  BY <1>1, <1>2, <1>3, <1>4, <1>5 DEF TypeOK
<1>7. HandlerTypes /\ ServerTypes
  BY <1>1 DEF HandlerTypes, ServerTypes, Active, Busy
<1>8. InboxTypes
  BY <1>2 DEF InboxTypes
<1> QED
  BY <1>6, <1>7, <1>8 DEF TypeInv

\* Every variable but pc keeps its type when it is unchanged.
LEMMA TypeMove ==
  ASSUME TypeInv, NEW th \in Threads, NEW l \in Labels, Goto(th, l),
         UNCHANGED <<queues, serving, jobs, handling, clients, history>>,
         time_to_die' \in BOOLEAN, warming_up' \in BOOLEAN, elapsed' \in 0 .. 2,
         threads_keepalive' \in BOOLEAN,
         th \in Workers => /\ l \in {"top", "read"} \cup Active => socket_fd[th] \in Clients
                           /\ l \in Active => reqPacket[th] \in Requests,
         th \in Servers => (l \in Busy => current[th] \in Entries)
  PROVE  TypeInv'
<1> USE Apart
<1>1. /\ pc' \in [Threads -> Labels] /\ pc'[th] = l
      /\ \A o \in Threads : o # th => pc'[o] = pc[o]
  BY GotoMoves DEF TypeInv, TypeOK
<1>2. TypeOK'
  BY <1>1 DEF TypeInv, TypeOK, queues, serving, handling, clients, history
<1>3. HandlerTypes'
  BY <1>1 DEF TypeInv, HandlerTypes, handling
<1>4. ServerTypes'
  BY <1>1 DEF TypeInv, ServerTypes, serving
<1>5. InboxTypes'
  BY DEF TypeInv, InboxTypes, clients
<1> QED
  BY <1>2, <1>3, <1>4, <1>5 DEF TypeInv

LEMMA TypeServer ==
  ASSUME TypeInv, NEW s \in Servers, ServerStep(s) \/ ServerRetryFree(s)
  PROVE  TypeInv'
<1> USE Apart
<1> s \in Threads
  OBVIOUS
<1>1. CASE ServerTop(s) \/ ServerSysDone(s) \/ ServerUserCheck(s) \/ ServerFail(s)
            \/ ServerRetryFree(s)
  <2>1. PICK l \in {"exited", "snapshot", "userCheck", "clock", "user", "setDone"} :
          /\ Goto(s, l)
          /\ l = "setDone" => pc[s] = "failXit"
    BY <1>1 DEF ServerTop, ServerSysDone, ServerUserCheck, ServerFail, ServerRetryFree
  <2>2. UNCHANGED <<flags, queues, serving, pool, handling, clients, history>>
    BY <1>1 DEF ServerTop, ServerSysDone, ServerUserCheck, ServerFail, ServerRetryFree
  <2>3. l \in Labels /\ (l \in Busy => current[s] \in Entries)
    BY <2>1 DEF Labels, Busy, TypeInv, ServerTypes
  <2> QED
    BY <2>1, <2>2, <2>3, TypeMove DEF flags, pool, TypeInv, TypeOK
<1>2. CASE ServerBlock(s)
  <2>1. PICK l \in {"sysWait", "userWait"} : Goto(s, l)
    BY <1>2 DEF ServerBlock
  <2>2. UNCHANGED <<flags, queues, serving, pool, handling, clients, history>>
    BY <1>2 DEF ServerBlock
  <2>3. l \in Labels /\ l \notin Busy
    BY <2>1 DEF Labels, Busy
  <2> QED
    BY <2>1, <2>2, <2>3, TypeMove DEF flags, pool, TypeInv, TypeOK
<1>3. CASE ServerClock(s)
  <2>1. PICK l \in {"exited", "top"} : Goto(s, l)
    BY <1>3 DEF ServerClock
  <2>2. UNCHANGED <<elapsed, queues, serving, pool, handling, clients, history>>
    BY <1>3 DEF ServerClock
  <2>3. l \in Labels /\ l \notin Busy
    BY <2>1 DEF Labels, Busy
  <2>4. time_to_die' \in BOOLEAN /\ warming_up' \in BOOLEAN
    BY <1>3 DEF ServerClock
  <2> QED
    BY <2>1, <2>2, <2>3, <2>4, TypeMove DEF pool, TypeInv, TypeOK
<1>4. CASE ServerSnapshot(s) \/ ServerDequeueSys(s)
  <2>1. Goto(s, "sys") /\ "sys" \in Labels /\ "sys" \notin Busy
    BY <1>4 DEF ServerSnapshot, ServerDequeueSys, Labels, Busy
  <2>2. UNCHANGED <<flags, userTxnQueue, current, result, pool, handling, clients, history>>
    BY <1>4 DEF ServerSnapshot, ServerDequeueSys, queues
  <2>3. /\ pc' \in [Threads -> Labels] /\ pc'[s] = "sys"
        /\ \A o \in Threads : o # s => pc'[o] = pc[o]
    BY <2>1, GotoMoves DEF TypeInv, TypeOK
  <2>4. sysTxnQueue' \in Seq(Updaters) /\ Len(sysTxnQueue') <= QueueSize
    <3>1. CASE ServerSnapshot(s)
      BY <3>1 DEF ServerSnapshot, queues, TypeInv, TypeOK
    <3>2. CASE ServerDequeueSys(s)
      BY <3>2 DEF ServerDequeueSys, TypeInv, TypeOK
    <3> QED
      BY <1>4, <3>1, <3>2
  <2>5. num_txn_to_dequeue' \in [Servers -> 0 .. QueueSize]
    <3>1. CASE ServerSnapshot(s)
      <4>1. Len(sysTxnQueue) \in 0 .. QueueSize
        BY DEF TypeInv, TypeOK
      <4> QED
        BY <3>1, <4>1 DEF ServerSnapshot, TypeInv, TypeOK
    <3>2. CASE ServerDequeueSys(s)
      <4>1. num_txn_to_dequeue[s] - 1 \in 0 .. QueueSize
        BY <3>2 DEF ServerDequeueSys, TypeInv, TypeOK
      <4> QED
        BY <3>2, <4>1 DEF ServerDequeueSys, TypeInv, TypeOK
    <3> QED
      BY <1>4, <3>1, <3>2
  <2>6. TypeOK'
    BY <2>2, <2>3, <2>4, <2>5 DEF TypeInv, TypeOK, flags, pool, handling, clients, history
  <2>7. HandlerTypes' /\ ServerTypes' /\ InboxTypes'
    BY <2>1, <2>2, <2>3
    DEF TypeInv, HandlerTypes, ServerTypes, InboxTypes, handling, clients
  <2> QED
    BY <2>6, <2>7 DEF TypeInv
<1>5. CASE ServerDequeueUser(s)
  <2>1. Goto(s, "exec") /\ "exec" \in Labels
    BY <1>5 DEF ServerDequeueUser, Labels
  <2>2. UNCHANGED <<flags, sysTxnQueue, num_txn_to_dequeue, result, pool, handling, clients,
                    history>>
    BY <1>5 DEF ServerDequeueUser
  <2>3. /\ pc' \in [Threads -> Labels] /\ pc'[s] = "exec"
        /\ \A o \in Threads : o # s => pc'[o] = pc[o]
    BY <2>1, GotoMoves DEF TypeInv, TypeOK
  <2>4. /\ Head(userTxnQueue) \in Entries
        /\ userTxnQueue' \in Seq(Entries) /\ Len(userTxnQueue') <= QueueSize
    BY <1>5 DEF ServerDequeueUser, TypeInv, TypeOK
  <2>5. /\ current' \in [Servers -> Entries \cup {NoEntry}]
        /\ current'[s] \in Entries
        /\ \A o \in Servers : o # s => current'[o] = current[o]
    BY <1>5, <2>4 DEF ServerDequeueUser, TypeInv, TypeOK
  <2>6. TypeOK'
    BY <2>2, <2>3, <2>4, <2>5 DEF TypeInv, TypeOK, flags, pool, handling, clients, history
  <2>7. HandlerTypes' /\ InboxTypes'
    BY <2>2, <2>3 DEF TypeInv, HandlerTypes, InboxTypes, handling, clients
  <2>8. ServerTypes'
    BY <2>3, <2>5 DEF TypeInv, ServerTypes
  <2> QED
    BY <2>6, <2>7, <2>8 DEF TypeInv
<1>6. ASSUME NEW rc \in Codes, ServerExecute(s, rc) PROVE TypeInv'
  <2>1. Goto(s, "setRc") /\ "setRc" \in Labels /\ pc[s] = "exec"
    BY <1>6 DEF ServerExecute, Labels
  <2>2. UNCHANGED <<flags, queues, num_txn_to_dequeue, current, pool, handling, clients, replied>>
    BY <1>6 DEF ServerExecute
  <2>3. /\ pc' \in [Threads -> Labels] /\ pc'[s] = "setRc"
        /\ \A o \in Threads : o # s => pc'[o] = pc[o]
    BY <2>1, GotoMoves DEF TypeInv, TypeOK
  <2>4. current[s] \in Entries
    BY <2>1 DEF TypeInv, ServerTypes, Busy
  <2>5. committed' \subseteq Requests /\ result' \in [Servers -> Codes]
    BY <1>6, <2>4 DEF ServerExecute, TypeInv, TypeOK, Entries
  <2>6. TypeOK'
    BY <2>2, <2>3, <2>5 DEF TypeInv, TypeOK, flags, queues, pool, handling, clients
  <2>7. HandlerTypes' /\ InboxTypes'
    BY <2>2, <2>3 DEF TypeInv, HandlerTypes, InboxTypes, handling, clients
  <2>8. ServerTypes'
    BY <2>2, <2>3, <2>4 DEF TypeInv, ServerTypes
  <2> QED
    BY <2>6, <2>7, <2>8 DEF TypeInv
<1>7. CASE ServerSetRc(s) \/ ServerPacketFreeFails(s) \/ ServerSetDone(s)
  <2>1. PICK l \in {"setDone", "failXit", "clock"} : Goto(s, l)
    BY <1>7 DEF ServerSetRc, ServerPacketFreeFails, ServerSetDone
  <2>2. UNCHANGED <<flags, queues, serving, pool, socket_fd, reqPacket, resPacket, clients,
                    history>>
    BY <1>7 DEF ServerSetRc, ServerPacketFreeFails, ServerSetDone
  <2>3. /\ pc' \in [Threads -> Labels] /\ pc'[s] = l
        /\ \A o \in Threads : o # s => pc'[o] = pc[o]
    BY <2>1, GotoMoves DEF TypeInv, TypeOK, Labels
  <2>4. current[s] \in Entries
    BY <1>7 DEF TypeInv, ServerTypes, Busy, ServerSetRc, ServerPacketFreeFails, ServerSetDone
  <2>5. txn_rc' \in [Workers -> Codes]
    BY <1>7, <2>4 DEF ServerSetRc, ServerPacketFreeFails, ServerSetDone, TypeInv, TypeOK, Entries
  <2>6. txn_done' \in [Workers -> BOOLEAN]
    BY <1>7, <2>4 DEF ServerSetRc, ServerPacketFreeFails, ServerSetDone, TypeInv, TypeOK, Entries
  <2>7. TypeOK'
    BY <2>2, <2>3, <2>5, <2>6 DEF TypeInv, TypeOK, flags, queues, serving, pool, clients, history
  <2>8. HandlerTypes' /\ InboxTypes'
    BY <2>2, <2>3 DEF TypeInv, HandlerTypes, InboxTypes, clients
  <2>9. ServerTypes'
    BY <2>2, <2>3, <2>4 DEF TypeInv, ServerTypes, serving
  <2> QED
    BY <2>7, <2>8, <2>9 DEF TypeInv
<1> QED
  BY <1>1, <1>2, <1>3, <1>4, <1>5, <1>6, <1>7 DEF ServerStep

LEMMA TypeUpdater ==
  ASSUME TypeInv, NEW u \in Updaters, UpdaterStep(u)
  PROVE  TypeInv'
<1> USE Apart
<1> u \in Threads
  OBVIOUS
<1>1. CASE UpdaterEnqueue(u)
  <2>1. /\ pc' \in [Threads -> Labels]
        /\ \A o \in Threads : o # u => pc'[o] = pc[o]
    BY <1>1, GotoMoves DEF UpdaterEnqueue, TypeInv, TypeOK, Labels
  <2>2. UNCHANGED <<flags, userTxnQueue, serving, pool, handling, clients, history>>
    BY <1>1 DEF UpdaterEnqueue
  <2>3. sysTxnQueue' \in Seq(Updaters) /\ Len(sysTxnQueue') <= QueueSize
    BY <1>1 DEF UpdaterEnqueue, TypeInv, TypeOK
  <2>4. TypeOK'
    BY <2>1, <2>2, <2>3
    DEF TypeInv, TypeOK, flags, serving, pool, handling, clients, history
  <2>5. HandlerTypes' /\ ServerTypes' /\ InboxTypes'
    BY <2>1, <2>2
    DEF TypeInv, HandlerTypes, ServerTypes, InboxTypes, serving, handling, clients
  <2> QED
    BY <2>4, <2>5 DEF TypeInv
<1>2. CASE ~UpdaterEnqueue(u)
  <2>1. PICK l \in {"create", "exited", "enqueue", "sleep", "enqWait"} : Goto(u, l)
    BY <1>2 DEF UpdaterStep, UpdaterSetup, UpdaterCreate, UpdaterNothingToDo, UpdaterBlock,
                UpdaterFail, UpdaterRelease, UpdaterWake
  <2>2. UNCHANGED <<flags, queues, serving, pool, handling, clients, history>>
    BY <1>2 DEF UpdaterStep, UpdaterSetup, UpdaterCreate, UpdaterNothingToDo, UpdaterBlock,
                UpdaterFail, UpdaterRelease, UpdaterWake
  <2>3. l \in Labels
    BY <2>1 DEF Labels
  <2> QED
    BY <2>1, <2>2, <2>3, TypeMove DEF flags, pool, TypeInv, TypeOK
<1> QED
  BY <1>1, <1>2

\* The exit of daHandler.
LEMMA TypeCleanup ==
  ASSUME TypeInv, NEW w \in Workers, socket_fd[w] \in Clients, Cleanup(w),
         UNCHANGED <<flags, queues, serving, pool, reqPacket, resPacket, sent, inbox, committed>>,
         txn_done' \in [Workers -> BOOLEAN], txn_rc' \in [Workers -> Codes],
         replied' \in [Requests -> Codes \cup {"none"}]
  PROVE  TypeInv'
<1> USE Apart
<1>1. /\ pc' \in [Threads -> Labels] /\ pc'[w] = "idle"
      /\ \A o \in Threads : o # w => pc'[o] = pc[o]
  BY GotoMoves DEF Cleanup, TypeInv, TypeOK, Labels
<1>2. sock' \in [Clients -> {"out", "backlog", "open", "eof", "reset", "closed"}]
  BY DEF Cleanup, TypeInv, TypeOK
<1>3. /\ socket_fd' \in [Workers -> Clients \cup {NoClient}]
      /\ \A v \in Workers : v # w => socket_fd'[v] = socket_fd[v]
  BY DEF Cleanup, TypeInv, TypeOK
<1>4. TypeOK'
  BY <1>1, <1>2, <1>3 DEF TypeInv, TypeOK, flags, queues, serving, pool
<1>5. HandlerTypes'
  BY <1>1, <1>3 DEF TypeInv, HandlerTypes, Active
<1>6. ServerTypes' /\ InboxTypes'
  BY <1>1 DEF TypeInv, ServerTypes, InboxTypes, serving
<1> QED
  BY <1>4, <1>5, <1>6 DEF TypeInv

LEMMA TypeWorker ==
  ASSUME TypeInv, NEW w \in Workers, WorkerStep(w)
  PROVE  TypeInv'
<1> USE Apart
<1> w \in Threads
  OBVIOUS
<1> TypeOK /\ HandlerTypes /\ ServerTypes /\ InboxTypes
  BY DEF TypeInv
<1>1. CASE WorkerPull(w)
  <2>1. /\ pc' \in [Threads -> Labels] /\ pc'[w] = "top"
        /\ \A o \in Threads : o # w => pc'[o] = pc[o]
    BY <1>1, GotoMoves DEF WorkerPull, TypeOK, Labels
  <2>2. UNCHANGED <<flags, queues, serving, threads_keepalive, reqPacket, txn_done, txn_rc,
                    resPacket, clients, history>>
    BY <1>1 DEF WorkerPull
  <2>3. Head(jobs) \in Clients /\ jobs' \in Seq(Clients)
    BY <1>1 DEF WorkerPull, TypeOK
  <2>4. /\ socket_fd' \in [Workers -> Clients \cup {NoClient}] /\ socket_fd'[w] \in Clients
        /\ \A v \in Workers : v # w => socket_fd'[v] = socket_fd[v]
    BY <1>1, <2>3 DEF WorkerPull, TypeOK
  <2>5. TypeOK'
    BY <2>1, <2>2, <2>3, <2>4 DEF TypeOK, flags, queues, serving, clients, history
  <2>6. HandlerTypes'
    BY <2>1, <2>2, <2>4 DEF HandlerTypes, Active
  <2>7. ServerTypes' /\ InboxTypes'
    BY <2>1, <2>2 DEF ServerTypes, InboxTypes, serving, clients
  <2> QED
    BY <2>5, <2>6, <2>7 DEF TypeInv
<1>2. CASE WorkerExit(w) \/ HandlerBlock(w) \/ HandlerPoll(w)
            \/ (HandlerTop(w) /\ ~time_to_die)
  <2>1. PICK l \in {"exited", "enqWait", "readRc", "read"} :
          /\ Goto(w, l)
          /\ l \in {"enqWait", "readRc"} => pc[w] \in Active
          /\ l = "read" => pc[w] = "top"
    BY <1>2 DEF WorkerExit, HandlerBlock, HandlerPoll, HandlerTop, Active
  <2>2. UNCHANGED <<flags, queues, serving, pool, handling, clients, history>>
    BY <1>2 DEF WorkerExit, HandlerBlock, HandlerPoll, HandlerTop, handling, clients
  <2>3. l \in Labels /\ l \in {"top", "read"} \cup Active => socket_fd[w] \in Clients
    BY <2>1 DEF Labels, Active, HandlerTypes
  <2>4. l \in Labels /\ l \in Active => reqPacket[w] \in Requests
    BY <2>1 DEF Labels, Active, HandlerTypes
  <2>5. l \in Labels
    BY <2>1 DEF Labels
  <2> QED
    BY <2>1, <2>2, <2>3, <2>4, <2>5, TypeMove DEF flags, pool, TypeOK
<1>3. CASE HandlerRead(w)
  <2>1. /\ pc' \in [Threads -> Labels] /\ pc'[w] = "admit"
        /\ \A o \in Threads : o # w => pc'[o] = pc[o]
    BY <1>3, GotoMoves DEF HandlerRead, TypeOK, Labels
  <2>2. UNCHANGED <<flags, queues, serving, pool, socket_fd, txn_done, txn_rc, resPacket,
                    sock, sent, history>>
    BY <1>3 DEF HandlerRead
  <2>3. socket_fd[w] \in Clients /\ sent[socket_fd[w]] \in 1 .. MaxRequests
    BY <1>3 DEF HandlerRead, HandlerTypes, InboxTypes, TypeOK
  <2>4. /\ reqPacket' \in [Workers -> Requests \cup {<< >>}] /\ reqPacket'[w] \in Requests
        /\ \A v \in Workers : v # w => reqPacket'[v] = reqPacket[v]
    BY <1>3, <2>3 DEF HandlerRead, TypeOK, Requests
  <2>5. inbox' \in [Clients -> BOOLEAN] /\ \A c \in Clients : inbox'[c] => inbox[c]
    BY <1>3, <2>3 DEF HandlerRead, TypeOK
  <2>6. TypeOK'
    BY <2>1, <2>2, <2>4, <2>5 DEF TypeOK, flags, queues, serving, pool, history
  <2>7. HandlerTypes'
    BY <2>1, <2>2, <2>3, <2>4 DEF HandlerTypes
  <2>8. ServerTypes' /\ InboxTypes'
    BY <2>1, <2>2, <2>5 DEF ServerTypes, InboxTypes, serving
  <2> QED
    BY <2>6, <2>7, <2>8 DEF TypeInv
<1>4. CASE HandlerReadError(w) \/ HandlerFail(w) \/ (HandlerTop(w) /\ time_to_die)
            \/ (HandlerAdmit(w) /\ time_to_die)
  <2>1. /\ Cleanup(w)
        /\ UNCHANGED <<flags, queues, serving, pool, reqPacket, txn_done, txn_rc, resPacket,
                       sent, inbox, history>>
    BY <1>4 DEF HandlerReadError, HandlerFail, HandlerTop, HandlerAdmit
  <2>2. socket_fd[w] \in Clients
    BY <1>4 DEF HandlerReadError, HandlerFail, TurnedAway, HandlerTop, HandlerAdmit,
                HandlerTypes, Active
  <2> QED
    BY <2>1, <2>2, TypeCleanup DEF TypeOK, history
<1>5. CASE HandlerAdmit(w) /\ ~time_to_die
  <2>1. /\ pc' \in [Threads -> Labels] /\ pc'[w] = "enqueue"
        /\ \A o \in Threads : o # w => pc'[o] = pc[o]
    BY <1>5, GotoMoves DEF HandlerAdmit, TypeOK, Labels
  <2>2. /\ pc[w] = "admit"
        /\ UNCHANGED <<flags, queues, serving, pool, socket_fd, reqPacket, resPacket, clients,
                       history>>
    BY <1>5 DEF HandlerAdmit, clients
  <2>3. txn_rc' \in [Workers -> Codes]
    BY <1>5 DEF HandlerAdmit, TypeOK, Codes
  <2>4. txn_done' \in [Workers -> BOOLEAN]
    BY <1>5 DEF HandlerAdmit, TypeOK
  <2>5. TypeOK'
    BY <2>1, <2>2, <2>3, <2>4 DEF TypeOK, flags, queues, serving, pool, clients, history
  <2>6. HandlerTypes'
    BY <2>1, <2>2 DEF HandlerTypes, Active
  <2>7. ServerTypes' /\ InboxTypes'
    BY <2>1, <2>2 DEF ServerTypes, InboxTypes, serving, clients
  <2> QED
    BY <2>5, <2>6, <2>7 DEF TypeInv
<1>6. CASE HandlerEnqueue(w)
  <2>1. /\ pc' \in [Threads -> Labels] /\ pc'[w] = "poll"
        /\ \A o \in Threads : o # w => pc'[o] = pc[o]
    BY <1>6, GotoMoves DEF HandlerEnqueue, TypeOK, Labels
  <2>2. /\ pc[w] \in Active
        /\ UNCHANGED <<flags, sysTxnQueue, serving, pool, handling, clients, history>>
    BY <1>6 DEF HandlerEnqueue, Passes, Active
  <2>3. [worker |-> w, request |-> reqPacket[w]] \in Entries
    BY <2>2 DEF HandlerTypes, Entries
  <2>4. userTxnQueue' \in Seq(Entries) /\ Len(userTxnQueue') <= QueueSize
    BY <1>6, <2>3 DEF HandlerEnqueue, TypeOK
  <2>5. TypeOK'
    BY <2>1, <2>2, <2>4 DEF TypeOK, flags, serving, pool, handling, clients, history
  <2>6. HandlerTypes'
    BY <2>1, <2>2 DEF HandlerTypes, handling
  <2>7. ServerTypes' /\ InboxTypes'
    BY <2>1, <2>2 DEF ServerTypes, InboxTypes, serving, clients
  <2> QED
    BY <2>5, <2>6, <2>7 DEF TypeInv
<1>7. CASE HandlerReadRc(w)
  <2>1. /\ pc' \in [Threads -> Labels] /\ pc'[w] = "reply"
        /\ \A o \in Threads : o # w => pc'[o] = pc[o]
    BY <1>7, GotoMoves DEF HandlerReadRc, TypeOK, Labels
  <2>2. /\ pc[w] \in Active
        /\ UNCHANGED <<flags, queues, serving, pool, socket_fd, reqPacket, txn_done, txn_rc,
                       clients, history>>
    BY <1>7 DEF HandlerReadRc, Active
  <2>3. resPacket' \in [Workers -> Codes]
    BY <1>7 DEF HandlerReadRc, TypeOK
  <2>4. TypeOK'
    BY <2>1, <2>2, <2>3 DEF TypeOK, flags, queues, serving, pool, clients, history
  <2>5. HandlerTypes'
    BY <2>1, <2>2 DEF HandlerTypes
  <2>6. ServerTypes' /\ InboxTypes'
    BY <2>1, <2>2 DEF ServerTypes, InboxTypes, serving, clients
  <2> QED
    BY <2>4, <2>5, <2>6 DEF TypeInv
<1>8. CASE HandlerReply(w)
  <2>1. socket_fd[w] \in Clients /\ reqPacket[w] \in Requests
    BY <1>8 DEF HandlerReply, HandlerTypes, Active
  <2>2. UNCHANGED <<flags, queues, serving, pool, reqPacket, txn_done, txn_rc, resPacket,
                    sent, inbox, committed>>
    BY <1>8 DEF HandlerReply
  <2>3. replied' \in [Requests -> Codes \cup {"none"}]
    BY <1>8, <2>1 DEF HandlerReply, TypeOK
  <2>4. CASE Cleanup(w)
    BY <2>1, <2>2, <2>3, <2>4, TypeCleanup DEF TypeOK
  <2>5. CASE Goto(w, "top") /\ UNCHANGED <<sock, socket_fd>>
    <3>1. /\ pc' \in [Threads -> Labels] /\ pc'[w] = "top"
          /\ \A o \in Threads : o # w => pc'[o] = pc[o]
      BY <2>5, GotoMoves DEF TypeOK, Labels
    <3>2. TypeOK'
      BY <2>2, <2>3, <2>5, <3>1 DEF TypeOK, flags, queues, serving, pool
    <3>3. HandlerTypes'
      BY <2>1, <2>2, <2>5, <3>1 DEF HandlerTypes
    <3>4. ServerTypes' /\ InboxTypes'
      BY <2>2, <3>1 DEF ServerTypes, InboxTypes, serving
    <3> QED
      BY <3>2, <3>3, <3>4 DEF TypeInv
  <2> QED
    BY <1>8, <2>4, <2>5 DEF HandlerReply
<1> QED
  BY <1>1, <1>2, <1>3, <1>4, <1>5, <1>6, <1>7, <1>8 DEF WorkerStep

\* Several threads start or end at once, none of them in the middle of its work.
LEMMA TypeGroup ==
  ASSUME TypeInv, pc' \in [Threads -> Labels],
         \A th \in Servers \cup Workers :
           pc'[th] = pc[th] \/ pc'[th] \in {"idle", "exited"} \/ (th \in Servers /\ pc'[th] = "top"),
         UNCHANGED <<flags, queues, serving, jobs, handling, clients, history>>,
         threads_keepalive' \in BOOLEAN
  PROVE  TypeInv'
<1> USE Apart
<1>1. TypeOK'
  BY DEF TypeInv, TypeOK, flags, queues, serving, handling, clients, history
<1>2. HandlerTypes'
  BY DEF TypeInv, HandlerTypes, handling, Active
<1>3. ServerTypes'
  BY DEF TypeInv, ServerTypes, serving, Busy
<1>4. InboxTypes'
  BY DEF TypeInv, InboxTypes, clients
<1> QED
  BY <1>1, <1>2, <1>3, <1>4 DEF TypeInv

LEMMA TypeListener == TypeInv /\ ListenerStep => TypeInv'
<1> SUFFICES ASSUME TypeInv, ListenerStep PROVE TypeInv'
  OBVIOUS
<1> USE Apart
<1> TypeOK
  BY DEF TypeInv
<1>1. CASE ListenerInit
  <2>1. UNCHANGED <<flags, queues, serving, jobs, handling, clients, history>>
    BY <1>1 DEF ListenerInit
  <2>2. CASE Goto(Listener, "exited") /\ UNCHANGED threads_keepalive
    <3>1. pc' \in [Threads -> Labels] /\ \A o \in Threads : o # Listener => pc'[o] = pc[o]
      BY <2>2, GotoMoves DEF TypeOK, Labels
    <3> QED
      BY <2>1, <2>2, <3>1, TypeGroup DEF TypeOK
  <2>3. ASSUME NEW l \in {"listen", "destroy"},
               pc' = [th \in Threads |-> IF th \in Workers THEN "idle"
                                         ELSE IF th = Listener THEN l ELSE pc[th]],
               threads_keepalive' = (l = "listen")
        PROVE  TypeInv'
    <3>1. pc' \in [Threads -> Labels]
      BY <2>3 DEF TypeOK, Labels
    <3>2. \A th \in Servers \cup Workers : pc'[th] = pc[th] \/ pc'[th] \in {"idle", "exited"}
      BY <2>3
    <3>3. threads_keepalive' \in BOOLEAN
      BY <2>3
    <3> QED
      BY <2>1, <3>1, <3>2, <3>3, TypeGroup
  <2> QED
    BY <1>1, <2>2, <2>3 DEF ListenerInit
<1>2. ASSUME NEW c \in Clients, ListenerAccept(c) PROVE TypeInv'
  <2>1. jobs' \in Seq(Clients)
    BY <1>2 DEF ListenerAccept, TypeOK
  <2>2. sock' \in [Clients -> {"out", "backlog", "open", "eof", "reset", "closed"}]
    BY <1>2 DEF ListenerAccept, TypeOK
  <2>3. UNCHANGED <<pc, flags, queues, serving, threads_keepalive, handling, sent, inbox,
                    history>>
    BY <1>2 DEF ListenerAccept
  <2>4. TypeOK'
    BY <2>1, <2>2, <2>3 DEF TypeOK, flags, queues, serving, handling, history
  <2>5. HandlerTypes' /\ ServerTypes' /\ InboxTypes'
    BY <2>3 DEF TypeInv, HandlerTypes, ServerTypes, InboxTypes, serving, handling
  <2> QED
    BY <2>4, <2>5 DEF TypeInv
<1>3. CASE ListenerLeave \/ ListenerDestroy
  <2>1. PICK l \in {"destroy", "exited"} : Goto(Listener, l)
    BY <1>3 DEF ListenerLeave, ListenerDestroy
  <2>2. UNCHANGED <<flags, queues, serving, handling, clients, history>>
    BY <1>3 DEF ListenerLeave, ListenerDestroy
  <2>3. threads_keepalive' \in BOOLEAN
    BY <1>3 DEF ListenerLeave, ListenerDestroy, TypeOK
  <2>4. jobs' = jobs \/ jobs' = << >>
    BY <1>3 DEF ListenerLeave, ListenerDestroy
  <2> jobs' \in Seq(Clients)
    <3>1. << >> \in Seq(Clients) /\ jobs \in Seq(Clients)
      BY DEF TypeOK
    <3> QED
      BY <2>4, <3>1, Zenon
  <2>5. pc' \in [Threads -> Labels] /\ \A o \in Threads : o # Listener => pc'[o] = pc[o]
    BY <2>1, GotoMoves DEF TypeOK, Labels
  <2>6. TypeOK'
    BY <2>2, <2>3, <2>4, <2>5 DEF TypeOK, flags, queues, serving, handling, clients, history
  <2>7. HandlerTypes' /\ ServerTypes' /\ InboxTypes'
    BY <2>2, <2>5 DEF TypeInv, HandlerTypes, ServerTypes, InboxTypes, serving, handling, clients
  <2> QED
    BY <2>6, <2>7 DEF TypeInv
<1> QED
  BY <1>1, <1>2, <1>3 DEF ListenerStep

\* What a spawn of main does to pc.
LEMMA SpawnMoves ==
  ASSUME TypeOK, NEW at, NEW group, NEW l \in Labels, NEW next \in Labels,
         Spawn(at, group, l, next)
  PROVE  /\ pc' \in [Threads -> Labels]
         /\ pc[Main] = at
         /\ UNCHANGED <<flags, queues, serving, pool, handling, clients, history>>
         /\ \A th \in Threads \ {Main} : pc'[th] = pc[th] \/ (th \in group /\ pc'[th] = l)
         /\ Main \notin group => \/ pc'[Main] = next /\ \A th \in Threads \cap group : pc'[th] = l
                                 \/ SpawnMayFail /\ pc'[Main] = "freed"
<1> USE Apart
<1>1. /\ pc[Main] = at
      /\ UNCHANGED <<flags, queues, serving, pool, handling, clients, history>>
  BY DEF Spawn
<1>2. CASE pc' = [th \in Threads |-> IF th \in group THEN l ELSE IF th = Main THEN next ELSE pc[th]]
  BY <1>1, <1>2 DEF TypeOK
<1>3. ASSUME SpawnMayFail, NEW started \in SUBSET group,
             pc' = [th \in Threads |-> IF th \in started THEN l
                                       ELSE IF th = Main THEN "freed" ELSE pc[th]]
      PROVE  /\ pc' \in [Threads -> Labels]
             /\ \A th \in Threads \ {Main} : pc'[th] = pc[th] \/ (th \in group /\ pc'[th] = l)
             /\ Main \notin group => pc'[Main] = "freed"
  <2>1. "freed" \in Labels
    BY DEF Labels
  <2> QED
    BY <1>3, <2>1 DEF TypeOK
<1> QED
  BY <1>1, <1>2, <1>3 DEF Spawn

LEMMA TypeMain == TypeInv /\ MainStep => TypeInv'
<1> SUFFICES ASSUME TypeInv, MainStep PROVE TypeInv'
  OBVIOUS
<1> USE Apart
<1> TypeOK
  BY DEF TypeInv
<1>1. CASE MainSpawn
  <2>1. /\ pc' \in [Threads -> Labels]
        /\ UNCHANGED <<flags, queues, serving, pool, handling, clients, history>>
        /\ \A th \in Servers \cup Workers :
             pc'[th] = pc[th] \/ (th \in Servers /\ pc'[th] = "top")
    <3>1. CASE Spawn("spawnServers", Servers, "top", "spawnUpdaters")
      <4>1. "top" \in Labels /\ "spawnUpdaters" \in Labels
        BY DEF Labels
      <4> QED
        BY <3>1, <4>1, SpawnMoves
    <3>2. CASE Spawn("spawnUpdaters", Updaters, "setup", "spawnListener")
      <4>1. "setup" \in Labels /\ "spawnListener" \in Labels
        BY DEF Labels
      <4> QED
        BY <3>2, <4>1, SpawnMoves
    <3>3. CASE Spawn("spawnListener", {Listener}, "start", "joinListener")
      <4>1. "start" \in Labels /\ "joinListener" \in Labels
        BY DEF Labels
      <4> QED
        BY <3>3, <4>1, SpawnMoves
    <3> QED
      BY <1>1, <3>1, <3>2, <3>3 DEF MainSpawn
  <2> QED
    BY <2>1, TypeGroup DEF pool, TypeOK
<1>2. CASE MainJoin
  <2>1. PICK l \in {"joinUpdaters", "joinServers", "freed"} : Goto(Main, l)
    BY <1>2 DEF MainJoin, Join
  <2>2. UNCHANGED <<flags, queues, serving, pool, handling, clients, history>>
    BY <1>2 DEF MainJoin, Join
  <2>3. l \in Labels
    BY <2>1 DEF Labels
  <2> QED
    BY <2>1, <2>2, <2>3, TypeMove DEF flags, pool, TypeOK
<1>3. CASE MainReturn
  <2>1. pc' \in [Threads -> Labels]
    BY <1>3 DEF MainReturn, Labels
  <2>2. \A th \in Servers \cup Workers : pc'[th] = "exited"
    BY <1>3 DEF MainReturn
  <2>3. UNCHANGED <<flags, queues, serving, pool, handling, clients, history>>
    BY <1>3 DEF MainReturn
  <2> QED
    BY <2>1, <2>2, <2>3, TypeGroup DEF pool, TypeOK
<1> QED
  BY <1>1, <1>2, <1>3 DEF MainStep

LEMMA TypeEnvironment ==
  ASSUME TypeInv, Tick \/ (\E c \in Clients : ClientStep(c)) \/ UNCHANGED vars
  PROVE  TypeInv'
<1> USE Apart
<1> TypeOK
  BY DEF TypeInv
<1>1. CASE Tick
  <2>1. elapsed' \in 0 .. 2
    BY <1>1 DEF Tick, TypeOK
  <2>2. UNCHANGED <<pc, time_to_die, warming_up, queues, serving, pool, handling, clients,
                    history>>
    BY <1>1 DEF Tick
  <2>3. TypeOK'
    BY <2>1, <2>2 DEF TypeOK, queues, serving, pool, handling, clients, history
  <2>4. HandlerTypes' /\ ServerTypes' /\ InboxTypes'
    BY <2>2 DEF TypeInv, HandlerTypes, ServerTypes, InboxTypes, serving, handling, clients
  <2> QED
    BY <2>3, <2>4 DEF TypeInv
<1>2. ASSUME NEW c \in Clients, ClientStep(c) PROVE TypeInv'
  <2>1. UNCHANGED <<pc, flags, queues, serving, pool, handling, history>>
    BY <1>2 DEF ClientStep, ClientConnect, ClientSend, ClientHangUp
  <2>2. sock' \in [Clients -> {"out", "backlog", "open", "eof", "reset", "closed"}]
    BY <1>2 DEF ClientStep, ClientConnect, ClientSend, ClientHangUp, TypeOK
  <2>3. /\ sent' \in [Clients -> 0 .. MaxRequests]
        /\ \A d \in Clients : sent'[d] >= sent[d]
        /\ ClientSend(c) => sent'[c] >= 1
        /\ \A d \in Clients : sent[d] \in Nat /\ sent'[d] \in Nat
    <3>1. CASE ClientSend(c)
      <4>1. sent[c] + 1 \in 1 .. MaxRequests
        BY <3>1 DEF ClientSend, TypeOK
      <4> QED
        BY <3>1, <4>1 DEF ClientSend, TypeOK
    <3>2. CASE UNCHANGED sent /\ ~ClientSend(c)
      BY <3>2 DEF TypeOK
    <3> QED
      BY <1>2, <3>1, <3>2 DEF ClientStep, ClientConnect, ClientHangUp
  <2>4. inbox' \in [Clients -> BOOLEAN]
    <3>1. inbox' = inbox \/ (\E v \in BOOLEAN : inbox' = [inbox EXCEPT ![c] = v])
      BY <1>2 DEF ClientStep, ClientConnect, ClientSend, ClientHangUp
    <3> QED
      BY <3>1 DEF TypeOK
  <2>5. \A d \in Clients : inbox'[d] => inbox[d] \/ (d = c /\ ClientSend(c))
    BY <1>2 DEF ClientStep, ClientConnect, ClientSend, ClientHangUp, TypeOK
  <2>6. TypeOK'
    BY <2>1, <2>2, <2>3, <2>4 DEF TypeOK, flags, queues, serving, pool, handling, history
  <2>7. HandlerTypes' /\ ServerTypes'
    BY <2>1 DEF TypeInv, HandlerTypes, ServerTypes, serving, handling
  <2>8. InboxTypes'
    BY <2>3, <2>5 DEF TypeInv, InboxTypes
  <2> QED
    BY <2>6, <2>7, <2>8 DEF TypeInv
<1>3. CASE UNCHANGED vars
  <2>1. TypeOK'
    BY <1>3 DEF vars, TypeOK, flags, queues, serving, pool, handling, clients, history
  <2>2. HandlerTypes' /\ ServerTypes' /\ InboxTypes'
    BY <1>3 DEF vars, TypeInv, HandlerTypes, ServerTypes, InboxTypes, serving, handling, clients
  <2> QED
    BY <2>1, <2>2 DEF TypeInv
<1> QED
  BY <1>1, <1>2, <1>3

LEMMA TypeStep == TypeInv /\ [Next]_vars => TypeInv'
BY TypeServer, TypeUpdater, TypeWorker, TypeListener, TypeMain, TypeEnvironment DEF Next

LEMMA TypeInvariant == Spec => []TypeInv
BY TypeInit, TypeStep, PTL DEF Spec

\* The variables keep their types with any number of threads of every kind:
\* neither ready queue outgrows CHRONOS_READY_QUEUE_SIZE, and a processing
\* thread never counts more refreshes than a queue holds.
THEOREM ServerTypeCorrect == Spec => []TypeOK
<1>1. TypeInv => TypeOK
  BY DEF TypeInv
<1> QED
  BY <1>1, TypeInvariant, PTL

-----------------------------------------------------------------------------
(* The release of everything *)

\* A thread that takes a step is alive, moves itself alone and is not unborn
\* afterwards.
Moves(th) ==
  /\ pc[th] \notin {"unborn", "exited"}
  /\ pc' \in [Threads -> Labels]
  /\ pc'[th] # "unborn"
  /\ \A o \in Threads : o # th => pc'[o] = pc[o]

LEMMA ThreadMoves ==
  ASSUME TypeInv
  PROVE  /\ \A s \in Servers : ServerStep(s) \/ ServerRetryFree(s) => Moves(s)
         /\ \A u \in Updaters : UpdaterStep(u) => Moves(u)
         /\ \A w \in Workers : WorkerStep(w) => Moves(w)
<1> USE Apart
<1> pc \in [Threads -> Labels]
  BY DEF TypeInv, TypeOK
<1>0. ASSUME NEW th \in Threads, NEW l, Goto(th, l), pc[th] \notin {"unborn", "exited"},
             l # "unborn", pc' \in [Threads -> Labels]
      PROVE  Moves(th)
  BY <1>0 DEF Goto, Moves
<1>1. ASSUME NEW s \in Servers, ServerStep(s) \/ ServerRetryFree(s) PROVE Moves(s)
  <2>1. pc[s] \notin {"unborn", "exited"}
    BY <1>1 DEF ServerStep, ServerTop, ServerSnapshot, ServerDequeueSys, ServerSysDone,
         ServerUserCheck, ServerDequeueUser, ServerBlock, ServerFail, ServerExecute, ServerSetRc,
         ServerPacketFreeFails, ServerRetryFree, ServerSetDone, ServerClock, Passes, TurnedAway
  <2>2. \E l : Goto(s, l) /\ l # "unborn"
    BY <1>1 DEF ServerStep, ServerTop, ServerSnapshot, ServerDequeueSys, ServerSysDone,
         ServerUserCheck, ServerDequeueUser, ServerBlock, ServerFail, ServerExecute, ServerSetRc,
         ServerPacketFreeFails, ServerRetryFree, ServerSetDone, ServerClock
  <2>3. pc' \in [Threads -> Labels]
    BY <1>1, TypeServer DEF TypeInv, TypeOK
  <2> QED
    BY <1>0, <2>1, <2>2, <2>3
<1>2. ASSUME NEW u \in Updaters, UpdaterStep(u) PROVE Moves(u)
  <2>1. pc[u] \notin {"unborn", "exited"}
    BY <1>2 DEF UpdaterStep, UpdaterSetup, UpdaterCreate, UpdaterNothingToDo, UpdaterEnqueue,
         UpdaterBlock, UpdaterFail, UpdaterRelease, UpdaterWake, Passes, TurnedAway
  <2>2. \E l : Goto(u, l) /\ l # "unborn"
    BY <1>2 DEF UpdaterStep, UpdaterSetup, UpdaterCreate, UpdaterNothingToDo, UpdaterEnqueue,
         UpdaterBlock, UpdaterFail, UpdaterRelease, UpdaterWake
  <2>3. pc' \in [Threads -> Labels]
    BY <1>2, TypeUpdater DEF TypeInv, TypeOK
  <2> QED
    BY <1>0, <2>1, <2>2, <2>3
<1>3. ASSUME NEW w \in Workers, WorkerStep(w) PROVE Moves(w)
  <2>1. pc[w] \notin {"unborn", "exited"}
    BY <1>3 DEF WorkerStep, WorkerPull, WorkerExit, HandlerTop, HandlerRead, HandlerReadError,
         HandlerAdmit, HandlerEnqueue, HandlerBlock, HandlerFail, HandlerPoll, HandlerReadRc,
         HandlerReply, Passes, TurnedAway
  <2>2. \E l : Goto(w, l) /\ l # "unborn"
    BY <1>3 DEF WorkerStep, WorkerPull, WorkerExit, HandlerTop, HandlerRead, HandlerReadError,
         HandlerAdmit, HandlerEnqueue, HandlerBlock, HandlerFail, HandlerPoll, HandlerReadRc,
         HandlerReply, Cleanup
  <2>3. pc' \in [Threads -> Labels]
    BY <1>3, TypeWorker DEF TypeInv, TypeOK
  <2> QED
    BY <1>0, <2>1, <2>2, <2>3
<1> QED
  BY <1>1, <1>2, <1>3

LEMMA LifeInit == Init => BirthOrder /\ Joined
BY Apart DEF Init, BirthOrder, Joined

LEMMA LifeStep ==
  TypeInv /\ BirthOrder /\ [Next]_vars => BirthOrder' /\ (~SpawnMayFail /\ Joined => Joined')
<1> SUFFICES ASSUME TypeInv, BirthOrder, [Next]_vars
             PROVE  BirthOrder' /\ (~SpawnMayFail /\ Joined => Joined')
  OBVIOUS
<1> USE Apart
<1> TypeOK /\ pc \in [Threads -> Labels]
  BY DEF TypeInv, TypeOK
<1>1. ASSUME NEW th \in Servers \cup Updaters \cup Workers, Moves(th)
      PROVE  BirthOrder' /\ (Joined => Joined')
  BY <1>1 DEF BirthOrder, Joined, Moves
<1>2. CASE ListenerInit
  <2>1. CASE Goto(Listener, "exited")
    <3>1. pc'[Listener] = "exited" /\ \A o \in Threads : o # Listener => pc'[o] = pc[o]
      BY <2>1 DEF Goto
    <3> QED
      BY <1>2, <3>1 DEF ListenerInit, BirthOrder, Joined
  <2>2. ASSUME NEW l \in {"listen", "destroy"},
               pc' = [th \in Threads |-> IF th \in Workers THEN "idle"
                                         ELSE IF th = Listener THEN l ELSE pc[th]]
        PROVE  BirthOrder' /\ (Joined => Joined')
    <3>1. pc'[Listener] = l /\ \A o \in Threads \ Workers : o # Listener => pc'[o] = pc[o]
      BY <2>2
    <3> QED
      BY <1>2, <3>1 DEF ListenerInit, BirthOrder, Joined
  <2> QED
    BY <1>2, <2>1, <2>2 DEF ListenerInit
<1>3. CASE ListenerLeave \/ ListenerDestroy
  <2>1. PICK l \in {"destroy", "exited"} :
          Goto(Listener, l) /\ (l = "exited" => \A w \in Workers : pc[w] = "exited")
    BY <1>3 DEF ListenerLeave, ListenerDestroy
  <2>2. pc'[Listener] = l /\ \A o \in Threads : o # Listener => pc'[o] = pc[o]
    BY <2>1 DEF Goto
  <2>3. pc[Listener] \in {"listen", "destroy"}
    BY <1>3 DEF ListenerLeave, ListenerDestroy
  <2> QED
    BY <2>1, <2>2, <2>3 DEF BirthOrder, Joined
<1>4. CASE MainSpawn
  <2>1. CASE Spawn("spawnServers", Servers, "top", "spawnUpdaters")
    <3>1. "top" \in Labels /\ "spawnUpdaters" \in Labels
      BY DEF Labels
    <3>2. /\ pc[Main] = "spawnServers"
          /\ \A th \in Threads \ {Main} : pc'[th] = pc[th] \/ (th \in Servers /\ pc'[th] = "top")
          /\ pc'[Main] = "spawnUpdaters" \/ (SpawnMayFail /\ pc'[Main] = "freed")
      BY <2>1, <3>1, SpawnMoves
    <3> QED
      BY <3>2 DEF BirthOrder, Joined
  <2>2. CASE Spawn("spawnUpdaters", Updaters, "setup", "spawnListener")
    <3>1. "setup" \in Labels /\ "spawnListener" \in Labels
      BY DEF Labels
    <3>2. /\ pc[Main] = "spawnUpdaters"
          /\ \A th \in Threads \ {Main} : pc'[th] = pc[th] \/ (th \in Updaters /\ pc'[th] = "setup")
          /\ pc'[Main] = "spawnListener" \/ (SpawnMayFail /\ pc'[Main] = "freed")
      BY <2>2, <3>1, SpawnMoves
    <3> QED
      BY <3>2 DEF BirthOrder, Joined
  <2>3. CASE Spawn("spawnListener", {Listener}, "start", "joinListener")
    <3>1. "start" \in Labels /\ "joinListener" \in Labels
      BY DEF Labels
    <3>2. PICK group : group = {Listener}
      OBVIOUS
    <3>3. Spawn("spawnListener", group, "start", "joinListener") /\ Main \notin group
      BY <2>3, <3>2
    <3>4. /\ pc[Main] = "spawnListener"
          /\ \A th \in Threads \ {Main} : pc'[th] = pc[th] \/ (th \in group /\ pc'[th] = "start")
          /\ pc'[Main] = "joinListener" \/ (SpawnMayFail /\ pc'[Main] = "freed")
      BY <3>1, <3>3, SpawnMoves
    <3>5. /\ \A th \in Threads \ {Main, Listener} : pc'[th] = pc[th]
          /\ pc[Listener] = "unborn" /\ pc'[Listener] \in {"unborn", "start"}
      BY <3>2, <3>4 DEF BirthOrder
    <3>6. \A w \in Workers : pc'[w] = "unborn"
      BY <3>5 DEF BirthOrder
    <3> QED
      BY <3>4, <3>5, <3>6 DEF BirthOrder, Joined
  <2> QED
    BY <1>4, <2>1, <2>2, <2>3 DEF MainSpawn
<1>5. CASE MainJoin
  <2>1. ASSUME NEW at \in {"joinListener", "joinUpdaters", "joinServers"}, NEW group, NEW next \in {"joinUpdaters", "joinServers", "freed"}, Join(at, group, next)
        PROVE  /\ pc[Main] = at /\ pc'[Main] = next
               /\ \A th \in group : pc[th] = "exited"
               /\ \A o \in Threads : o # Main => pc'[o] = pc[o]
    BY <2>1 DEF Join, Goto
  <2>2. CASE Join("joinListener", {Listener}, "joinUpdaters")
    BY <2>1, <2>2 DEF BirthOrder, Joined
  <2>3. CASE Join("joinUpdaters", Updaters, "joinServers")
    BY <2>1, <2>3 DEF BirthOrder, Joined
  <2>4. CASE Join("joinServers", Servers, "freed")
    BY <2>1, <2>4 DEF BirthOrder, Joined
  <2> QED
    BY <1>5, <2>2, <2>3, <2>4 DEF MainJoin
<1>6. CASE MainReturn
  BY <1>6 DEF MainReturn, BirthOrder, Joined
<1>7. CASE UNCHANGED pc
  BY <1>7 DEF BirthOrder, Joined
<1>8. Tick \/ (\E c \in Clients : ClientStep(c) \/ ListenerAccept(c)) \/ UNCHANGED vars => UNCHANGED pc
  BY DEF Tick, ClientStep, ClientConnect, ClientSend, ClientHangUp, ListenerAccept, vars
<1> QED
  BY <1>1, <1>2, <1>3, <1>4, <1>5, <1>6, <1>7, <1>8, ThreadMoves DEF Next, ListenerStep, MainStep

\* When every pthread_create succeeds, the queues and the context are freed
\* only after every other thread has ended, however many threads there are and
\* whatever else fails: main joins the listener, whose thpool_destroy waits for
\* the pool's threads, then the update threads, then the processing threads.
THEOREM FreedLast == ~SpawnMayFail => (Spec => []NoUseAfterFree)
<1> SUFFICES ASSUME ~SpawnMayFail PROVE Spec => []NoUseAfterFree
  OBVIOUS
<1>1. TypeInv /\ BirthOrder /\ Joined /\ [Next]_vars => BirthOrder' /\ Joined'
  BY LifeStep
<1>2. BirthOrder /\ Joined => NoUseAfterFree
  BY Apart DEF BirthOrder, Joined, NoUseAfterFree, Threads
<1> QED
  BY LifeInit, TypeInvariant, <1>1, <1>2, PTL DEF Spec

-----------------------------------------------------------------------------
(* Frames of the steps, with the one processing thread s *)

\* The listener, main, the clock and the clients leave queues, transactions and
\* handlers alone: they start threads, or the process ends.
LEMMA Elsewhere ==
  ASSUME NEW s, Servers = {s}, TypeInv, BirthOrder,
         ListenerStep \/ MainStep \/ Tick \/ (\E c \in Clients : ClientStep(c)) \/ UNCHANGED vars
  PROVE  /\ UNCHANGED <<time_to_die, queues, serving, handling, history>>
         /\ \/ \A th \in {s} \cup Workers : pc'[th] = "exited"
            \/ /\ pc'[s] = pc[s] \/ (pc[s] = "unborn" /\ pc'[s] = "top")
               /\ \A w \in Workers : pc'[w] = pc[w] \/ (pc[w] = "unborn" /\ pc'[w] = "idle")
<1> USE Apart
<1> TypeOK /\ pc \in [Threads -> Labels] /\ s \in Servers
  BY DEF TypeInv, TypeOK
<1>1. CASE ListenerInit
  <2>1. \A w \in Workers : pc[w] = "unborn"
    BY <1>1 DEF ListenerInit, BirthOrder
  <2>2. pc'[s] = pc[s] /\ \A w \in Workers : pc'[w] = pc[w] \/ pc'[w] = "idle"
    BY <1>1 DEF ListenerInit, Goto
  <2>3. UNCHANGED <<time_to_die, queues, serving, handling, history>>
    BY <1>1 DEF ListenerInit, flags
  <2> QED
    BY <2>1, <2>2, <2>3
<1>2. CASE ListenerLeave \/ ListenerDestroy \/ MainJoin
  <2>1. UNCHANGED <<time_to_die, queues, serving, handling, history>>
    BY <1>2 DEF ListenerLeave, ListenerDestroy, MainJoin, Join, flags
  <2>2. \E th \in {Listener, Main} : \E l : Goto(th, l)
    BY <1>2 DEF ListenerLeave, ListenerDestroy, MainJoin, Join
  <2>3. pc'[s] = pc[s] /\ \A w \in Workers : pc'[w] = pc[w]
    BY <2>2 DEF Goto
  <2> QED
    BY <2>1, <2>3
<1>3. CASE MainSpawn
  <2>1. CASE Spawn("spawnServers", Servers, "top", "spawnUpdaters")
    <3>1. "top" \in Labels /\ "spawnUpdaters" \in Labels
      BY DEF Labels
    <3>2. /\ UNCHANGED <<flags, queues, serving, pool, handling, clients, history>>
          /\ pc[Main] = "spawnServers"
          /\ pc'[s] = pc[s] \/ pc'[s] = "top"
          /\ \A w \in Workers : pc'[w] = pc[w]
      BY <2>1, <3>1, SpawnMoves
    <3>3. pc[s] = "unborn"
      BY <3>2 DEF BirthOrder
    <3> QED
      BY <3>2, <3>3 DEF flags
  <2>2. ASSUME NEW at, NEW group, NEW l \in {"setup", "start"}, NEW next \in {"spawnListener", "joinListener"},
               Spawn(at, group, l, next), group \cap (Servers \cup Workers) = {}
        PROVE  /\ UNCHANGED <<flags, queues, serving, pool, handling, clients, history>>
               /\ \A th \in {s} \cup Workers : pc'[th] = pc[th]
    <3>1. l \in Labels /\ next \in Labels
      BY DEF Labels
    <3> QED
      BY <2>2, <3>1, SpawnMoves
  <2>3. CASE Spawn("spawnUpdaters", Updaters, "setup", "spawnListener")
    BY <2>2, <2>3 DEF flags
  <2>4. CASE Spawn("spawnListener", {Listener}, "start", "joinListener")
    <3>1. {Listener} \cap (Servers \cup Workers) = {}
      OBVIOUS
    <3> QED
      BY <2>2, <2>4, <3>1 DEF flags
  <2> QED
    BY <1>3, <2>1, <2>3, <2>4 DEF MainSpawn
<1>4. CASE MainReturn
  <2>1. \A th \in {s} \cup Workers : pc'[th] = "exited"
    BY <1>4 DEF MainReturn
  <2> QED
    BY <1>4, <2>1 DEF MainReturn, flags
<1>5. CASE Tick \/ (\E c \in Clients : ClientStep(c) \/ ListenerAccept(c)) \/ UNCHANGED vars
  BY <1>5 DEF Tick, ClientStep, ClientConnect, ClientSend, ClientHangUp, ListenerAccept, vars, flags
<1> QED
  BY <1>1, <1>2, <1>3, <1>4, <1>5 DEF ListenerStep, MainStep

\* An updater touches the system queue only, by appending to it.
LEMMA UpdaterFrame ==
  ASSUME TypeInv, NEW u \in Updaters, UpdaterStep(u)
  PROVE  /\ UNCHANGED <<flags, userTxnQueue, serving, pool, handling, clients, history>>
         /\ \A o \in Servers \cup Workers : pc'[o] = pc[o]
         /\ Len(sysTxnQueue') >= Len(sysTxnQueue)
<1>1. \A o \in Servers \cup Workers : pc'[o] = pc[o]
  BY ThreadMoves, Apart DEF Moves
<1>2. UNCHANGED <<flags, userTxnQueue, serving, pool, handling, clients, history>>
  BY DEF UpdaterStep, UpdaterSetup, UpdaterCreate, UpdaterNothingToDo, UpdaterEnqueue, UpdaterBlock,
         UpdaterFail, UpdaterRelease, UpdaterWake, queues
<1>3. sysTxnQueue \in Seq(Updaters) /\ Len(sysTxnQueue) \in Nat
  BY DEF TypeInv, TypeOK
<1>4. sysTxnQueue' = sysTxnQueue \/ sysTxnQueue' = Append(sysTxnQueue, u)
  BY DEF UpdaterStep, UpdaterSetup, UpdaterCreate, UpdaterNothingToDo, UpdaterEnqueue, UpdaterBlock,
         UpdaterFail, UpdaterRelease, UpdaterWake, queues
<1>5. Len(sysTxnQueue') >= Len(sysTxnQueue)
  BY <1>3, <1>4
<1> QED
  BY <1>1, <1>2, <1>5

\* A pool thread never touches the system queue, the flags or what processing
\* threads keep, and appends to the user queue in HandlerEnqueue only.
LEMMA WorkerFrame ==
  ASSUME TypeInv, NEW w \in Workers, WorkerStep(w)
  PROVE  /\ UNCHANGED <<flags, sysTxnQueue, serving, threads_keepalive, committed, sent>>
         /\ \A o \in Servers \cup Workers : o # w => pc'[o] = pc[o]
         /\ userTxnQueue' = userTxnQueue \/ HandlerEnqueue(w)
<1>1. \A o \in Servers \cup Workers : o # w => pc'[o] = pc[o]
  BY ThreadMoves, Apart DEF Moves
<1>2. /\ UNCHANGED <<flags, sysTxnQueue, serving, threads_keepalive, committed, sent>>
      /\ userTxnQueue' = userTxnQueue \/ HandlerEnqueue(w)
  BY DEF WorkerStep, WorkerPull, WorkerExit, HandlerTop, HandlerRead, HandlerReadError,
         HandlerAdmit, HandlerEnqueue, HandlerBlock, HandlerFail, HandlerPoll, HandlerReadRc,
         HandlerReply, queues, pool, clients, history
<1> QED
  BY <1>1, <1>2

-----------------------------------------------------------------------------
(* The processing thread never sleeps *)

LEMMA ReadsHoldStep ==
  ASSUME NEW s, Servers = {s}
  PROVE  TypeInv /\ BirthOrder /\ ReadsHold(s) /\ [Next]_vars => ReadsHold(s)'
<1> SUFFICES ASSUME TypeInv, BirthOrder, ReadsHold(s), [Next]_vars PROVE ReadsHold(s)'
  OBVIOUS
<1> USE Apart
<1> TypeOK /\ pc \in [Threads -> Labels] /\ s \in Servers /\ s \in Threads
  BY DEF TypeInv, TypeOK
<1> sysTxnQueue \in Seq(Updaters) /\ userTxnQueue \in Seq(Entries)
  BY DEF TypeOK
<1> num_txn_to_dequeue \in [Servers -> 0 .. QueueSize] /\ Len(sysTxnQueue) \in Nat
  BY DEF TypeOK
<1>1. CASE ServerSnapshot(s)
  BY <1>1 DEF ServerSnapshot, Goto, ReadsHold, queues
<1>2. CASE ServerDequeueSys(s)
  <2>1. /\ pc[s] = "sys" /\ pc'[s] = "sys"
        /\ num_txn_to_dequeue'[s] = num_txn_to_dequeue[s] - 1
        /\ sysTxnQueue # << >> /\ sysTxnQueue' = Tail(sysTxnQueue)
    BY <1>2 DEF ServerDequeueSys, Passes, Goto, ReadsHold
  <2>2. Len(sysTxnQueue') = Len(sysTxnQueue) - 1
    BY <2>1
  <2> QED
    BY <2>1, <2>2 DEF ReadsHold
<1>3. CASE ServerBlock(s)
  BY <1>3 DEF ServerBlock, ReadsHold
<1>4. CASE ServerUserCheck(s)
  BY <1>4 DEF ServerUserCheck, Goto, ReadsHold, queues
<1>5. ASSUME pc'[s] \notin {"sys", "user", "sysWait", "userWait"} PROVE ReadsHold(s)'
  BY <1>5 DEF ReadsHold
<1>6. CASE ServerTop(s) \/ ServerSysDone(s) \/ ServerDequeueUser(s) \/ ServerFail(s)
            \/ (\E rc \in Codes : ServerExecute(s, rc)) \/ ServerSetRc(s)
            \/ ServerPacketFreeFails(s) \/ ServerRetryFree(s) \/ ServerSetDone(s) \/ ServerClock(s)
  BY <1>5, <1>6 DEF ServerTop, ServerSysDone, ServerDequeueUser, ServerFail, ServerExecute,
       ServerSetRc, ServerPacketFreeFails, ServerRetryFree, ServerSetDone, ServerClock, Goto
<1>7. CASE \E u \in Updaters : UpdaterStep(u)
  <2>1. /\ UNCHANGED <<userTxnQueue, num_txn_to_dequeue>> /\ pc'[s] = pc[s]
        /\ Len(sysTxnQueue') >= Len(sysTxnQueue)
    BY <1>7, UpdaterFrame DEF serving
  <2>2. TypeOK'
    BY TypeStep DEF TypeInv
  <2> QED
    BY <2>1, <2>2 DEF ReadsHold, TypeOK
<1>8. CASE \E w \in Workers : WorkerStep(w)
  <2>1. PICK w \in Workers : WorkerStep(w)
    BY <1>8
  <2>2. UNCHANGED <<sysTxnQueue, num_txn_to_dequeue>> /\ pc'[s] = pc[s]
    BY <2>1, WorkerFrame DEF serving
  <2>3. userTxnQueue' # << >> \/ userTxnQueue' = userTxnQueue
    <3>1. CASE HandlerEnqueue(w)
      <4>1. PICK e : userTxnQueue' = Append(userTxnQueue, e)
        BY <3>1 DEF HandlerEnqueue
      <4> QED
        BY <4>1
    <3> QED
      BY <2>1, <3>1, WorkerFrame
  <2> QED
    BY <2>2, <2>3 DEF ReadsHold
<1>9. CASE ListenerStep \/ MainStep \/ Tick \/ (\E c \in Clients : ClientStep(c)) \/ UNCHANGED vars
  <2>1. /\ UNCHANGED <<queues, serving>>
        /\ pc'[s] = "exited" \/ pc'[s] = pc[s] \/ pc'[s] = "top"
    BY <1>9, Elsewhere
  <2> QED
    BY <2>1 DEF ReadsHold, queues, serving
<1> QED
  BY <1>1, <1>2, <1>3, <1>4, <1>6, <1>7, <1>8, <1>9 DEF Next, ServerStep

\* With one processing thread (the default) the sizes it reads without the
\* queues' mutexes are safe to act upon: it never sleeps in a dequeue, whatever
\* the other threads do and however large the queues are.
THEOREM ServerStaysAwake ==
  ASSUME NEW s, Servers = {s}
  PROVE  Spec => []ServerNeverBlocks
<1>1. Init => ReadsHold(s)
  BY Apart DEF Init, ReadsHold
<1>2. TypeInv /\ BirthOrder /\ ReadsHold(s) /\ [Next]_vars => ReadsHold(s)'
  BY ReadsHoldStep
<1>3. TypeInv /\ BirthOrder /\ [Next]_vars => BirthOrder'
  BY LifeStep
<1>4. ReadsHold(s) => ServerNeverBlocks
  BY DEF ReadsHold, ServerNeverBlocks
<1> QED
  BY LifeInit, TypeInvariant, <1>1, <1>2, <1>3, <1>4, PTL DEF Spec

-----------------------------------------------------------------------------
(* Entries of the user queue and the stacks they point into *)

LEMMA HeadAndTail ==
  ASSUME NEW S, NEW q \in Seq(S), q # << >>
  PROVE  /\ 1 \in 1 .. Len(q) /\ Head(q) = q[1]
         /\ \A i \in 1 .. Len(Tail(q)) : i + 1 \in 1 .. Len(q) /\ Tail(q)[i] = q[i + 1]
OBVIOUS

LEMMA AppendLast ==
  ASSUME NEW S, NEW q \in Seq(S), NEW e \in S
  PROVE  \A i \in 1 .. Len(Append(q, e)) :
           \/ i \in 1 .. Len(q) /\ Append(q, e)[i] = q[i]
           \/ i = Len(q) + 1 /\ Append(q, e)[i] = e
OBVIOUS

LEMMA EntryTypes ==
  ASSUME TypeInv
  PROVE  /\ \A i \in 1 .. Len(userTxnQueue) :
              userTxnQueue[i].worker \in Workers /\ userTxnQueue[i].request \in Requests
         /\ \A s \in Servers : pc[s] \in Busy =>
              current[s].worker \in Workers /\ current[s].request \in Requests
<1>1. \A i \in 1 .. Len(userTxnQueue) : userTxnQueue[i] \in Entries
  BY DEF TypeInv, TypeOK
<1> QED
  BY <1>1 DEF TypeInv, ServerTypes, Entries

\* Before the end a handler whose transaction is pending stays where it is.
LEMMA PollerStays ==
  ASSUME TypeInv, NEW w \in Workers, WorkerStep(w), ~time_to_die,
         NEW v \in Workers, pc[v] = "poll", ~txn_done[v]
  PROVE  /\ v # w
         /\ pc'[v] = "poll" /\ txn_done'[v] = txn_done[v]
         /\ txn_rc'[v] = txn_rc[v] /\ reqPacket'[v] = reqPacket[v]
<1>1. v # w
  BY DEF WorkerStep, WorkerPull, WorkerExit, HandlerTop, HandlerRead, HandlerReadError,
         HandlerAdmit, HandlerEnqueue, HandlerBlock, HandlerFail, HandlerPoll, HandlerReadRc,
         HandlerReply, Passes, TurnedAway
<1>2. pc'[v] = "poll"
  BY <1>1, WorkerFrame
<1>3. txn_done'[v] = txn_done[v] /\ txn_rc'[v] = txn_rc[v] /\ reqPacket'[v] = reqPacket[v]
  BY <1>1
  DEF WorkerStep, WorkerPull, WorkerExit, HandlerTop, HandlerRead, HandlerReadError,
      HandlerAdmit, HandlerEnqueue, HandlerBlock, HandlerFail, HandlerPoll, HandlerReadRc,
      HandlerReply, handling, TypeInv, TypeOK
<1> QED
  BY <1>1, <1>2, <1>3

LEMMA OwnershipWorker ==
  ASSUME NEW s, Servers = {s}, TypeInv, Ownership(s), NEW w \in Workers, WorkerStep(w)
  PROVE  Ownership(s)'
<1> USE Apart
<1> TypeOK /\ s \in Servers /\ DeathLast(s) /\ FreshVars /\ QueueOwned(s) /\ CurrentOwned(s)
  BY DEF TypeInv, Ownership
<1>1. /\ UNCHANGED <<time_to_die, current>> /\ pc'[s] = pc[s]
      /\ \A v \in Workers : v # w => pc'[v] = pc[v]
      /\ userTxnQueue' = userTxnQueue \/ HandlerEnqueue(w)
  BY WorkerFrame DEF flags, serving
<1>2. DeathLast(s)'
  BY <1>1 DEF DeathLast
<1>3. FreshVars'
  <2>1. CASE HandlerAdmit(w) /\ ~time_to_die
    <3>1. /\ txn_done' = [txn_done EXCEPT ![w] = FALSE]
          /\ txn_rc' = [txn_rc EXCEPT ![w] = "FAIL"]
      BY <2>1 DEF HandlerAdmit
    <3> QED
      BY <1>1, <3>1 DEF FreshVars, TypeOK
  <2>2. CASE ~(HandlerAdmit(w) /\ ~time_to_die)
    <3>1. UNCHANGED <<txn_done, txn_rc>>
      BY <2>2 DEF WorkerStep, WorkerPull, WorkerExit, HandlerTop, HandlerRead, HandlerReadError,
           HandlerAdmit, HandlerEnqueue, HandlerBlock, HandlerFail, HandlerPoll, HandlerReadRc,
           HandlerReply, handling
    <3>2. pc'[w] \in {"enqueue", "enqWait"} => pc[w] = "enqueue"
      BY <2>2 DEF WorkerStep, WorkerPull, WorkerExit, HandlerTop, HandlerRead, HandlerReadError,
           HandlerAdmit, HandlerEnqueue, HandlerBlock, HandlerFail, HandlerPoll, HandlerReadRc,
           HandlerReply, Cleanup, Goto, TypeOK
    <3> QED
      BY <1>1, <3>1, <3>2 DEF FreshVars
  <2> QED
    BY <2>1, <2>2
<1>4. ASSUME pc[s] # "exited", NEW e, Owned(e), e.worker \in Workers
      PROVE  e.worker # w /\ Owned(e)' /\ txn_rc'[e.worker] = txn_rc[e.worker]
  <2>1. /\ e.worker # w /\ pc'[e.worker] = "poll" /\ txn_done'[e.worker] = txn_done[e.worker]
        /\ txn_rc'[e.worker] = txn_rc[e.worker] /\ reqPacket'[e.worker] = reqPacket[e.worker]
    BY <1>4, PollerStays DEF Owned, DeathLast
  <2> QED
    BY <1>4, <2>1 DEF Owned
<1>5. CASE userTxnQueue' = userTxnQueue
  <2>1. QueueOwned(s)'
    BY <1>1, <1>4, <1>5, EntryTypes DEF QueueOwned
  <2>2. CurrentOwned(s)'
    BY <1>1, <1>4, <1>5, EntryTypes DEF CurrentOwned, Busy
  <2> QED
    BY <1>2, <1>3, <2>1, <2>2 DEF Ownership
<1>6. CASE HandlerEnqueue(w)
  <2>0. PICK e : e = [worker |-> w, request |-> reqPacket[w]]
    OBVIOUS
  <2>1. /\ pc[w] \in {"enqueue", "enqWait"} /\ pc'[w] = "poll"
        /\ userTxnQueue' = Append(userTxnQueue, e)
        /\ UNCHANGED <<txn_done, txn_rc, reqPacket>>
    BY <1>6, <2>0 DEF HandlerEnqueue, Passes, Goto, handling, TypeOK
  <2>2. ~txn_done[w] /\ txn_rc[w] = "FAIL" /\ e \in Entries
    BY <2>0, <2>1 DEF FreshVars, TypeInv, HandlerTypes, Entries, Active
  <2>3. Owned(e)' /\ txn_rc'[e.worker] = "FAIL"
    BY <2>0, <2>1, <2>2 DEF Owned
  <2>4. \A i \in 1 .. Len(userTxnQueue') :
          \/ i \in 1 .. Len(userTxnQueue) /\ userTxnQueue'[i] = userTxnQueue[i]
          \/ i = Len(userTxnQueue) + 1 /\ userTxnQueue'[i] = e
    BY <2>1, <2>2, AppendLast DEF TypeOK
  <2>5. e.worker = w
    BY <2>0
  <2>6. QueueOwned(s)'
    <3>1. SUFFICES ASSUME pc[s] # "exited"
                   PROVE  /\ \A i \in 1 .. Len(userTxnQueue') :
                               /\ Owned(userTxnQueue[i])'
                               /\ txn_rc'[userTxnQueue'[i].worker] = "FAIL"
                          /\ \A i, j \in 1 .. Len(userTxnQueue') :
                               userTxnQueue'[i].worker = userTxnQueue'[j].worker => i = j
      BY <1>1 DEF QueueOwned
    <3>2. \A i \in 1 .. Len(userTxnQueue) :
            /\ Owned(userTxnQueue[i])
            /\ userTxnQueue[i].worker \in Workers
            /\ userTxnQueue[i].worker # w
            /\ txn_rc[userTxnQueue[i].worker] = "FAIL"
      BY <1>4, <3>1, EntryTypes DEF QueueOwned
    <3>3. ASSUME NEW i \in 1 .. Len(userTxnQueue')
          PROVE  Owned(userTxnQueue[i])' /\ txn_rc'[userTxnQueue'[i].worker] = "FAIL"
      <4>1. CASE i \in 1 .. Len(userTxnQueue) /\ userTxnQueue'[i] = userTxnQueue[i]
        <5>1. PICK f : f = userTxnQueue[i]
          OBVIOUS
        <5>2. Owned(f)' /\ txn_rc'[f.worker] = "FAIL"
          BY <1>4, <3>1, <3>2, <4>1, <5>1
        <5> QED
          BY <4>1, <5>1, <5>2 DEF Owned
      <4>2. CASE userTxnQueue'[i] = e
        BY <2>3, <4>2 DEF Owned
      <4> QED
        BY <2>4, <4>1, <4>2
    <3>4. \A i, j \in 1 .. Len(userTxnQueue') :
            userTxnQueue'[i].worker = userTxnQueue'[j].worker => i = j
      BY <2>4, <2>5, <3>1, <3>2 DEF QueueOwned
    <3> QED
      BY <3>3, <3>4
  <2>7. CurrentOwned(s)'
    <3>1. SUFFICES ASSUME pc[s] \in Busy
                   PROVE  /\ Owned(current[s])'
                          /\ \A i \in 1 .. Len(userTxnQueue') :
                               userTxnQueue'[i].worker # current[s].worker
                          /\ pc[s] = "exec" => txn_rc'[current[s].worker] = "FAIL"
      BY <1>1 DEF CurrentOwned
    <3>2. current[s].worker \in Workers /\ Owned(current[s]) /\ pc[s] # "exited"
      BY <3>1, EntryTypes DEF CurrentOwned, Busy
    <3>3. PICK f : f = current[s] /\ f = current'[s]
      BY <1>1
    <3>4. f.worker # w /\ Owned(f)' /\ txn_rc'[f.worker] = txn_rc[f.worker]
      BY <1>4, <3>2, <3>3
    <3> QED
      BY <2>4, <2>5, <3>1, <3>3, <3>4 DEF CurrentOwned, Owned
  <2> QED
    BY <1>2, <1>3, <2>6, <2>7 DEF Ownership
<1> QED
  BY <1>1, <1>5, <1>6

\* What each kind of step of s changes.
LEMMA ServerFrame ==
  ASSUME TypeInv, NEW s \in Servers, ServerStep(s) \/ ServerRetryFree(s)
  PROVE  /\ UNCHANGED <<elapsed, pool, socket_fd, reqPacket, resPacket, clients, replied>>
         /\ \A w \in Workers : pc'[w] = pc[w]
         /\ pc[s] # "exited"
<1>1. \A w \in Workers : pc'[w] = pc[w] /\ pc[s] # "exited"
  BY ThreadMoves, Apart DEF Moves
<1>2. pc[s] # "exited"
  BY ThreadMoves, Apart DEF Moves
<1>3. UNCHANGED <<elapsed, pool, socket_fd, reqPacket, resPacket, clients, replied>>
  BY DEF ServerStep, ServerTop, ServerSnapshot, ServerDequeueSys, ServerSysDone,
         ServerUserCheck, ServerDequeueUser, ServerBlock, ServerFail, ServerExecute, ServerSetRc,
         ServerPacketFreeFails, ServerRetryFree, ServerSetDone, ServerClock, flags, handling,
         history
<1> QED
  BY <1>1, <1>2, <1>3

\* The steps of s outside processUserTransaction.
RoundStep(s) ==
  \/ ServerTop(s) \/ ServerSnapshot(s) \/ ServerDequeueSys(s) \/ ServerSysDone(s)
  \/ ServerUserCheck(s) \/ ServerBlock(s) \/ ServerFail(s) \/ ServerClock(s)

LEMMA RoundFrame ==
  ASSUME TypeInv, NEW s \in Servers, RoundStep(s)
  PROVE  /\ UNCHANGED <<userTxnQueue, current, result, handling, history>>
         /\ pc'[s] \notin Busy
         /\ DeathLast(s) => DeathLast(s)'
<1> USE Apart
<1>1. UNCHANGED <<userTxnQueue, current, result, handling, history>>
  BY DEF RoundStep, ServerTop, ServerSnapshot, ServerDequeueSys, ServerSysDone, ServerUserCheck,
         ServerBlock, ServerFail, ServerClock, queues, serving
<1>2. PICK l : Goto(s, l) /\ l \notin Busy
  BY DEF RoundStep, ServerTop, ServerSnapshot, ServerDequeueSys, ServerSysDone, ServerUserCheck,
         ServerBlock, ServerFail, ServerClock, Busy
<1>3. pc'[s] \notin Busy
  BY <1>2 DEF Goto, TypeInv, TypeOK
<1>4. DeathLast(s) => DeathLast(s)'
  <2> SUFFICES ASSUME DeathLast(s) PROVE DeathLast(s)'
    OBVIOUS
  <2>1. ~time_to_die
    BY ServerFrame DEF DeathLast, RoundStep, ServerStep
  <2>2. CASE ServerClock(s)
    <3>1. pc'[s] = IF elapsed = 2 THEN "exited" ELSE "top"
      BY <2>2 DEF ServerClock, Goto, TypeInv, TypeOK
    <3> QED
      BY <2>1, <2>2, <3>1 DEF ServerClock, DeathLast
  <2>3. CASE ~ServerClock(s)
    <3>1. UNCHANGED time_to_die
      BY <2>3 DEF RoundStep, ServerTop, ServerSnapshot, ServerDequeueSys, ServerSysDone,
           ServerUserCheck, ServerBlock, ServerFail, flags
    <3> QED
      BY <2>1, <3>1 DEF DeathLast
  <2> QED
    BY <2>2, <2>3
<1> QED
  BY <1>1, <1>3, <1>4

LEMMA OwnershipServer ==
  ASSUME NEW s, Servers = {s}, TypeInv, Ownership(s), ServerStep(s) \/ ServerRetryFree(s)
  PROVE  Ownership(s)'
<1> USE Apart
<1> TypeOK /\ s \in Servers /\ s \in Threads
  BY DEF TypeInv
<1> DeathLast(s) /\ FreshVars /\ QueueOwned(s) /\ CurrentOwned(s)
  BY DEF Ownership
<1>1. /\ UNCHANGED reqPacket
      /\ \A w \in Workers : pc'[w] = pc[w]
      /\ pc[s] # "exited" /\ ~time_to_die
  BY ServerFrame DEF DeathLast
<1>2. \A i \in 1 .. Len(userTxnQueue) :
        Owned(userTxnQueue[i]) /\ txn_rc[userTxnQueue[i].worker] = "FAIL"
  BY <1>1 DEF QueueOwned
<1>3. \A i, j \in 1 .. Len(userTxnQueue) :
        userTxnQueue[i].worker = userTxnQueue[j].worker => i = j
  BY <1>1 DEF QueueOwned
<1>4. \A i \in 1 .. Len(userTxnQueue) : userTxnQueue[i].worker \in Workers
  BY EntryTypes
<1>5. ASSUME NEW e, Owned(e), e.worker \in Workers,
             txn_done'[e.worker] = txn_done[e.worker]
      PROVE  Owned(e)'
  BY <1>1, <1>5 DEF Owned
<1>6. CASE RoundStep(s)
  <2>1. /\ UNCHANGED <<userTxnQueue, txn_done, txn_rc>> /\ pc'[s] \notin Busy /\ DeathLast(s)'
    BY <1>6, RoundFrame DEF handling
  <2>2. FreshVars'
    BY <1>1, <2>1 DEF FreshVars
  <2>3. QueueOwned(s)'
    BY <1>2, <1>3, <1>4, <1>5, <2>1 DEF QueueOwned
  <2>4. CurrentOwned(s)'
    BY <2>1 DEF CurrentOwned
  <2> QED
    BY <2>1, <2>2, <2>3, <2>4 DEF Ownership
<1>7. CASE ServerDequeueUser(s)
  <2>1. /\ userTxnQueue # << >> /\ userTxnQueue' = Tail(userTxnQueue)
        /\ current'[s] = Head(userTxnQueue) /\ pc'[s] = "exec"
        /\ UNCHANGED <<time_to_die, txn_done, txn_rc>>
    BY <1>7 DEF ServerDequeueUser, Goto, flags, handling, TypeOK
  <2>2. /\ 1 \in 1 .. Len(userTxnQueue) /\ current'[s] = userTxnQueue[1]
        /\ \A i \in 1 .. Len(userTxnQueue') :
             i + 1 \in 1 .. Len(userTxnQueue) /\ userTxnQueue'[i] = userTxnQueue[i + 1]
    BY <2>1, HeadAndTail DEF TypeOK
  <2>3. DeathLast(s)' /\ FreshVars'
    BY <1>1, <2>1 DEF DeathLast, FreshVars
  <2>4. \A i \in 1 .. Len(userTxnQueue) : Owned(userTxnQueue[i])
          /\ pc'[userTxnQueue[i].worker] = "poll" /\ ~txn_done'[userTxnQueue[i].worker]
          /\ reqPacket'[userTxnQueue[i].worker] = userTxnQueue[i].request
          /\ txn_rc'[userTxnQueue[i].worker] = "FAIL"
    BY <1>1, <1>2, <1>4, <2>1 DEF Owned
  <2>5. QueueOwned(s)'
    <3>1. \A i \in 1 .. Len(userTxnQueue') :
            Owned(userTxnQueue[i])' /\ txn_rc'[userTxnQueue'[i].worker] = "FAIL"
      BY <2>2, <2>4 DEF Owned
    <3>2. \A i, j \in 1 .. Len(userTxnQueue') :
            userTxnQueue'[i].worker = userTxnQueue'[j].worker => i = j
      BY <1>3, <2>2
    <3> QED
      BY <3>1, <3>2 DEF QueueOwned
  <2>6. CurrentOwned(s)'
    <3>1. Owned(current[s])' /\ txn_rc'[current'[s].worker] = "FAIL"
      BY <2>2, <2>4 DEF Owned
    <3>2. \A i \in 1 .. Len(userTxnQueue') : userTxnQueue'[i].worker # current'[s].worker
      BY <1>3, <2>2
    <3> QED
      BY <3>1, <3>2 DEF CurrentOwned
  <2> QED
    BY <2>3, <2>5, <2>6 DEF Ownership
<1>8. CASE \/ \E rc \in Codes : ServerExecute(s, rc)
           \/ ServerSetRc(s) \/ ServerPacketFreeFails(s) \/ ServerRetryFree(s)
           \/ ServerSetDone(s)
  <2>1. /\ pc[s] \in Busy /\ pc'[s] \notin {"exec", "exited"}
        /\ UNCHANGED <<time_to_die, userTxnQueue, current>>
    BY <1>8 DEF ServerExecute, ServerSetRc, ServerPacketFreeFails, ServerRetryFree, ServerSetDone,
         Goto, flags, queues, serving, Busy, TypeOK
  <2>2. PICK e : e = current[s] /\ e = current'[s]
    BY <2>1
  <2>3. /\ e.worker \in Workers /\ Owned(e)
        /\ \A i \in 1 .. Len(userTxnQueue) : userTxnQueue[i].worker # e.worker
    BY <2>1, <2>2, EntryTypes DEF CurrentOwned
  <2>4. /\ \A w \in Workers : w # e.worker => txn_rc'[w] = txn_rc[w] /\ txn_done'[w] = txn_done[w]
        /\ pc'[s] \in Busy => txn_done'[e.worker] = txn_done[e.worker]
    <3>1. CASE ServerSetDone(s)
      BY <2>2, <2>3, <3>1 DEF ServerSetDone, Goto, Busy, TypeOK
    <3>2. CASE ServerSetRc(s) \/ ServerPacketFreeFails(s)
      BY <2>2, <2>3, <3>2 DEF ServerSetRc, ServerPacketFreeFails, TypeOK
    <3>3. CASE (\E rc \in Codes : ServerExecute(s, rc)) \/ ServerRetryFree(s)
      BY <3>3 DEF ServerExecute, ServerRetryFree, handling
    <3> QED
      BY <1>8, <3>1, <3>2, <3>3
  <2>5. DeathLast(s)'
    BY <1>1, <2>1 DEF DeathLast
  <2>6. FreshVars'
    BY <1>1, <2>3, <2>4 DEF FreshVars, Owned
  <2>7. QueueOwned(s)'
    BY <1>2, <1>3, <1>4, <1>5, <2>1, <2>3, <2>4 DEF QueueOwned
  <2>8. CurrentOwned(s)'
    <3>1. pc'[s] \in Busy => Owned(e)'
      BY <1>5, <2>3, <2>4
    <3>2. pc'[s] \in Busy => Owned(current[s])'
      BY <2>2, <3>1 DEF Owned
    <3> QED
      BY <2>1, <2>2, <2>3, <3>2 DEF CurrentOwned
  <2> QED
    BY <2>5, <2>6, <2>7, <2>8 DEF Ownership
<1> QED
  BY <1>6, <1>7, <1>8 DEF ServerStep, RoundStep

LEMMA OwnershipElsewhere ==
  ASSUME NEW s, Servers = {s}, TypeInv, BirthOrder, Ownership(s),
         \/ \E u \in Updaters : UpdaterStep(u)
         \/ ListenerStep \/ MainStep \/ Tick \/ (\E c \in Clients : ClientStep(c)) \/ UNCHANGED vars
  PROVE  Ownership(s)'
<1> s \in Servers /\ DeathLast(s) /\ FreshVars /\ QueueOwned(s) /\ CurrentOwned(s)
  BY DEF Ownership
<1>1. UNCHANGED <<time_to_die, userTxnQueue, current, reqPacket, txn_done, txn_rc>>
  BY UpdaterFrame, Elsewhere DEF flags, queues, serving, handling
<1>2. CASE \A th \in {s} \cup Workers : pc'[th] = "exited"
  BY <1>2 DEF Ownership, DeathLast, FreshVars, QueueOwned, CurrentOwned, Busy
<1>3. CASE /\ pc'[s] = pc[s] \/ (pc[s] = "unborn" /\ pc'[s] = "top")
           /\ \A w \in Workers : pc'[w] = pc[w] \/ (pc[w] = "unborn" /\ pc'[w] = "idle")
  <2>1. DeathLast(s)' /\ FreshVars'
    BY <1>1, <1>3 DEF DeathLast, FreshVars
  <2>2. \A w \in Workers : pc[w] = "poll" => pc'[w] = "poll"
    BY <1>3
  <2>3. QueueOwned(s)'
    BY <1>1, <1>3, <2>2, EntryTypes DEF QueueOwned, Owned
  <2>4. CurrentOwned(s)'
    BY <1>1, <1>3, <2>2, EntryTypes DEF CurrentOwned, Owned, Busy
  <2> QED
    BY <2>1, <2>3, <2>4 DEF Ownership
<1>4. \/ \A th \in {s} \cup Workers : pc'[th] = "exited"
      \/ /\ pc'[s] = pc[s] \/ (pc[s] = "unborn" /\ pc'[s] = "top")
         /\ \A w \in Workers : pc'[w] = pc[w] \/ (pc[w] = "unborn" /\ pc'[w] = "idle")
  BY UpdaterFrame, Elsewhere
<1> QED
  BY <1>2, <1>3, <1>4

LEMMA OwnershipStep ==
  ASSUME NEW s, Servers = {s}
  PROVE  TypeInv /\ BirthOrder /\ Ownership(s) /\ [Next]_vars => Ownership(s)'
BY OwnershipWorker, OwnershipServer, OwnershipElsewhere DEF Next

LEMMA OwnershipInvariant ==
  ASSUME NEW s, Servers = {s}
  PROVE  Spec => [](TypeInv /\ BirthOrder /\ Ownership(s))
<1>1. Init => Ownership(s)
  <2> SUFFICES ASSUME Init PROVE Ownership(s)
    OBVIOUS
  <2>1. ~time_to_die /\ userTxnQueue = << >>
    BY DEF Init
  <2>2. pc[s] = "unborn" /\ \A w \in Workers : pc[w] = "unborn"
    BY Apart DEF Init
  <2> QED
    BY <2>1, <2>2 DEF Ownership, DeathLast, FreshVars, QueueOwned, CurrentOwned, Busy
<1>2. TypeInv /\ BirthOrder /\ Ownership(s) /\ [Next]_vars => Ownership(s)'
  BY OwnershipStep
<1>3. TypeInv /\ BirthOrder /\ [Next]_vars => BirthOrder'
  BY LifeStep
<1> QED
  BY LifeInit, TypeInvariant, <1>1, <1>2, <1>3, PTL DEF Spec

\* With one processing thread (the default) every write through txn_done and
\* txn_rc hits the stack frame of a dispatchTableFn that still waits with the
\* very request: only that thread can end the experiment, and it does so
\* between two transactions.  This holds also when main fails half way.
THEOREM PointersAlive ==
  ASSUME NEW s, Servers = {s}
  PROVE  Spec => []NoDanglingWrite
<1>1. TypeInv /\ Ownership(s) => NoDanglingWrite
  BY DEF Ownership, CurrentOwned, Owned, NoDanglingWrite, Busy
<1> QED
  BY OwnershipInvariant, <1>1, PTL

-----------------------------------------------------------------------------
(* Connections belong to one handler at a time *)

LEMMA ConnectionsKept ==
  ASSUME Connections, UNCHANGED <<jobs, sock, socket_fd>>
  PROVE  Connections'
BY DEF Connections

LEMMA ConnectionsWorker ==
  ASSUME TypeInv, Connections, NEW w \in Workers, WorkerStep(w)
  PROVE  Connections'
<1> TypeOK
  BY DEF TypeInv
<1>1. CASE WorkerPull(w)
  <2>1. /\ jobs # << >> /\ jobs' = Tail(jobs) /\ UNCHANGED sock
        /\ socket_fd'[w] = Head(jobs)
        /\ \A v \in Workers : v # w => socket_fd'[v] = socket_fd[v]
    BY <1>1 DEF WorkerPull, clients, TypeOK
  <2>2. /\ 1 \in 1 .. Len(jobs) /\ socket_fd'[w] = jobs[1] /\ jobs[1] \in Clients
        /\ \A i \in 1 .. Len(jobs') : i + 1 \in 1 .. Len(jobs) /\ jobs'[i] = jobs[i + 1]
    BY <2>1, HeadAndTail DEF TypeOK
  <2>3. /\ \A i \in 1 .. Len(jobs') : sock'[jobs'[i]] \notin {"out", "backlog"}
        /\ \A i, j \in 1 .. Len(jobs') : jobs'[i] = jobs'[j] => i = j
    BY <2>1, <2>2 DEF Connections
  <2>4. ASSUME NEW v \in Workers, socket_fd'[v] \in Clients
        PROVE  /\ sock'[socket_fd'[v]] \notin {"out", "backlog"}
               /\ \A i \in 1 .. Len(jobs') : jobs'[i] # socket_fd'[v]
               /\ \A x \in Workers : socket_fd'[x] = socket_fd'[v] => x = v
    <3>1. CASE v = w
      BY <2>1, <2>2, <3>1 DEF Connections
    <3>2. CASE v # w
      BY <2>1, <2>2, <2>4, <3>2 DEF Connections
    <3> QED
      BY <3>1, <3>2
  <2> QED
    BY <2>3, <2>4 DEF Connections
<1>2. CASE Cleanup(w) /\ UNCHANGED jobs /\ socket_fd[w] \in Clients
  <2>1. /\ \A c \in Clients : sock'[c] = sock[c] \/ sock'[c] = "closed"
        /\ socket_fd'[w] = NoClient
        /\ \A v \in Workers : v # w => socket_fd'[v] = socket_fd[v]
    BY <1>2 DEF Cleanup, TypeOK
  <2>2. \A i \in 1 .. Len(jobs) : jobs[i] \in Clients
    BY DEF TypeOK
  <2>3. /\ \A i \in 1 .. Len(jobs') : sock'[jobs'[i]] \notin {"out", "backlog"}
        /\ \A i, j \in 1 .. Len(jobs') : jobs'[i] = jobs'[j] => i = j
    BY <1>2, <2>1, <2>2 DEF Connections
  <2>4. ASSUME NEW v \in Workers, socket_fd'[v] \in Clients
        PROVE  /\ v # w
               /\ sock'[socket_fd'[v]] \notin {"out", "backlog"}
               /\ \A i \in 1 .. Len(jobs') : jobs'[i] # socket_fd'[v]
               /\ \A x \in Workers : socket_fd'[x] = socket_fd'[v] => x = v
    BY <1>2, <2>1, <2>4, Apart DEF Connections
  <2> QED
    BY <2>3, <2>4 DEF Connections
<1>3. CASE ~WorkerPull(w) /\ ~Cleanup(w)
  <2>1. UNCHANGED <<jobs, sock, socket_fd>>
    BY <1>3 DEF WorkerStep, WorkerExit, HandlerTop, HandlerRead, HandlerReadError,
         HandlerAdmit, HandlerEnqueue, HandlerBlock, HandlerFail, HandlerPoll, HandlerReadRc,
         HandlerReply, pool, clients, handling
  <2> QED
    BY <2>1, ConnectionsKept
<1>4. Cleanup(w) /\ ~WorkerPull(w) => UNCHANGED jobs /\ socket_fd[w] \in Clients
  <2> SUFFICES ASSUME Cleanup(w), ~WorkerPull(w) PROVE UNCHANGED jobs /\ socket_fd[w] \in Clients
    OBVIOUS
  <2>1. UNCHANGED jobs
    BY DEF WorkerStep, WorkerExit, HandlerTop, HandlerRead, HandlerReadError,
         HandlerAdmit, HandlerEnqueue, HandlerBlock, HandlerFail, HandlerPoll, HandlerReadRc,
         HandlerReply, pool
  <2>2. pc'[w] = "idle"
    BY Apart DEF Cleanup, Goto, TypeOK
  <2>3. pc[w] \in {"top", "read"} \cup Active
    BY <2>2, Apart DEF WorkerStep, WorkerExit, HandlerTop, HandlerRead, HandlerReadError,
         HandlerAdmit, HandlerEnqueue, HandlerBlock, HandlerFail, HandlerPoll, HandlerReadRc,
         HandlerReply, Passes, TurnedAway, Active, Goto, TypeOK
  <2> QED
    BY <2>1, <2>3 DEF TypeInv, HandlerTypes
<1> QED
  BY <1>1, <1>2, <1>3, <1>4

LEMMA ConnectionsAccept ==
  ASSUME TypeInv, Connections, NEW c \in Clients, ListenerAccept(c)
  PROVE  Connections'
<1> TypeOK
  BY DEF TypeInv
<1>1. /\ sock[c] = "backlog" /\ sock'[c] = "open"
      /\ \A d \in Clients : d # c => sock'[d] = sock[d]
      /\ jobs' = Append(jobs, c) /\ UNCHANGED socket_fd
  BY DEF ListenerAccept, handling, TypeOK
<1>2. \A i \in 1 .. Len(jobs') : \/ i \in 1 .. Len(jobs) /\ jobs'[i] = jobs[i]
                                 \/ i = Len(jobs) + 1 /\ jobs'[i] = c
  BY <1>1, AppendLast DEF TypeOK
<1>3. \A i \in 1 .. Len(jobs) : jobs[i] \in Clients /\ jobs[i] # c
  BY <1>1 DEF Connections, TypeOK
<1>4. /\ \A i \in 1 .. Len(jobs') : sock'[jobs'[i]] \notin {"out", "backlog"}
      /\ \A i, j \in 1 .. Len(jobs') : jobs'[i] = jobs'[j] => i = j
  BY <1>1, <1>2, <1>3 DEF Connections
<1>5. ASSUME NEW v \in Workers, socket_fd'[v] \in Clients
      PROVE  /\ sock'[socket_fd'[v]] \notin {"out", "backlog"}
             /\ \A i \in 1 .. Len(jobs') : jobs'[i] # socket_fd'[v]
             /\ \A x \in Workers : socket_fd'[x] = socket_fd'[v] => x = v
  BY <1>1, <1>2, <1>3, <1>5 DEF Connections
<1> QED
  BY <1>4, <1>5 DEF Connections

LEMMA ConnectionsStep == TypeInv /\ Connections /\ [Next]_vars => Connections'
<1> SUFFICES ASSUME TypeInv, Connections, [Next]_vars PROVE Connections'
  OBVIOUS
<1> TypeOK
  BY DEF TypeInv
<1>1. CASE \E s \in Servers : ServerStep(s) \/ ServerRetryFree(s)
  BY <1>1, ServerFrame, ConnectionsKept DEF pool, clients
<1>2. CASE \E u \in Updaters : UpdaterStep(u)
  BY <1>2, UpdaterFrame, ConnectionsKept DEF pool, clients, handling
<1>3. CASE ListenerDestroy
  <2>1. jobs' = << >> /\ UNCHANGED <<sock, socket_fd>>
    BY <1>3 DEF ListenerDestroy, clients, handling
  <2> QED
    BY <2>1 DEF Connections
<1>4. CASE ListenerInit \/ ListenerLeave \/ MainStep \/ Tick \/ UNCHANGED vars
            \/ (\E c \in Clients : ClientSend(c))
  <2>1. UNCHANGED <<jobs, sock, socket_fd>>
    BY <1>4 DEF ListenerInit, ListenerLeave, MainStep, MainSpawn, Spawn, MainJoin, Join, MainReturn,
         Tick, ClientSend, vars, pool, clients, handling
  <2> QED
    BY <2>1, ConnectionsKept
<1>5. ASSUME NEW c \in Clients, ClientConnect(c) \/ ClientHangUp(c) PROVE Connections'
  <2>1. /\ sock[c] \in {"out", "backlog", "open"} /\ UNCHANGED <<jobs, socket_fd>>
        /\ \A d \in Clients : d # c => sock'[d] = sock[d]
        /\ sock[c] = "open" => sock'[c] \in {"eof", "reset"}
    BY <1>5 DEF ClientConnect, ClientHangUp, pool, handling, TypeOK
  <2>2. \A i \in 1 .. Len(jobs) : jobs[i] \in Clients
    BY DEF TypeOK
  <2>3. \A d \in Clients : sock[d] \notin {"out", "backlog"} => sock'[d] \notin {"out", "backlog"}
    BY <2>1
  <2> QED
    BY <2>1, <2>2, <2>3 DEF Connections
<1> QED
  BY <1>1, <1>2, <1>3, <1>4, <1>5, ConnectionsWorker, ConnectionsAccept
  DEF Next, ListenerStep, ClientStep

-----------------------------------------------------------------------------
(* What the clients are told *)

\* Everything the answers depend on.
Accounts(s) == Connections /\ Latest /\ Unread /\ Outcomes(s) /\ TruthfulReplies

\* Two handlers never work on the same request, nor on one that is unread.
LEMMA OneHandlerEach ==
  ASSUME TypeInv, Connections, Latest, NEW w \in Workers, pc[w] \in Active
  PROVE  /\ \A v \in Workers \ {w} : pc[v] \in Active => reqPacket[v] # reqPacket[w]
         /\ \A c \in Clients, n \in 1 .. MaxRequests :
              n > sent[c] \/ (n = sent[c] /\ inbox[c]) => <<c, n>> # reqPacket[w]
<1>1. /\ socket_fd[w] \in Clients /\ reqPacket[w] = <<socket_fd[w], sent[socket_fd[w]]>>
      /\ ~inbox[socket_fd[w]]
  BY DEF TypeInv, HandlerTypes, Latest
<1>2. ASSUME NEW v \in Workers \ {w}, pc[v] \in Active PROVE reqPacket[v] # reqPacket[w]
  <2>1. /\ socket_fd[v] \in Clients /\ reqPacket[v] = <<socket_fd[v], sent[socket_fd[v]]>>
    BY <1>2 DEF TypeInv, HandlerTypes, Latest
  <2> QED
    BY <1>1, <2>1 DEF Connections
<1>3. ASSUME NEW c \in Clients, NEW n \in 1 .. MaxRequests,
             n > sent[c] \/ (n = sent[c] /\ inbox[c]), <<c, n>> = reqPacket[w]
      PROVE  FALSE
  <2>1. c = socket_fd[w] /\ n = sent[c]
    BY <1>1, <1>3
  <2> QED
    BY <1>1, <1>3, <2>1 DEF TypeInv, TypeOK
<1> QED
  BY <1>2, <1>3

\* A pool thread touches its own stack frame only.
LEMMA OwnFrame ==
  ASSUME TypeInv, NEW w \in Workers, WorkerStep(w), NEW v \in Workers, v # w
  PROVE  /\ pc'[v] = pc[v] /\ socket_fd'[v] = socket_fd[v] /\ reqPacket'[v] = reqPacket[v]
         /\ txn_rc'[v] = txn_rc[v] /\ resPacket'[v] = resPacket[v]
<1>1. pc'[v] = pc[v]
  BY WorkerFrame
<1>2. /\ socket_fd'[v] = socket_fd[v] /\ reqPacket'[v] = reqPacket[v]
      /\ txn_rc'[v] = txn_rc[v] /\ resPacket'[v] = resPacket[v]
  BY DEF WorkerStep, WorkerPull, WorkerExit, HandlerTop, HandlerRead, HandlerReadError,
      HandlerAdmit, HandlerEnqueue, HandlerBlock, HandlerFail, HandlerPoll, HandlerReadRc,
      HandlerReply, Cleanup, handling, TypeInv, TypeOK
<1> QED
  BY <1>1, <1>2

\* A handler that is not at "reply" writes no answer.
LEMMA NoAnswer ==
  ASSUME TypeInv, NEW w \in Workers, WorkerStep(w), ~HandlerReply(w)
  PROVE  UNCHANGED replied
BY DEF WorkerStep, WorkerPull, WorkerExit, HandlerTop, HandlerRead, HandlerReadError,
   HandlerAdmit, HandlerEnqueue, HandlerBlock, HandlerFail, HandlerPoll, HandlerReadRc,
   HandlerReply, history

LEMMA AccountsRead ==
  ASSUME NEW s, Servers = {s}, TypeInv, Accounts(s), NEW w \in Workers, HandlerRead(w)
  PROVE  Latest' /\ Unread' /\ Outcomes(s)' /\ TruthfulReplies'
<1> USE Apart
<1> TypeOK /\ WorkerStep(w) /\ s \in Servers
  BY DEF TypeInv, WorkerStep
<1> Connections /\ Latest /\ Unread /\ Outcomes(s) /\ TruthfulReplies
  BY DEF Accounts
<1>1. PICK c : c = socket_fd[w]
  OBVIOUS
<1>2. /\ c \in Clients /\ inbox[c] /\ sent[c] \in 1 .. MaxRequests
  BY <1>1 DEF HandlerRead, TypeInv, HandlerTypes, InboxTypes, TypeOK
<1>3. /\ pc'[w] = "admit" /\ socket_fd'[w] = c
      /\ reqPacket'[w] = <<c, sent[c]>>
      /\ UNCHANGED <<sent, replied, committed, serving>> /\ pc'[s] = pc[s]
      /\ pc[w] = "read"
  BY <1>1, WorkerFrame DEF HandlerRead, Goto, TypeOK, history
<1>4. /\ ~inbox'[c]
      /\ \A d \in Clients : inbox'[d] => inbox[d]
  BY <1>1, <1>2 DEF HandlerRead, TypeOK
<1>5. replied[<<c, sent[c]>>] = "none" /\ <<c, sent[c]>> \notin committed
  BY <1>2 DEF Unread
<1>6. Latest'
  <2>1. ASSUME NEW v \in Workers, pc'[v] \in Active
        PROVE  /\ reqPacket'[v] = <<socket_fd'[v], sent'[socket_fd'[v]]>>
               /\ ~inbox'[socket_fd'[v]]
               /\ replied'[reqPacket'[v]] = "none"
    <3>1. CASE v = w
      BY <1>3, <1>4, <1>5, <3>1
    <3>2. CASE v # w
      BY <1>3, <1>4, <2>1, <3>2, OwnFrame DEF Latest, TypeInv, HandlerTypes
    <3> QED
      BY <3>1, <3>2
  <2> QED
    BY <2>1 DEF Latest
<1>7. Unread'
  <2>1. \A d \in Clients, n \in 1 .. MaxRequests :
          n > sent'[d] \/ (n = sent'[d] /\ inbox'[d]) =>
            replied'[<<d, n>>] = "none" /\ <<d, n>> \notin committed'
    BY <1>3, <1>4 DEF Unread
  <2>2. \A v \in Workers : pc'[v] = "admit" => reqPacket'[v] \notin committed'
    BY <1>3, <1>5, OwnFrame DEF Unread
  <2> QED
    BY <2>1, <2>2 DEF Unread
<1>8. Outcomes(s)'
  <2>1. \A v \in Workers : pc'[v] \in Waiting \cup {"reply"} => v # w
    BY <1>3 DEF Waiting
  <2> QED
    BY <1>3, <2>1, OwnFrame DEF Outcomes, serving
<1>9. TruthfulReplies'
  BY <1>3 DEF TruthfulReplies
<1> QED
  BY <1>6, <1>7, <1>8, <1>9

LEMMA AccountsReply ==
  ASSUME NEW s, Servers = {s}, TypeInv, Accounts(s), NEW w \in Workers, HandlerReply(w)
  PROVE  Latest' /\ Unread' /\ Outcomes(s)' /\ TruthfulReplies'
<1> USE Apart
<1> TypeOK /\ WorkerStep(w) /\ s \in Servers
  BY DEF TypeInv, WorkerStep
<1> Connections /\ Latest /\ Unread /\ Outcomes(s) /\ TruthfulReplies
  BY DEF Accounts
<1>1. /\ UNCHANGED <<sent, inbox, reqPacket, txn_rc, committed, serving>> /\ pc'[s] = pc[s]
      /\ pc[w] = "reply" /\ pc[w] \in Active /\ pc'[w] \in {"idle", "top"}
  BY WorkerFrame DEF HandlerReply, Cleanup, Goto, Active, TypeOK
<1>2. reqPacket[w] \in Requests /\ resPacket[w] \in Codes
  BY <1>1 DEF TypeInv, HandlerTypes, TypeOK
<1>3. /\ \A r \in Requests : r # reqPacket[w] => replied'[r] = replied[r]
      /\ replied'[reqPacket[w]] \in {replied[reqPacket[w]], resPacket[w]}
  BY <1>2 DEF HandlerReply, TypeOK
<1>4. /\ \A v \in Workers \ {w} : pc[v] \in Active => reqPacket[v] # reqPacket[w]
      /\ \A c \in Clients, n \in 1 .. MaxRequests :
           n > sent[c] \/ (n = sent[c] /\ inbox[c]) => <<c, n>> # reqPacket[w]
  BY <1>1, OneHandlerEach
<1>5. Latest'
  <2>1. ASSUME NEW v \in Workers, pc'[v] \in Active
        PROVE  /\ reqPacket'[v] = <<socket_fd'[v], sent'[socket_fd'[v]]>>
               /\ ~inbox'[socket_fd'[v]]
               /\ replied'[reqPacket'[v]] = "none"
    <3>1. v # w
      BY <1>1, <2>1 DEF Active
    <3>2. /\ pc[v] \in Active /\ socket_fd'[v] = socket_fd[v]
          /\ reqPacket[v] \in Requests
      BY <2>1, <3>1, OwnFrame DEF TypeInv, HandlerTypes
    <3> QED
      BY <1>1, <1>3, <1>4, <3>1, <3>2 DEF Latest
  <2> QED
    BY <2>1 DEF Latest
<1>6. Unread'
  <2>1. \A c \in Clients, n \in 1 .. MaxRequests :
          n > sent'[c] \/ (n = sent'[c] /\ inbox'[c]) =>
            replied'[<<c, n>>] = "none" /\ <<c, n>> \notin committed'
    BY <1>1, <1>3, <1>4 DEF Unread, Requests
  <2>2. \A v \in Workers : pc'[v] = "admit" => reqPacket'[v] \notin committed'
    BY <1>1, OwnFrame DEF Unread
  <2> QED
    BY <2>1, <2>2 DEF Unread
<1>7. Outcomes(s)'
  <2>1. \A v \in Workers : pc'[v] \in Waiting \cup {"reply"} => v # w
    BY <1>1 DEF Waiting
  <2> QED
    BY <1>1, <2>1, OwnFrame DEF Outcomes, serving
<1>8. TruthfulReplies'
  <2>1. resPacket[w] = "SUCCESS" <=> reqPacket[w] \in committed
    BY <1>1 DEF Outcomes
  <2> QED
    BY <1>1, <1>2, <1>3, <2>1 DEF TruthfulReplies, Codes
<1> QED
  BY <1>5, <1>6, <1>7, <1>8

LEMMA AccountsWorker ==
  ASSUME NEW s, Servers = {s}, TypeInv, Ownership(s), Accounts(s),
         NEW w \in Workers, WorkerStep(w)
  PROVE  Latest' /\ Unread' /\ Outcomes(s)' /\ TruthfulReplies'
<1> USE Apart
<1> TypeOK /\ s \in Servers
  BY DEF TypeInv
<1> Connections /\ Latest /\ Unread /\ Outcomes(s) /\ TruthfulReplies
  BY DEF Accounts
<1>1. CASE HandlerRead(w)
  BY <1>1, AccountsRead
<1>2. CASE HandlerReply(w)
  BY <1>2, AccountsReply
<1>3. CASE ~HandlerRead(w) /\ ~HandlerReply(w)
  <2>1. UNCHANGED <<sent, inbox, reqPacket, replied, committed, serving>> /\ pc'[s] = pc[s]
    <3>1. UNCHANGED <<inbox, reqPacket>>
      BY <1>3 DEF WorkerStep, WorkerPull, WorkerExit, HandlerTop, HandlerReadError,
           HandlerAdmit, HandlerEnqueue, HandlerBlock, HandlerFail, HandlerPoll, HandlerReadRc,
           handling, clients
    <3> QED
      BY <1>3, <3>1, NoAnswer, WorkerFrame
  <2>2. pc'[w] \in Active \ {"admit"} => pc[w] \in Active /\ socket_fd'[w] = socket_fd[w]
    BY <1>3 DEF WorkerStep, WorkerPull, WorkerExit, HandlerTop, HandlerReadError,
         HandlerAdmit, HandlerEnqueue, HandlerBlock, HandlerFail, HandlerPoll, HandlerReadRc,
         handling, Cleanup, Goto, Active, Passes, TypeOK
  <2>3. pc'[w] # "admit"
    BY <1>3 DEF WorkerStep, WorkerPull, WorkerExit, HandlerTop, HandlerReadError,
         HandlerAdmit, HandlerEnqueue, HandlerBlock, HandlerFail, HandlerPoll, HandlerReadRc,
         Cleanup, Goto, TypeOK
  <2>4. \A v \in Workers : pc'[v] \in Active => pc[v] \in Active /\ socket_fd'[v] = socket_fd[v]
    BY <2>2, <2>3, OwnFrame
  <2>5. Latest'
    BY <2>1, <2>4 DEF Latest
  <2>6. Unread'
    BY <2>1, <2>3, OwnFrame DEF Unread
  <2>7. TruthfulReplies'
    BY <2>1 DEF TruthfulReplies
  <2>8. CASE HandlerAdmit(w)
    <3>1. /\ pc[w] = "admit" /\ pc'[w] # "reply"
          /\ pc'[w] \in Waiting => txn_rc'[w] = "FAIL"
      BY <2>8 DEF HandlerAdmit, Cleanup, Goto, Waiting, TypeOK
    <3>2. pc'[w] \in Waiting => (txn_rc'[w] = "SUCCESS" <=> reqPacket'[w] \in committed')
      BY <2>1, <3>1 DEF Unread
    <3>3. Outcomes(s)'
      BY <2>1, <3>1, <3>2, OwnFrame DEF Outcomes, serving
    <3> QED
      BY <2>5, <2>6, <2>7, <3>3
  <2>9. CASE HandlerReadRc(w)
    <3>1. /\ pc[w] = "readRc" /\ pc'[w] = "reply" /\ resPacket'[w] = txn_rc[w]
      BY <2>9 DEF HandlerReadRc, Goto, TypeOK
    <3>2. ~(pc[s] = "setRc" /\ current[s].worker = w)
      BY <3>1 DEF Ownership, CurrentOwned, Owned, Busy
    <3>3. resPacket'[w] = "SUCCESS" <=> reqPacket'[w] \in committed'
      BY <2>1, <3>1, <3>2 DEF Outcomes, Waiting
    <3>4. Outcomes(s)'
      BY <2>1, <3>1, <3>3, OwnFrame DEF Outcomes, serving, Waiting
    <3> QED
      BY <2>5, <2>6, <2>7, <3>4
  <2>10. CASE ~HandlerAdmit(w) /\ ~HandlerReadRc(w)
    <3>1. /\ UNCHANGED txn_rc /\ pc'[w] # "reply"
      BY <1>3, <2>10 DEF WorkerStep, WorkerPull, WorkerExit, HandlerTop, HandlerReadError,
           HandlerEnqueue, HandlerBlock, HandlerFail, HandlerPoll, handling, Cleanup, Goto, TypeOK
    <3>2. pc'[w] \in Waiting => pc[w] \in Waiting
      BY <1>3, <2>10 DEF WorkerStep, WorkerPull, WorkerExit, HandlerTop, HandlerReadError,
           HandlerEnqueue, HandlerBlock, HandlerFail, HandlerPoll, Cleanup, Goto, Passes, Waiting, TypeOK
    <3>3. Outcomes(s)'
      BY <2>1, <3>1, <3>2, OwnFrame DEF Outcomes, serving
    <3> QED
      BY <2>5, <2>6, <2>7, <3>3
  <2> QED
    BY <2>8, <2>9, <2>10
<1> QED
  BY <1>1, <1>2, <1>3

LEMMA AccountsServer ==
  ASSUME NEW s, Servers = {s}, TypeInv, Ownership(s), Accounts(s),
         ServerStep(s) \/ ServerRetryFree(s)
  PROVE  Latest' /\ Unread' /\ Outcomes(s)' /\ TruthfulReplies'
<1> USE Apart
<1> TypeOK /\ s \in Servers /\ s \in Threads
  BY DEF TypeInv
<1> Connections /\ Latest /\ Unread /\ Outcomes(s) /\ TruthfulReplies
  BY DEF Accounts
<1>1. /\ UNCHANGED <<socket_fd, reqPacket, resPacket, sent, inbox, replied>>
      /\ \A w \in Workers : pc'[w] = pc[w]
  BY ServerFrame DEF clients
<1>2. Latest'
  BY <1>1 DEF Latest
<1>3. UNCHANGED committed => Unread' /\ TruthfulReplies'
  BY <1>1 DEF Unread, TruthfulReplies
<1>4. CASE RoundStep(s) \/ ServerDequeueUser(s) \/ ServerSetDone(s) \/ ServerRetryFree(s)
  <2>1. UNCHANGED <<txn_rc, committed>> /\ pc[s] # "setRc" /\ pc'[s] # "setRc"
    <3>1. CASE RoundStep(s)
      <4>1. pc[s] # "setRc"
        BY <3>1 DEF RoundStep, ServerTop, ServerSnapshot, ServerDequeueSys, ServerSysDone,
             ServerUserCheck, ServerBlock, ServerFail, ServerClock, Passes, TurnedAway
      <4> QED
        BY <3>1, <4>1, RoundFrame DEF handling, history, Busy
    <3>2. CASE ServerDequeueUser(s) \/ ServerSetDone(s) \/ ServerRetryFree(s)
      BY <3>2 DEF ServerDequeueUser, ServerSetDone, ServerRetryFree, Passes, Goto, handling,
           history, TypeOK
    <3> QED
      BY <1>4, <3>1, <3>2
  <2>2. Outcomes(s)'
    BY <1>1, <2>1 DEF Outcomes
  <2> QED
    BY <1>2, <1>3, <2>1, <2>2
<1>5. ASSUME pc[s] \in {"exec", "setRc"}, NEW e, e = current[s]
      PROVE  /\ e.worker \in Workers /\ e.request \in Requests
             /\ pc[e.worker] = "poll" /\ reqPacket[e.worker] = e.request
             /\ replied[e.request] = "none"
             /\ \A v \in Workers \ {e.worker} : pc[v] \in Active => reqPacket[v] # e.request
             /\ \A c \in Clients, n \in 1 .. MaxRequests :
                  n > sent[c] \/ (n = sent[c] /\ inbox[c]) => <<c, n>> # e.request
  <2>1. /\ e.worker \in Workers /\ e.request \in Requests
        /\ pc[e.worker] = "poll" /\ reqPacket[e.worker] = e.request
    BY <1>5, EntryTypes DEF Ownership, CurrentOwned, Owned, Busy
  <2>2. pc[e.worker] \in Active
    BY <2>1 DEF Active
  <2> QED
    BY <2>1, <2>2, OneHandlerEach DEF Latest
<1>6. ASSUME NEW rc \in Codes, ServerExecute(s, rc)
      PROVE  Latest' /\ Unread' /\ Outcomes(s)' /\ TruthfulReplies'
  <2>1. PICK e : e = current[s]
    OBVIOUS
  <2>2. /\ pc[s] = "exec" /\ pc'[s] = "setRc" /\ UNCHANGED <<txn_rc, current>> /\ result'[s] = rc
        /\ committed' = committed \cup (IF rc = "SUCCESS" THEN {e.request} ELSE {})
    BY <1>6, <2>1 DEF ServerExecute, Goto, handling, TypeOK
  <2>3. /\ e.worker \in Workers /\ e.request \in Requests
        /\ pc[e.worker] = "poll" /\ reqPacket[e.worker] = e.request
        /\ replied[e.request] = "none"
        /\ \A v \in Workers \ {e.worker} : pc[v] \in Active => reqPacket[v] # e.request
        /\ \A c \in Clients, n \in 1 .. MaxRequests :
             n > sent[c] \/ (n = sent[c] /\ inbox[c]) => <<c, n>> # e.request
    BY <1>5, <2>1, <2>2
  <2>4. txn_rc[e.worker] = "FAIL"
    BY <2>1, <2>2 DEF Ownership, CurrentOwned, Busy
  <2>5. e.request \notin committed
    BY <2>2, <2>3, <2>4 DEF Outcomes, Waiting
  <2>6. Unread'
    <3>1. \A c \in Clients, n \in 1 .. MaxRequests :
            n > sent'[c] \/ (n = sent'[c] /\ inbox'[c]) =>
              replied'[<<c, n>>] = "none" /\ <<c, n>> \notin committed'
      BY <1>1, <2>2, <2>3 DEF Unread
    <3>2. \A v \in Workers : pc'[v] = "admit" => reqPacket'[v] \notin committed'
      BY <1>1, <2>2, <2>3 DEF Unread, Active
    <3> QED
      BY <3>1, <3>2 DEF Unread
  <2>7. \A v \in Workers \ {e.worker} : pc[v] \in Active =>
          (reqPacket[v] \in committed' <=> reqPacket[v] \in committed)
    BY <2>2, <2>3
  <2>8. Outcomes(s)'
    <3>1. result'[s] = "SUCCESS" <=> e.request \in committed'
      BY <2>2, <2>5
    <3>2. \A v \in Workers : pc[v] \in Waiting /\ v # e.worker =>
            (txn_rc[v] = "SUCCESS" <=> reqPacket[v] \in committed')
      BY <2>2, <2>7 DEF Outcomes, Waiting, Active
    <3>3. \A v \in Workers : pc[v] = "reply" =>
            (resPacket[v] = "SUCCESS" <=> reqPacket[v] \in committed')
      BY <2>3, <2>7 DEF Outcomes, Active
    <3> QED
      BY <1>1, <2>1, <2>2, <3>1, <3>2, <3>3 DEF Outcomes
  <2>9. TruthfulReplies'
    BY <1>1, <2>2, <2>3 DEF TruthfulReplies
  <2> QED
    BY <1>2, <2>6, <2>8, <2>9
<1>7. CASE ServerSetRc(s) \/ ServerPacketFreeFails(s)
  <2>1. PICK e : e = current[s]
    OBVIOUS
  <2>2. /\ pc[s] = "setRc" /\ pc'[s] # "setRc" /\ UNCHANGED committed
    BY <1>7 DEF ServerSetRc, ServerPacketFreeFails, Goto, history, TypeOK
  <2>3. /\ e.worker \in Workers /\ reqPacket[e.worker] = e.request
    BY <1>5, <2>1, <2>2
  <2>4. /\ txn_rc'[e.worker] = result[s]
        /\ \A v \in Workers : v # e.worker => txn_rc'[v] = txn_rc[v]
    BY <1>7, <2>1, <2>3 DEF ServerSetRc, ServerPacketFreeFails, TypeOK
  <2>5. \A v \in Workers : pc[v] \in Waiting =>
          (txn_rc'[v] = "SUCCESS" <=> reqPacket[v] \in committed)
    BY <2>1, <2>2, <2>3, <2>4 DEF Outcomes
  <2>6. Outcomes(s)'
    BY <1>1, <2>2, <2>5 DEF Outcomes
  <2> QED
    BY <1>2, <1>3, <2>2, <2>6
<1> QED
  BY <1>4, <1>6, <1>7 DEF ServerStep, RoundStep

LEMMA AccountsClient ==
  ASSUME NEW s, Servers = {s}, TypeInv, Accounts(s), NEW c \in Clients, ClientStep(c)
  PROVE  Latest' /\ Unread' /\ Outcomes(s)' /\ TruthfulReplies'
<1> TypeOK /\ Connections /\ Latest /\ Unread /\ Outcomes(s) /\ TruthfulReplies
  BY DEF Accounts, TypeInv
<1>1. UNCHANGED <<pc, serving, handling, history>>
  BY DEF ClientStep, ClientConnect, ClientSend, ClientHangUp
<1>2. Outcomes(s)' /\ TruthfulReplies'
  BY <1>1 DEF Outcomes, TruthfulReplies, serving, handling, history
<1>3. CASE ClientSend(c)
  <2>1. /\ sent[c] \in Nat /\ sent'[c] = sent[c] + 1 /\ sent[c] < MaxRequests
        /\ sent[c] > 0 => replied[<<c, sent[c]>>] # "none"
        /\ \A d \in Clients : d # c => sent'[d] = sent[d] /\ inbox'[d] = inbox[d]
    BY <1>3 DEF ClientSend, TypeOK
  <2>2. \A w \in Workers : pc[w] \in Active => socket_fd[w] # c
    <3> SUFFICES ASSUME NEW w \in Workers, pc[w] \in Active, socket_fd[w] = c PROVE FALSE
      OBVIOUS
    <3>1. /\ reqPacket[w] = <<c, sent[c]>> /\ replied[reqPacket[w]] = "none"
      BY DEF Latest
    <3>2. sent[c] >= 1
      BY <3>1 DEF TypeInv, HandlerTypes, Requests
    <3> QED
      BY <2>1, <3>1, <3>2
  <2>3. Latest'
    BY <1>1, <2>1, <2>2 DEF Latest, TypeInv, HandlerTypes, handling, history
  <2>4. ASSUME NEW d \in Clients, NEW n \in 1 .. MaxRequests,
               n > sent'[d] \/ (n = sent'[d] /\ inbox'[d])
        PROVE  n > sent[d] \/ (n = sent[d] /\ inbox[d])
    <3>1. CASE d = c
      <4>1. n >= sent[c] + 1 /\ n \in Nat
        BY <2>1, <2>4, <3>1, Apart
      <4> QED
        BY <2>1, <3>1, <4>1
    <3>2. CASE d # c
      BY <2>1, <2>4, <3>2
    <3> QED
      BY <3>1, <3>2
  <2>5. Unread'
    BY <1>1, <2>4 DEF Unread, handling, history
  <2> QED
    BY <1>2, <2>3, <2>5
<1>4. CASE ClientConnect(c) \/ ClientHangUp(c)
  <2>1. UNCHANGED sent /\ \A d \in Clients : inbox'[d] => inbox[d]
    BY <1>4 DEF ClientConnect, ClientHangUp, TypeOK
  <2>2. Latest' /\ Unread'
    BY <1>1, <2>1 DEF Latest, Unread, TypeInv, HandlerTypes, handling, history
  <2> QED
    BY <1>2, <2>2
<1> QED
  BY <1>3, <1>4 DEF ClientStep

LEMMA AccountsElsewhere ==
  ASSUME NEW s, Servers = {s}, TypeInv, BirthOrder, Accounts(s),
         (\E u \in Updaters : UpdaterStep(u)) \/ ListenerStep \/ MainStep \/ Tick \/ UNCHANGED vars
  PROVE  Latest' /\ Unread' /\ Outcomes(s)' /\ TruthfulReplies'
<1> TypeOK /\ Connections /\ Latest /\ Unread /\ Outcomes(s) /\ TruthfulReplies /\ s \in Servers
  BY DEF Accounts, TypeInv
<1>1. UNCHANGED <<serving, handling, history>>
  BY UpdaterFrame, Elsewhere
<1>2. UNCHANGED <<sent, inbox>>
  BY UpdaterFrame DEF ListenerStep, ListenerInit, ListenerAccept, ListenerLeave, ListenerDestroy,
     MainStep, MainSpawn, Spawn, MainJoin, Join, MainReturn, Tick, clients, vars
<1>3. \/ \A th \in {s} \cup Workers : pc'[th] = "exited"
      \/ /\ pc'[s] = pc[s] \/ (pc[s] = "unborn" /\ pc'[s] = "top")
         /\ \A w \in Workers : pc'[w] = pc[w] \/ (pc[w] = "unborn" /\ pc'[w] = "idle")
  BY UpdaterFrame, Elsewhere
<1>4. /\ \A w \in Workers : pc'[w] \in Active => pc'[w] = pc[w] /\ (pc'[s] = "setRc" <=> pc[s] = "setRc")
      /\ pc'[s] = "setRc" => pc[s] = "setRc"
  BY <1>3 DEF Active
<1>5. Latest' /\ Unread'
  BY <1>1, <1>2, <1>4 DEF Latest, Unread, handling, history, Active
<1>6. Outcomes(s)' /\ TruthfulReplies'
  BY <1>1, <1>4 DEF Outcomes, TruthfulReplies, serving, handling, history, Active, Waiting
<1> QED
  BY <1>5, <1>6

LEMMA AccountsInit == ASSUME NEW s, Servers = {s} PROVE Init => Accounts(s)
<1> SUFFICES ASSUME Init PROVE Accounts(s)
  OBVIOUS
<1>1. /\ jobs = << >> /\ committed = {}
      /\ socket_fd = [w \in Workers |-> NoClient] /\ replied = [r \in Requests |-> "none"]
  BY DEF Init
<1>2. pc[s] = "unborn" /\ \A w \in Workers : pc[w] = "unborn"
  BY Apart DEF Init
<1>3. Connections
  BY <1>1, Apart DEF Connections
<1>4. Latest /\ Outcomes(s)
  BY <1>2 DEF Latest, Outcomes, Active, Waiting
<1>5. Unread /\ TruthfulReplies
  BY <1>1, <1>2 DEF Unread, TruthfulReplies, Requests
<1> QED
  BY <1>3, <1>4, <1>5 DEF Accounts

\* With one processing thread (the default) a client is never lied to, with any
\* number of clients, requests and pool threads, also when connections break,
\* the libraries fail and the experiment ends in the middle: a request answered
\* SUCCESS has committed, one answered FAIL has not and never will.
THEOREM AnswersTrue ==
  ASSUME NEW s, Servers = {s}
  PROVE  Spec => []TruthfulReplies
<1>1. Init => Accounts(s)
  BY AccountsInit
<1>2. TypeInv /\ BirthOrder /\ Ownership(s) /\ Accounts(s) /\ [Next]_vars => Accounts(s)'
  <2> SUFFICES ASSUME TypeInv, BirthOrder, Ownership(s), Accounts(s), [Next]_vars
               PROVE  Accounts(s)'
    OBVIOUS
  <2>1. Connections'
    BY ConnectionsStep DEF Accounts
  <2>2. Latest' /\ Unread' /\ Outcomes(s)' /\ TruthfulReplies'
    <3>1. CASE \E t \in Servers : ServerStep(t) \/ ServerRetryFree(t)
      <4>1. ServerStep(s) \/ ServerRetryFree(s)
        BY <3>1
      <4> QED
        BY <4>1, AccountsServer
    <3>2. CASE \E w \in Workers : WorkerStep(w)
      BY <3>2, AccountsWorker
    <3>3. CASE \E c \in Clients : ClientStep(c)
      BY <3>3, AccountsClient
    <3>4. CASE (\E u \in Updaters : UpdaterStep(u)) \/ ListenerStep \/ MainStep \/ Tick
                \/ UNCHANGED vars
      BY <3>4, AccountsElsewhere
    <3> QED
      BY <3>1, <3>2, <3>3, <3>4 DEF Next
  <2> QED
    BY <2>1, <2>2 DEF Accounts
<1>3. Accounts(s) => TruthfulReplies
  BY DEF Accounts
<1> QED
  BY OwnershipInvariant, <1>1, <1>2, <1>3, PTL DEF Spec

==============================================================================
