----------------------------- MODULE TcpServer ------------------------------
(***************************************************************************)
(* The life of the server process: main() and server_init in               *)
(* server/main.c, the accept loop of server/network/tcp_server.c with its  *)
(* connection semaphore, the worker threads of ThreadPool that run         *)
(* client_handler, the signal handler, and server_shutdown.  A task of the *)
(* pool is a connection.  The main thread is the owner of the pool.        *)
(***************************************************************************)
EXTENDS ThreadPool

CONSTANTS
  MaxSignals,      \* bound on the number of SIGINT/SIGTERM
  MaxFaults        \* bound on failing create, accept and malloc calls

ASSUME SignalsAssumption == MaxSignals \in Nat
ASSUME ServerFaultsAssumption == MaxFaults \in Nat

Conns == Tasks
MAX_CONNECTIONS == max_queue_size   \* tcp_server_create sizes the queue so

VARIABLES
  main,         \* where the main thread is
  running,      \* server->running
  g_shutdown,
  sock,         \* the listening socket: none, open, shut (down), closed
  sem,          \* g_conn_semaphore
  conn,         \* per connection: out, backlog, open, closed, refused
  sub,          \* per subsystem of g_ctx: none (yet), alive, null, freed
  signals, faults

serverVars == <<main, running, g_shutdown, sock, sem, conn, sub, signals, faults>>
vars == <<poolVars, serverVars>>

(* server_init creates the subsystems in this order; each keeps pointers to  *)
(* the ones in Uses of it, and is not created when one of them is NULL.      *)
InitOrder == <<"buffer_pool", "wal", "tables", "lock_mgr", "txn_mgr", "auth_mgr",
               "event_mgr", "booking_engine", "reports", "logger", "notifier", "stats">>
Subsystems == {InitOrder[i] : i \in DOMAIN InitOrder}

\* server_init gives up when one of these is NULL; it goes on without any other.
Required == {"buffer_pool", "wal", "tables"}

\* Closing the pool before the tables that flush through it.
mutShutdownOrder == <<"stats", "notifier", "logger", "reports", "booking_engine",
                   "event_mgr", "auth_mgr", "txn_mgr", "lock_mgr", "buffer_pool",
                   "tables", "wal">>

ShutdownOrder == <<"stats", "notifier", "logger", "reports", "booking_engine",
                   "event_mgr", "auth_mgr", "txn_mgr", "lock_mgr", "tables",
                   "buffer_pool", "wal">>

Uses(s) ==
  CASE s = "tables" -> {"buffer_pool", "wal"}
    [] s = "txn_mgr" -> {"lock_mgr", "wal"}
    [] s \in {"auth_mgr", "event_mgr", "reports"} -> {"tables"}
    [] s = "booking_engine" -> {"tables", "txn_mgr"}
    [] OTHER -> {}

MainStates == {"init", "created", "loop", "slot", "check", "accept", "submit",
               "stop", "destroy", "join", "teardown", "exited", "aborted"}

\* The shapes of the server; the semaphore never exceeds its slots by more than
\* the one that tcp_server_stop adds.
TypeOK ==
  /\ PoolTypeOK
  /\ main \in MainStates
  /\ running \in BOOLEAN /\ g_shutdown \in BOOLEAN
  /\ sock \in {"none", "open", "shut", "closed"}
  /\ sem \in 0 .. MAX_CONNECTIONS + 1
  /\ conn \in [Conns -> {"out", "backlog", "open", "closed", "refused"}]
  /\ sub \in [Subsystems -> {"none", "alive", "null", "freed"}]
  /\ signals \in 0 .. MaxSignals /\ faults \in 0 .. MaxFaults

Init ==
  /\ PoolInit
  /\ main = "init" /\ running = FALSE /\ g_shutdown = FALSE
  /\ sock = "none" /\ sem = 0
  /\ conn = [c \in Conns |-> "out"]
  /\ sub = [s \in Subsystems |-> "none"]
  /\ signals = 0 /\ faults = 0
-----------------------------------------------------------------------------
(* Start-up                                                                *)

Alive == {s \in Subsystems : sub[s] = "alive"}

\* The first subsystem of an order that is still in the given state.
FirstIn(order, state, s) ==
  \E i \in DOMAIN order :
    /\ s = order[i] /\ sub[s] = state
    /\ \A j \in 1 .. i - 1 : sub[order[j]] # state

\* server_init creates the next subsystem.
InitSubsystem ==
  /\ main = "init" /\ sock = "none"
  /\ \E s \in Subsystems :
       /\ FirstIn(InitOrder, "none", s) /\ Uses(s) \subseteq Alive
       /\ sub' = [sub EXCEPT ![s] = "alive"]
  /\ UNCHANGED <<poolVars, main, running, g_shutdown, sock, sem, conn, signals, faults>>

\* One that the server can do without is not created: the call fails, or what
\* it would use is NULL.  Its pointer in g_ctx stays NULL and server_init goes on.
SubsystemIsNull ==
  /\ main = "init" /\ sock = "none"
  /\ \E s \in Subsystems \ Required :
       /\ FirstIn(InitOrder, "none", s)
       /\ sub' = [sub EXCEPT ![s] = "null"]
       /\ IF Uses(s) \subseteq Alive
          THEN faults < MaxFaults /\ faults' = faults + 1
          ELSE UNCHANGED faults
  /\ UNCHANGED <<poolVars, main, running, g_shutdown, sock, sem, conn, signals>>

Initialized == \A s \in Subsystems : sub[s] # "none"

\* The storage or the socket cannot be set up: LOG_FATAL aborts the process.
InitFails ==
  /\ main = "init" /\ sock = "none"
  /\ Initialized \/ \E s \in Required : sub[s] = "none"
  /\ faults < MaxFaults
  /\ faults' = faults + 1
  /\ main' = "aborted"
  /\ UNCHANGED <<poolVars, running, g_shutdown, sock, sem, conn, sub, signals>>

\* No memory for the server itself: tcp_server_create returns NULL and main
\* calls server_shutdown.
ServerIsNull ==
  /\ main = "init" /\ sock = "none" /\ Initialized
  /\ faults < MaxFaults
  /\ faults' = faults + 1
  /\ main' = "teardown"
  /\ UNCHANGED <<poolVars, running, g_shutdown, sock, sem, conn, sub, signals>>

\* tcp_server_create: socket, bind, listen.
Listen ==
  /\ main = "init" /\ sock = "none" /\ Initialized
  /\ sock' = "open"
  /\ UNCHANGED <<poolVars, main, running, g_shutdown, sem, conn, sub, signals, faults>>

StartWorker(w) ==
  /\ sock = "open"
  /\ CreateWorker(w)
  /\ UNCHANGED serverVars

\* The pool is complete: sem_init, and main stores the server in g_ctx.
ServerCreated ==
  /\ main = "init" /\ sock = "open"
  /\ CreateDone
  /\ sem' = MAX_CONNECTIONS
  /\ main' = "created"
  /\ UNCHANGED <<running, g_shutdown, sock, conn, sub, signals, faults>>

\* thread_pool_create destroys a partial pool; LOG_FATAL then aborts.
PoolNotCreated ==
  /\ main = "init" /\ sock = "open"
  /\ \/ CreateFails /\ UNCHANGED main
     \/ DestroyDone /\ main' = "aborted"
  /\ UNCHANGED <<running, g_shutdown, sock, sem, conn, sub, signals, faults>>

\* tcp_server_start, up to the loop.
StartServer ==
  /\ main = "created"
  /\ running' = TRUE
  /\ main' = "loop"
  /\ UNCHANGED <<poolVars, g_shutdown, sock, sem, conn, sub, signals, faults>>
-----------------------------------------------------------------------------
(* The accept loop                                                         *)

MainMoves(from, to) == main = from /\ main' = to

LoopTest ==
  /\ main = "loop"
  /\ main' = IF running THEN "slot" ELSE "stop"
  /\ UNCHANGED <<poolVars, running, g_shutdown, sock, sem, conn, sub, signals, faults>>

TakeSlot ==
  /\ MainMoves("slot", "check")
  /\ sem > 0
  /\ sem' = sem - 1
  /\ UNCHANGED <<poolVars, running, g_shutdown, sock, conn, sub, signals, faults>>

\* A timeout that is taken for a slot.
mutSlotTimeout ==
  /\ MainMoves("slot", "check")
  /\ sem = 0
  /\ UNCHANGED <<poolVars, running, g_shutdown, sock, sem, conn, sub, signals, faults>>

\* sem_timedwait times out after a second, or is interrupted.
SlotTimeout ==
  /\ MainMoves("slot", "loop")
  /\ sem = 0
  /\ UNCHANGED <<poolVars, running, g_shutdown, sock, sem, conn, sub, signals, faults>>

Recheck ==
  /\ main = "check"
  /\ \/ running /\ main' = "accept" /\ UNCHANGED sem
     \/ ~running /\ main' = "stop" /\ sem' = sem + 1
  /\ UNCHANGED <<poolVars, running, g_shutdown, sock, conn, sub, signals, faults>>

\* accept returns a connection and its task is handed to the pool.
Accept(c) ==
  /\ MainMoves("accept", "submit")
  /\ sock = "open" /\ conn[c] = "backlog"
  /\ conn' = [conn EXCEPT ![c] = "open"]
  /\ SubmitCall(c)
  /\ UNCHANGED <<running, g_shutdown, sock, sem, sub, signals, faults>>

\* A failing accept that keeps its slot.
mutAcceptFails ==
  /\ MainMoves("accept", "loop")
  /\ \/ sock = "shut" /\ UNCHANGED faults
     \/ sock = "open" /\ faults < MaxFaults /\ faults' = faults + 1
  /\ UNCHANGED <<poolVars, running, g_shutdown, sock, sem, conn, sub, signals>>

\* accept fails: always once the socket was shut down, else now and then.
AcceptFails ==
  /\ MainMoves("accept", "loop")
  /\ \/ sock = "shut" /\ UNCHANGED faults
     \/ sock = "open" /\ faults < MaxFaults /\ faults' = faults + 1
  /\ sem' = sem + 1
  /\ UNCHANGED <<poolVars, running, g_shutdown, sock, conn, sub, signals>>

\* No memory for the task argument: the connection is closed at once.
AcceptDrops(c) ==
  /\ MainMoves("accept", "loop")
  /\ sock = "open" /\ conn[c] = "backlog"
  /\ faults < MaxFaults /\ faults' = faults + 1
  /\ conn' = [conn EXCEPT ![c] = "closed"]
  /\ sem' = sem + 1
  /\ UNCHANGED <<poolVars, running, g_shutdown, sock, sub, signals>>

\* thread_pool_submit; that it never finds the queue full is SubmitNeverBlocks.
SubmitAccepted ==
  /\ MainMoves("submit", "loop")
  /\ SubmitQueues
  /\ UNCHANGED <<running, g_shutdown, sock, sem, conn, sub, signals, faults>>

\* A rejected connection that nobody closes.
mutSubmitRejected ==
  /\ MainMoves("submit", "loop")
  /\ SubmitFails
  /\ sem' = sem + 1
  /\ UNCHANGED <<running, g_shutdown, sock, conn, sub, signals, faults>>

SubmitRejected ==
  /\ MainMoves("submit", "loop")
  /\ SubmitFails
  /\ conn' = [conn EXCEPT ![otask] = "closed"]
  /\ sem' = sem + 1
  /\ UNCHANGED <<running, g_shutdown, sock, sub, signals, faults>>
-----------------------------------------------------------------------------
(* The worker threads: client_task_wrapper around client_handler           *)

PoolWorkerStep(w) ==
  /\ WorkerStep(w) \/ SpuriousWakeup(w)
  /\ UNCHANGED serverVars

\* The client leaves, or the handler sees g_shutdown; the socket is closed.
HandlerEnds(w) ==
  /\ worker[w] = "running" /\ conn[task[w]] = "open"
  /\ conn' = [conn EXCEPT ![task[w]] = "closed"]
  /\ UNCHANGED <<poolVars, main, running, g_shutdown, sock, sem, sub, signals, faults>>

SlotReleased(w) ==
  /\ worker[w] = "running" /\ conn[task[w]] = "closed"
  /\ WorkerDone(w)
  /\ sem' = sem + 1
  /\ UNCHANGED <<main, running, g_shutdown, sock, conn, sub, signals, faults>>

Connect(c) ==
  /\ conn[c] = "out" /\ sock = "open"
  /\ conn' = [conn EXCEPT ![c] = "backlog"]
  /\ UNCHANGED <<poolVars, main, running, g_shutdown, sock, sem, sub, signals, faults>>
-----------------------------------------------------------------------------
(* Shutdown                                                                *)

ServerFreed == main \in {"teardown", "exited"}

\* A handler that leaves the listening socket alone.
mutSignalHandler ==
  /\ g_shutdown' = TRUE
  /\ running' = IF main = "init" THEN running ELSE FALSE
  /\ UNCHANGED <<sock, conn>>

\* signal_handler: the flag, and through g_ctx.tcp_server, which is set for
\* good once main has stored it, the loop's flag and the listening socket.
signal_handler ==
  /\ g_shutdown' = TRUE
  /\ running' = IF main = "init" THEN running ELSE FALSE
  /\ LET shuts == main # "init" /\ sock = "open"
     IN  /\ sock' = IF shuts THEN "shut" ELSE sock
         /\ conn' = [c \in Conns |-> IF shuts /\ conn[c] = "backlog" THEN "refused" ELSE conn[c]]

Signal ==
  /\ signals < MaxSignals
  /\ main \notin {"exited", "aborted"}
  /\ signals' = signals + 1
  /\ signal_handler
  /\ UNCHANGED <<poolVars, main, sem, sub, faults>>

\* tcp_server_stop, called from tcp_server_destroy.
Stop ==
  /\ MainMoves("stop", "destroy")
  /\ running' = FALSE
  /\ sock' = "closed"
  /\ conn' = [c \in Conns |-> IF conn[c] = "backlog" THEN "refused" ELSE conn[c]]
  /\ sem' = sem + 1
  /\ UNCHANGED <<poolVars, g_shutdown, sub, signals, faults>>

DestroyServer ==
  /\ \/ MainMoves("destroy", "join") /\ Destroy
     \/ MainMoves("join", "teardown") /\ DestroyDone
  /\ UNCHANGED <<running, g_shutdown, sock, sem, conn, sub, signals, faults>>

\* The rest of server_shutdown: one subsystem that exists after the other.
Teardown ==
  /\ main = "teardown"
  /\ \E s \in Subsystems :
       /\ FirstIn(ShutdownOrder, "alive", s)
       /\ sub' = [sub EXCEPT ![s] = "freed"]
       /\ main' = IF Alive = {s} THEN "exited" ELSE "teardown"
  /\ UNCHANGED <<poolVars, running, g_shutdown, sock, sem, conn, signals, faults>>
-----------------------------------------------------------------------------
\* The steps the main thread takes by itself; accept waits for a client.
MainStep ==
  \/ InitSubsystem \/ SubsystemIsNull \/ Listen \/ ServerCreated \/ PoolNotCreated \/ StartServer
  \/ \E w \in Workers : StartWorker(w)
  \/ LoopTest \/ TakeSlot \/ SlotTimeout \/ Recheck
  \/ \E c \in Conns : Accept(c)
  \/ AcceptFails \/ SubmitAccepted
  \/ Stop \/ DestroyServer \/ Teardown

Next ==
  \/ MainStep
  \/ InitFails \/ ServerIsNull \/ SubmitRejected \/ Signal
  \/ \E c \in Conns : AcceptDrops(c) \/ Connect(c)
  \/ \E w \in Workers : PoolWorkerStep(w) \/ HandlerEnds(w) \/ SlotReleased(w)

Spec == Init /\ [][Next]_vars

\* Threads that can run do.  A client may keep its connection for ever, but the
\* one-second receive timeout makes its handler look at g_shutdown.
FairSpec ==
  /\ Spec
  /\ WF_vars(MainStep /\ UNCHANGED <<faults, poolFaults>>)
  /\ \A w \in Workers :
       /\ WF_vars(WorkerStep(w) /\ UNCHANGED serverVars)
       /\ WF_vars(g_shutdown /\ HandlerEnds(w))
       /\ WF_vars(SlotReleased(w))
-----------------------------------------------------------------------------
(* Properties                                                              *)

Open == {c \in Conns : conn[c] = "open"}

(* The semaphore counts: slots are neither lost on an error path of the accept *)
(* loop nor given back twice (tcp_server_stop adds one, once the loop is over). *)
(* So at most MAX_CONNECTIONS sockets of clients are open, and the main thread  *)
(* never blocks in thread_pool_submit, where it could not see the end of the    *)
(* server.                                                                      *)
SubmitNeverBlocks ==
  /\ main \notin {"init", "teardown", "exited", "aborted"} =>
       sem + Cardinality(Open)
           + Cardinality({w \in Workers : worker[w] = "running" /\ conn[task[w]] = "closed"})
           + (IF main \in {"check", "accept"} THEN 1 ELSE 0)
       = MAX_CONNECTIONS + (IF main \in {"destroy", "join"} THEN 1 ELSE 0)
  /\ Cardinality(Open) <= MAX_CONNECTIONS
  /\ ~(owner = "submit" /\ QueueFull)

(* The pool does its work for the server: accepted tasks run once, and a queued *)
(* one has a worker that will look, through failing pthread_create and malloc   *)
(* calls and with destroy at any moment (thread_pool.c).                        *)
PoolRunsItsTasks == TypeOK /\ AcceptedTasksRunOnce /\ QueuedTasksHaveAWorker

(* A connection that was accepted is served or closed, and none is left open    *)
(* when the process ends its work: tcp_server.h, "Currently connected clients   *)
(* will finish their handler".                                                  *)
EveryConnectionIsClosed ==
  /\ ServerFreed => Open = {}
  /\ Open \subseteq {task[w] : w \in Workers} \cup {queue[i] : i \in DOMAIN queue} \cup {otask}

(* Nobody uses a subsystem that was destroyed: one that exists does so together *)
(* with the ones it keeps pointers to, also when others could not be created,   *)
(* and while a handler runs every pointer in g_ctx is settled: what was created *)
(* is not destroyed yet, what is NULL stays NULL.  This is the order of         *)
(* server_init and of server_shutdown, with the join of the workers before the  *)
(* first destroy.                                                               *)
NothingOutlivesWhatItUses ==
  /\ \A s \in Alive : Uses(s) \subseteq Alive
  /\ (\E w \in Workers : worker[w] = "running") =>
       \A s \in Subsystems : sub[s] = "alive" \/ (sub[s] = "null" /\ s \notin Required)

(* main.c:18, "SIGINT/SIGTERM triggers graceful shutdown": once a signal that  *)
(* comes after tcp_server_start has begun is taken, the process ends.           *)
SignalStopsServer ==
  (main \notin {"init", "created"} /\ ~running) ~> (main \in {"exited", "aborted"})
=============================================================================
