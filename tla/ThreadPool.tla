----------------------------- MODULE ThreadPool -----------------------------
(***************************************************************************)
(* The worker threads and the bounded task queue of                        *)
(* server/network/thread_pool.c.  A critical section under the pool's      *)
(* mutex is one step; a wait on a condition variable releases the mutex,   *)
(* so a thread that waits, is woken and finds the mutex free again takes   *)
(* separate steps.  The owner is the thread that creates the pool, submits *)
(* to it and destroys it: the server's main thread, the only caller.  It   *)
(* submits only what the connection semaphore of TcpServer lets through,   *)
(* which fits the queue; its wait for room on not_full is left out, and    *)
(* SubmitNeverBlocks says that it would never wait.                        *)
(***************************************************************************)
EXTENDS Naturals, Sequences, FiniteSets

CONSTANTS
  Workers,         \* the threads thread_pool_create starts
  Tasks,
  max_queue_size,
  NoTask,
  MaxPoolFaults    \* bound on failing pthread_create and malloc calls

ASSUME QueueAssumption == max_queue_size \in Nat \ {0}
ASSUME WorkersAssumption == IsFiniteSet(Workers) /\ Workers # {}
ASSUME TasksAssumption == IsFiniteSet(Tasks) /\ NoTask \notin Tasks
ASSUME PoolFaultsAssumption == MaxPoolFaults \in Nat

VARIABLES
  queue,      \* queue_head ... queue_tail
  shutdown,
  worker,     \* absent, lock (about to take the mutex), waiting (on
              \* not_empty), running (a task, outside the mutex), exited
  task,       \* the task a worker runs
  owner,      \* creating, idle, submit (about to take the mutex), joining, freed
  otask,      \* the task the owner is submitting
  outcome,    \* what became of a task: none, queued, rejected, running, done
  runs,       \* how often a task was run
  poolFaults

poolVars == <<queue, shutdown, worker, task, owner, otask, outcome, runs, poolFaults>>

\* The shapes of thread_pool_t; the queue never exceeds max_queue_size.
PoolTypeOK ==
  /\ queue \in Seq(Tasks) /\ Len(queue) <= max_queue_size
  /\ shutdown \in BOOLEAN
  /\ worker \in [Workers -> {"absent", "lock", "waiting", "running", "exited"}]
  /\ task \in [Workers -> Tasks \cup {NoTask}]
  /\ owner \in {"creating", "idle", "submit", "joining", "freed"}
  /\ otask \in Tasks \cup {NoTask}
  /\ outcome \in [Tasks -> {"none", "queued", "rejected", "running", "done"}]
  /\ runs \in [Tasks -> Nat]
  /\ poolFaults \in 0 .. MaxPoolFaults

PoolInit ==
  /\ queue = <<>> /\ shutdown = FALSE
  /\ worker = [w \in Workers |-> "absent"]
  /\ task = [w \in Workers |-> NoTask]
  /\ owner = "creating" /\ otask = NoTask
  /\ outcome = [t \in Tasks |-> "none"]
  /\ runs = [t \in Tasks |-> 0]
  /\ poolFaults = 0

Waiting == {w \in Workers : worker[w] = "waiting"}
-----------------------------------------------------------------------------
(* thread_pool_create                                                      *)

CreateWorker(w) ==
  /\ owner = "creating" /\ worker[w] = "absent"
  /\ worker' = [worker EXCEPT ![w] = "lock"]
  /\ UNCHANGED <<queue, shutdown, task, owner, otask, outcome, runs, poolFaults>>

CreateDone ==
  /\ owner = "creating" /\ \A w \in Workers : worker[w] # "absent"
  /\ owner' = "idle"
  /\ UNCHANGED <<queue, shutdown, worker, task, otask, outcome, runs, poolFaults>>

\* The first section of thread_pool_destroy with signals for broadcasts.
mutShutDown ==
  /\ shutdown' = TRUE
  /\ \/ Waiting = {} /\ UNCHANGED worker
     \/ \E w \in Waiting : worker' = [worker EXCEPT ![w] = "lock"]
  /\ owner' = "joining"
  /\ UNCHANGED <<queue, task, otask, outcome, runs>>

\* The first section of thread_pool_destroy: the flag and two broadcasts.  The
\* owner itself is the only submitter, so nobody waits on not_full here.
ShutDown ==
  /\ shutdown' = TRUE
  /\ worker' = [w \in Workers |-> IF w \in Waiting THEN "lock" ELSE worker[w]]
  /\ owner' = "joining"
  /\ UNCHANGED <<queue, task, otask, outcome, runs>>

\* pthread_create fails: the threads started so far are shut down again.
CreateFails ==
  /\ owner = "creating" /\ \E w \in Workers : worker[w] = "absent"
  /\ poolFaults < MaxPoolFaults
  /\ poolFaults' = poolFaults + 1
  /\ ShutDown

Destroy ==
  /\ owner = "idle"
  /\ ShutDown
  /\ UNCHANGED poolFaults

\* The joins are over and the pool is freed.
DestroyDone ==
  /\ owner = "joining"
  /\ \A w \in Workers : worker[w] \in {"absent", "exited"}
  /\ owner' = "freed"
  /\ UNCHANGED <<queue, shutdown, worker, task, otask, outcome, runs, poolFaults>>
-----------------------------------------------------------------------------
(* thread_pool_submit                                                      *)

SubmitCall(t) ==
  /\ owner = "idle" /\ outcome[t] = "none"
  /\ owner' = "submit" /\ otask' = t
  /\ UNCHANGED <<queue, shutdown, worker, task, outcome, runs, poolFaults>>

QueueFull == Len(queue) >= max_queue_size

\* An enqueue that signals nobody.
mutEnqueue ==
  /\ queue' = Append(queue, otask)
  /\ UNCHANGED worker

\* The task goes to the tail and one waiting worker, if any, is signalled.
Enqueue ==
  /\ queue' = Append(queue, otask)
  /\ \/ Waiting = {} /\ UNCHANGED worker
     \/ \E w \in Waiting : worker' = [worker EXCEPT ![w] = "lock"]

SubmitQueues ==
  /\ owner = "submit"
  /\ ~QueueFull /\ ~shutdown
  /\ Enqueue
  /\ owner' = "idle" /\ otask' = NoTask
  /\ outcome' = [outcome EXCEPT ![otask] = "queued"]
  /\ UNCHANGED <<shutdown, task, runs, poolFaults>>

\* No memory for the task node.
SubmitFails ==
  /\ owner = "submit"
  /\ ~QueueFull /\ ~shutdown
  /\ poolFaults < MaxPoolFaults
  /\ poolFaults' = poolFaults + 1
  /\ owner' = "idle" /\ otask' = NoTask
  /\ outcome' = [outcome EXCEPT ![otask] = "rejected"]
  /\ UNCHANGED <<queue, shutdown, worker, task, runs>>
-----------------------------------------------------------------------------
(* worker_thread                                                           *)

WorkerWaits(w) ==
  /\ worker[w] = "lock"
  /\ queue = <<>> /\ ~shutdown
  /\ worker' = [worker EXCEPT ![w] = "waiting"]
  /\ UNCHANGED <<queue, shutdown, task, owner, otask, outcome, runs, poolFaults>>

\* An exit that does not look at the queue.
mutWorkerExits(w) ==
  /\ worker[w] = "lock"
  /\ shutdown
  /\ worker' = [worker EXCEPT ![w] = "exited"]
  /\ UNCHANGED <<queue, shutdown, task, owner, otask, outcome, runs, poolFaults>>

WorkerExits(w) ==
  /\ worker[w] = "lock"
  /\ shutdown /\ queue = <<>>
  /\ worker' = [worker EXCEPT ![w] = "exited"]
  /\ UNCHANGED <<queue, shutdown, task, owner, otask, outcome, runs, poolFaults>>

\* It also signals not_full, on which nobody waits (SubmitNeverBlocks).
WorkerTakes(w) ==
  /\ worker[w] = "lock"
  /\ queue # <<>>
  /\ queue' = Tail(queue)
  /\ worker' = [worker EXCEPT ![w] = "running"]
  /\ task' = [task EXCEPT ![w] = Head(queue)]
  /\ outcome' = [outcome EXCEPT ![Head(queue)] = "running"]
  /\ runs' = [runs EXCEPT ![Head(queue)] = @ + 1]
  /\ UNCHANGED <<shutdown, owner, otask, poolFaults>>

WorkerDone(w) ==
  /\ worker[w] = "running"
  /\ worker' = [worker EXCEPT ![w] = "lock"]
  /\ task' = [task EXCEPT ![w] = NoTask]
  /\ outcome' = [outcome EXCEPT ![task[w]] = "done"]
  /\ UNCHANGED <<queue, shutdown, owner, otask, runs, poolFaults>>

\* pthread_cond_wait may return without a signal.
SpuriousWakeup(w) ==
  /\ worker[w] = "waiting"
  /\ worker' = [worker EXCEPT ![w] = "lock"]
  /\ UNCHANGED <<queue, shutdown, task, owner, otask, outcome, runs, poolFaults>>

WorkerStep(w) == WorkerWaits(w) \/ WorkerExits(w) \/ WorkerTakes(w)

-----------------------------------------------------------------------------
(* Properties                                                              *)

(* Every task that thread_pool_submit accepted is run once, no task is run    *)
(* twice, and when thread_pool_destroy returns none is left in the queue:      *)
(* thread_pool.h, "finish queued tasks, then join all threads".                *)
AcceptedTasksRunOnce ==
  /\ \A t \in Tasks : runs[t] <= 1
  /\ \A t \in Tasks : outcome[t] = "done" => runs[t] = 1
  /\ owner = "freed" => \A t \in Tasks : outcome[t] \in {"none", "rejected", "done"}

(* No wakeup is lost: while a worker waits on not_empty, every queued task has *)
(* a worker of its own that is on its way to the queue.                        *)
QueuedTasksHaveAWorker ==
  Waiting # {} => Len(queue) <= Cardinality({w \in Workers : worker[w] = "lock"})
=============================================================================
