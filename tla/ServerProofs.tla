---------------------------- MODULE ServerProofs ----------------------------
(***************************************************************************)
(* The accept loop, the connection semaphore, the thread pool and the      *)
(* order of start-up and shutdown, for every number of worker threads,     *)
(* connections and slots, and any number of signals and failing calls.     *)
(***************************************************************************)
EXTENDS TcpServer, FiniteSetTheorems, SequenceTheorems, TLAPS

-----------------------------------------------------------------------------
(* The inductive invariant.                                                *)

\* The queue holds each queued task once, and nothing else.
QueueIsExact ==
    /\ \A i, j \in 1 .. Len(queue) : queue[i] = queue[j] => i = j
    /\ \A i \in 1 .. Len(queue) : outcome[queue[i]] = "queued"
    /\ \A t \in Tasks : outcome[t] = "queued" => \E i \in 1 .. Len(queue) : queue[i] = t

\* A running task has one worker, and a worker outside the mutex one task.
RunningIsExact ==
    /\ \A w \in Workers : worker[w] = "running" <=> task[w] # NoTask
    /\ \A w \in Workers : worker[w] = "running" => outcome[task[w]] = "running"
    /\ \A v, w \in Workers : worker[v] = "running" /\ task[v] = task[w] => v = w
    /\ \A t \in Tasks : outcome[t] = "running" => \E w \in Workers : worker[w] = "running" /\ task[w] = t
    /\ \A t \in Tasks : runs[t] = IF outcome[t] \in {"running", "done"} THEN 1 ELSE 0

\* Where the main thread is against what it does with the pool.
MainOwnsThePool ==
    /\ main = "init" => owner \in {"creating", "joining"}
    /\ main = "aborted" => owner \in {"creating", "freed"}
    /\ main \in {"created", "loop", "slot", "check", "accept", "stop", "destroy"} => owner = "idle"
    /\ main = "submit" => owner = "submit"
    /\ main = "join" => owner = "joining"
    /\ main \in {"teardown", "exited"} => owner = "freed" \/ sock = "none"
    /\ shutdown <=> owner \in {"joining", "freed"}
    /\ sock = "none" => main \in {"init", "aborted", "teardown", "exited"} /\ owner = "creating"

\* The task in thread_pool_submit is one of an open connection, not yet queued.
SubmitHasItsTask ==
    /\ otask # NoTask <=> owner = "submit"
    /\ owner = "submit" => outcome[otask] = "none" /\ conn[otask] = "open"

\* Threads are complete before the first task, and leave only an empty queue.
WorkersAreInOrder ==
    /\ owner \in {"idle", "submit"} => \A w \in Workers : worker[w] # "absent"
    /\ \A w \in Workers : worker[w] = "absent" => queue = <<>>
    /\ \A w \in Workers : worker[w] = "exited" => shutdown /\ queue = <<>>
    /\ owner = "freed" => \A w \in Workers : worker[w] \in {"absent", "exited"}
    /\ \A w \in Workers : worker[w] = "waiting" => ~shutdown

\* The socket of a connection against the task that is to serve it.
ConnsAreHeld ==
    /\ main \in {"init", "aborted"} \/ sock = "none" =>
         \A c \in Tasks : outcome[c] = "none" /\ conn[c] \in {"out", "backlog"}
    /\ \A c \in Tasks : conn[c] = "open" => c = otask \/ outcome[c] \in {"queued", "running"}
    /\ \A c \in Tasks : outcome[c] = "queued" => conn[c] = "open"
    /\ \A c \in Tasks : outcome[c] = "running" => conn[c] \in {"open", "closed"}
    /\ \A c \in Tasks : outcome[c] \in {"rejected", "done"} => conn[c] = "closed"

\* The workers whose connection is closed and whose slot is not yet given back.
Releasing == {w \in Workers : worker[w] = "running" /\ conn[task[w]] = "closed"}

Serving == main \notin {"init", "teardown", "exited", "aborted"}

\* Every slot is free, in the hands of the accept loop, or with a connection.
SlotsAreCounted ==
    /\ Serving =>
         sem + Cardinality(Open) + Cardinality(Releasing)
             + (IF main \in {"check", "accept"} THEN 1 ELSE 0)
         = MAX_CONNECTIONS + (IF main \in {"destroy", "join"} THEN 1 ELSE 0)
    /\ main \in {"destroy", "join"} => sem >= 1

\* The subsystems against those they use and against the main thread.
SubsystemsAreInOrder ==
    /\ \A s \in Alive : Uses(s) \subseteq Alive
    /\ sock # "none" => Initialized
    /\ (\E s \in Subsystems : sub[s] = "freed") => main \in {"teardown", "exited"}
    /\ \A s \in Required : sub[s] # "null"

ServerInv ==
    /\ TypeOK /\ QueueIsExact /\ RunningIsExact /\ MainOwnsThePool /\ SubmitHasItsTask
    /\ WorkersAreInOrder /\ QueuedTasksHaveAWorker
    /\ ConnsAreHeld /\ SlotsAreCounted /\ SubsystemsAreInOrder

-----------------------------------------------------------------------------
(* The orders of server_init and server_shutdown.                          *)

\* server_shutdown destroys what server_init creates.
LEMMA OrdersAgree ==
    /\ DOMAIN ShutdownOrder = 1 .. 12
    /\ Subsystems = {ShutdownOrder[i] : i \in 1 .. 12}
<1>1. DOMAIN ShutdownOrder = 1 .. 12
  BY DEF ShutdownOrder
<1>2. Subsystems = {ShutdownOrder[i] : i \in 1 .. 12}
  BY DEF Subsystems, InitOrder, ShutdownOrder
<1> QED BY <1>1, <1>2

\* A subsystem is destroyed before the ones it uses.
LEMMA UsersGoFirst ==
    \A i, j \in 1 .. 12 : ShutdownOrder[i] \in Uses(ShutdownOrder[j]) => j < i
  BY DEF Uses, ShutdownOrder

\* The size of an initial interval.
LEMMA IntervalSize ==
    ASSUME NEW n \in Nat
    PROVE  IsFiniteSet(1 .. n) /\ Cardinality(1 .. n) = n
<1>1. IsFiniteSet(1 .. n) /\ Cardinality(1 .. n) = IF 1 > n THEN 0 ELSE n - 1 + 1
  BY FS_Interval
<1> QED BY <1>1

-----------------------------------------------------------------------------
(* Sets and their sizes.                                                   *)

\* Tasks and threads are finitely many, and so are the sets counted below.
LEMMA PartsAreFinite ==
    /\ IsFiniteSet(Open) /\ Cardinality(Open) \in Nat
    /\ IsFiniteSet(Releasing) /\ Cardinality(Releasing) \in Nat
    /\ IsFiniteSet({w \in Workers : worker[w] = "lock"})
    /\ Cardinality({w \in Workers : worker[w] = "lock"}) \in Nat
<1>1. Open \subseteq Tasks
  BY DEF Open, Conns
<1>2. Releasing \subseteq Workers
  BY DEF Releasing
<1>3. IsFiniteSet(Open) /\ IsFiniteSet(Releasing) /\ IsFiniteSet({w \in Workers : worker[w] = "lock"})
  BY <1>1, <1>2, WorkersAssumption, TasksAssumption, FS_Subset
<1> QED BY <1>3, FS_CardinalityType

\* A sequence without repetitions is no longer than a set it takes its values in.
LEMMA InjectiveIsShort ==
    ASSUME NEW S, IsFiniteSet(S), NEW q \in Seq(S),
           \A i, j \in 1 .. Len(q) : q[i] = q[j] => i = j
    PROVE  Len(q) <= Cardinality(S)
<1>1. q \in Injection(1 .. Len(q), S)
  BY DEF Injection, IsInjective
<1>2. IsFiniteSet(1 .. Len(q)) /\ Cardinality(1 .. Len(q)) = Len(q)
  BY IntervalSize, LenProperties
<1> QED BY <1>1, <1>2, FS_Injection

-----------------------------------------------------------------------------
(* The parts of the invariant that a step may leave alone.                 *)

\* What is said of the pool alone.
PoolPart == PoolTypeOK /\ QueueIsExact /\ RunningIsExact /\ WorkersAreInOrder /\ QueuedTasksHaveAWorker

\* The shapes of the server's own variables, without the upper end of sem.
ServerTypes ==
    /\ main \in MainStates
    /\ running \in BOOLEAN /\ g_shutdown \in BOOLEAN
    /\ sock \in {"none", "open", "shut", "closed"}
    /\ sem \in Nat
    /\ conn \in [Tasks -> {"out", "backlog", "open", "closed", "refused"}]
    /\ sub \in [Subsystems -> {"none", "alive", "null", "freed"}]
    /\ signals \in 0 .. MaxSignals /\ faults \in 0 .. MaxFaults

\* What is said of the main thread and the connections.
MainPart == MainOwnsThePool /\ SubmitHasItsTask /\ ConnsAreHeld

(* The invariant by parts: the pool, the types, the main thread, the slots *)
(* and the subsystems.                                                     *)
LEMMA ServerInvParts ==
    ServerInv => /\ PoolPart /\ ServerTypes /\ MainPart /\ SlotsAreCounted /\ SubsystemsAreInOrder
                 /\ sem <= MAX_CONNECTIONS + 1
<1> SUFFICES ASSUME ServerInv
             PROVE  /\ PoolPart /\ ServerTypes /\ MainPart /\ SlotsAreCounted /\ SubsystemsAreInOrder
                    /\ sem <= MAX_CONNECTIONS + 1
  OBVIOUS
<1>1. sem \in Nat /\ sem <= MAX_CONNECTIONS + 1
  BY QueueAssumption DEF ServerInv, TypeOK, MAX_CONNECTIONS
<1> QED BY <1>1 DEF ServerInv, TypeOK, PoolPart, ServerTypes, MainPart, Conns

\* The parts give the invariant back: the count bounds the semaphore.
LEMMA ServerInvNext ==
    ASSUME PoolPart', ServerTypes', MainPart', SlotsAreCounted', SubsystemsAreInOrder',
           Serving' \/ sem' <= MAX_CONNECTIONS + 1
    PROVE  ServerInv'
<1>1. sem' \in 0 .. MAX_CONNECTIONS + 1
  <2>1. sem' \in Nat /\ MAX_CONNECTIONS \in Nat
    BY QueueAssumption DEF ServerTypes, MAX_CONNECTIONS
  <2>2. CASE Serving'
    <3>1. Cardinality(Open') \in Nat /\ Cardinality(Releasing') \in Nat
      <4>1. Open' \subseteq Tasks /\ Releasing' \subseteq Workers
        BY DEF Open, Conns, Releasing
      <4>2. IsFiniteSet(Open') /\ IsFiniteSet(Releasing')
        BY <4>1, WorkersAssumption, TasksAssumption, FS_Subset
      <4> QED BY <4>2, FS_CardinalityType
    <3>2. sem' + Cardinality(Open') + Cardinality(Releasing')
              + (IF main' \in {"check", "accept"} THEN 1 ELSE 0)
          = MAX_CONNECTIONS + (IF main' \in {"destroy", "join"} THEN 1 ELSE 0)
      BY <2>2 DEF SlotsAreCounted
    <3> QED BY <2>1, <3>1, <3>2
  <2> QED BY <2>1, <2>2
<1> QED BY <1>1 DEF ServerInv, TypeOK, PoolPart, ServerTypes, MainPart, Conns

\* Steps of the main thread outside the pool.
LEMMA PoolFrame == ASSUME PoolPart, UNCHANGED poolVars PROVE PoolPart'
<1>1. UNCHANGED <<queue, shutdown, worker, task, owner, otask, outcome, runs, poolFaults>>
  BY DEF poolVars
<1>2. PoolTypeOK'
  BY <1>1 DEF PoolPart, PoolTypeOK
<1>3. QueueIsExact' /\ RunningIsExact'
  BY <1>1 DEF PoolPart, QueueIsExact, RunningIsExact
<1>4. WorkersAreInOrder'
  BY <1>1 DEF PoolPart, WorkersAreInOrder
<1>5. QueuedTasksHaveAWorker'
  BY <1>1 DEF PoolPart, QueuedTasksHaveAWorker, Waiting
<1> QED BY <1>2, <1>3, <1>4, <1>5 DEF PoolPart

-----------------------------------------------------------------------------
(* Every action keeps the invariant: first what the main thread does by    *)
(* itself.                                                                 *)

\* At the start there is nothing but the process.
LEMMA InitEstablishes == Init => ServerInv
<1> SUFFICES ASSUME Init PROVE ServerInv
  OBVIOUS
<1> USE DEF Conns
<1>1. /\ queue = <<>> /\ shutdown = FALSE /\ worker = [w \in Workers |-> "absent"]
      /\ task = [w \in Workers |-> NoTask] /\ owner = "creating" /\ otask = NoTask
      /\ outcome = [t \in Tasks |-> "none"] /\ runs = [t \in Tasks |-> 0] /\ poolFaults = 0
      /\ main = "init" /\ running = FALSE /\ g_shutdown = FALSE /\ sock = "none" /\ sem = 0
      /\ conn = [c \in Tasks |-> "out"] /\ sub = [s \in Subsystems |-> "none"] /\ signals = 0 /\ faults = 0
  BY DEF Init, PoolInit
<1>2. TypeOK
  <2>1. queue \in Seq(Tasks) /\ Len(queue) = 0
    BY <1>1
  <2>2. /\ Len(queue) <= max_queue_size /\ poolFaults \in 0 .. MaxPoolFaults
        /\ runs \in [Tasks -> Nat] /\ sem \in 0 .. MAX_CONNECTIONS + 1
        /\ signals \in 0 .. MaxSignals /\ faults \in 0 .. MaxFaults
    BY <1>1, <2>1, QueueAssumption, PoolFaultsAssumption, SignalsAssumption, ServerFaultsAssumption
       DEF MAX_CONNECTIONS
  <2>3. /\ worker \in [Workers -> {"absent", "lock", "waiting", "running", "exited"}]
        /\ task \in [Workers -> Tasks \cup {NoTask}]
        /\ outcome \in [Tasks -> {"none", "queued", "rejected", "running", "done"}]
        /\ conn \in [Tasks -> {"out", "backlog", "open", "closed", "refused"}]
    BY <1>1
  <2>4. shutdown \in BOOLEAN /\ running \in BOOLEAN /\ g_shutdown \in BOOLEAN
    BY <1>1
  <2>5. PoolTypeOK
    BY <1>1, <2>1, <2>2, <2>3, <2>4 DEF PoolTypeOK
  <2> QED BY <1>1, <2>2, <2>3, <2>4, <2>5 DEF TypeOK, MainStates
<1>3. QueueIsExact /\ RunningIsExact
  <2>1. Len(queue) = 0
    BY <1>1
  <2> QED BY <1>1, <2>1 DEF QueueIsExact, RunningIsExact
<1>4. MainOwnsThePool /\ SubmitHasItsTask /\ ConnsAreHeld /\ WorkersAreInOrder
  BY <1>1 DEF MainOwnsThePool, SubmitHasItsTask, ConnsAreHeld, WorkersAreInOrder
<1>5. QueuedTasksHaveAWorker
  BY <1>1 DEF QueuedTasksHaveAWorker, Waiting
<1>6. SlotsAreCounted
  BY <1>1 DEF SlotsAreCounted, Serving
<1>7. SubsystemsAreInOrder
  <2>1. Required \subseteq Subsystems
    BY DEF Required, Subsystems, InitOrder
  <2> QED BY <1>1, <2>1 DEF SubsystemsAreInOrder, Alive
<1> QED BY <1>2, <1>3, <1>4, <1>5, <1>6, <1>7 DEF ServerInv

\* server_init: the next subsystem, or none, or the end of the process.
LEMMA InitMoves ==
    ASSUME ServerInv, InitSubsystem \/ SubsystemIsNull \/ InitFails \/ ServerIsNull \/ Listen
    PROVE  ServerInv'
<1>1. /\ PoolPart /\ ServerTypes /\ MainPart /\ SlotsAreCounted /\ SubsystemsAreInOrder
      /\ sem <= MAX_CONNECTIONS + 1
  BY ServerInvParts
<1>2. /\ main = "init" /\ sock = "none" /\ main' \in {"init", "aborted", "teardown"}
      /\ sock' \in {"none", "open"}
      /\ UNCHANGED <<running, g_shutdown, sem, conn, signals>> /\ UNCHANGED poolVars
      /\ sock' = "open" => Initialized /\ main' = "init" /\ sub' = sub
      /\ faults' \in 0 .. MaxFaults
  BY <1>1, ServerFaultsAssumption
     DEF InitSubsystem, SubsystemIsNull, InitFails, ServerIsNull, Listen, ServerTypes
<1>3. PoolPart'
  BY <1>1, <1>2, PoolFrame
<1>4. UNCHANGED <<shutdown, owner, otask, outcome>>
  BY <1>2 DEF poolVars
<1>5. MainPart'
  BY <1>1, <1>2, <1>4 DEF MainPart, MainOwnsThePool, SubmitHasItsTask, ConnsAreHeld
<1>6. SlotsAreCounted' /\ sem' <= MAX_CONNECTIONS + 1
  BY <1>1, <1>2 DEF SlotsAreCounted, Serving
<1>7. sub' \in [Subsystems -> {"none", "alive", "null", "freed"}] /\ SubsystemsAreInOrder'
  <2>1. /\ sub \in [Subsystems -> {"none", "alive", "null", "freed"}]
        /\ \A s \in Subsystems : sub[s] # "freed"
    BY <1>1, <1>2 DEF ServerTypes, SubsystemsAreInOrder
  <2>2. CASE sub' = sub
    BY <1>1, <1>2, <2>1, <2>2 DEF SubsystemsAreInOrder, Alive, Initialized
  <2>3. CASE InitSubsystem
    <3>1. PICK s \in Subsystems : Uses(s) \subseteq Alive /\ sub' = [sub EXCEPT ![s] = "alive"]
      BY <2>3 DEF InitSubsystem
    <3>2. Alive' = Alive \cup {s} /\ sock' = "none"
      BY <2>1, <2>3, <3>1 DEF Alive, InitSubsystem
    <3> QED BY <1>1, <2>1, <3>1, <3>2 DEF SubsystemsAreInOrder
  <2>4. CASE SubsystemIsNull
    <3>1. PICK s \in Subsystems \ Required :
            FirstIn(InitOrder, "none", s) /\ sub' = [sub EXCEPT ![s] = "null"]
      BY <2>4 DEF SubsystemIsNull
    <3>2. sub[s] = "none"
      BY <3>1 DEF FirstIn
    <3>3. Alive' = Alive /\ sock' = "none"
      BY <2>1, <2>4, <3>1, <3>2 DEF Alive, SubsystemIsNull
    <3>4. Required \subseteq Subsystems
      BY DEF Required, Subsystems, InitOrder
    <3> QED BY <1>1, <2>1, <3>1, <3>3, <3>4 DEF SubsystemsAreInOrder
  <2> QED BY <2>2, <2>3, <2>4 DEF InitFails, ServerIsNull, Listen
<1>8. ServerTypes'
  BY <1>1, <1>2, <1>7 DEF ServerTypes, MainStates
<1> QED BY <1>3, <1>5, <1>6, <1>7, <1>8, ServerInvNext

\* The accept loop between two calls of the pool: a slot is in the semaphore or
\* in the hands of the loop.
LEMMA LoopMoves ==
    ASSUME ServerInv,
           StartServer \/ LoopTest \/ TakeSlot \/ SlotTimeout \/ Recheck \/ AcceptFails
    PROVE  ServerInv'
<1>1. /\ PoolPart /\ ServerTypes /\ MainPart /\ SlotsAreCounted /\ SubsystemsAreInOrder
      /\ sem <= MAX_CONNECTIONS + 1
  BY ServerInvParts
<1> DEFINE Between == {"created", "loop", "slot", "check", "accept", "stop"}
           hand(m) == IF m \in {"check", "accept"} THEN 1 ELSE 0
<1>2. /\ main \in Between /\ main' \in Between /\ running' \in BOOLEAN
      /\ UNCHANGED <<g_shutdown, sock, conn, sub, signals>> /\ UNCHANGED poolVars
      /\ faults' \in 0 .. MaxFaults
  <2>1. CASE StartServer \/ LoopTest \/ SlotTimeout
    BY <1>1, <2>1 DEF StartServer, LoopTest, SlotTimeout, MainMoves, ServerTypes
  <2>2. CASE TakeSlot \/ Recheck
    BY <1>1, <2>2 DEF TakeSlot, Recheck, MainMoves, ServerTypes
  <2>3. CASE AcceptFails
    BY <1>1, <2>3, ServerFaultsAssumption DEF AcceptFails, MainMoves, ServerTypes
  <2> QED BY <2>1, <2>2, <2>3
<1>3. sem' \in Nat /\ sem' + hand(main') = sem + hand(main)
  BY <1>1 DEF StartServer, LoopTest, TakeSlot, SlotTimeout, Recheck, AcceptFails, MainMoves, ServerTypes
<1>4. PoolPart'
  BY <1>1, <1>2, PoolFrame
<1>5. UNCHANGED <<shutdown, owner, otask, outcome, worker, task>>
  BY <1>2 DEF poolVars
<1>6. MainPart'
  BY <1>1, <1>2, <1>5 DEF MainPart, MainOwnsThePool, SubmitHasItsTask, ConnsAreHeld
<1>7. SlotsAreCounted'
  <2>1. Open' = Open /\ Releasing' = Releasing
    BY <1>2, <1>5 DEF Open, Releasing
  <2>2. PICK o \in Nat, r \in Nat : o = Cardinality(Open) /\ r = Cardinality(Releasing)
    BY PartsAreFinite
  <2>3. sem + o + r + hand(main) = MAX_CONNECTIONS + 0
    BY <1>1, <1>2, <2>2 DEF SlotsAreCounted, Serving
  <2>4. sem \in Nat /\ hand(main) \in Nat /\ hand(main') \in Nat
    BY <1>1 DEF ServerTypes
  <2> HIDE DEF hand
  <2>5. sem' + o + r + hand(main') = MAX_CONNECTIONS + 0
    BY <1>3, <2>2, <2>3, <2>4
  <2> USE DEF hand
  <2> QED BY <1>2, <2>1, <2>2, <2>5 DEF SlotsAreCounted, Serving
<1>8. SubsystemsAreInOrder'
  BY <1>1, <1>2 DEF SubsystemsAreInOrder, Alive, Initialized
<1>9. ServerTypes' /\ Serving'
  BY <1>1, <1>2, <1>3 DEF ServerTypes, MainStates, Serving
<1> QED BY <1>4, <1>6, <1>7, <1>8, <1>9, ServerInvNext

\* A connection that nobody has accepted has no task.
LEMMA UnservedHasNoTask ==
    ASSUME ServerInv, NEW c \in Tasks, conn[c] \in {"out", "backlog", "refused"}
    PROVE  /\ outcome[c] = "none" /\ c # otask
           /\ \A w \in Workers : worker[w] = "running" => task[w] # c
<1>1. PoolPart /\ MainPart
  BY ServerInvParts
<1>2. outcome \in [Tasks -> {"none", "queued", "rejected", "running", "done"}]
  BY <1>1 DEF PoolPart, PoolTypeOK
<1>3. outcome[c] = "none"
  BY <1>1, <1>2 DEF MainPart, ConnsAreHeld
<1>4. c # otask
  BY <1>1, TasksAssumption DEF MainPart, SubmitHasItsTask
<1>5. \A w \in Workers : worker[w] = "running" => task[w] # c
  BY <1>1, <1>3 DEF PoolPart, RunningIsExact
<1> QED BY <1>3, <1>4, <1>5

\* The task of a running worker.
LEMMA RunningHasItsTask ==
    ASSUME ServerInv, NEW w \in Workers, worker[w] = "running"
    PROVE  /\ task[w] \in Tasks /\ outcome[task[w]] = "running" /\ task[w] # otask
           /\ \A v \in Workers : task[v] = task[w] => v = w
           /\ Serving /\ sock # "none" /\ owner # "freed" /\ owner # "creating"
<1>1. PoolPart /\ MainPart /\ ServerTypes
  BY ServerInvParts
<1>2. task[w] \in Tasks \cup {NoTask}
  BY <1>1 DEF PoolPart, PoolTypeOK
<1>3. task[w] \in Tasks /\ outcome[task[w]] = "running" /\ \A v \in Workers : task[v] = task[w] => v = w
  BY <1>1, <1>2 DEF PoolPart, RunningIsExact
<1>4. task[w] # otask
  BY <1>1, <1>3, TasksAssumption DEF MainPart, SubmitHasItsTask
<1>5. owner # "freed"
  BY <1>1 DEF PoolPart, WorkersAreInOrder
<1>6. main \notin {"init", "aborted"} /\ sock # "none"
  BY <1>1, <1>3 DEF MainPart, ConnsAreHeld
<1>7. main \notin {"teardown", "exited"}
  BY <1>1, <1>5, <1>6 DEF MainPart, MainOwnsThePool
<1>8. owner # "creating"
  BY <1>1, <1>5, <1>6, <1>7 DEF MainPart, MainOwnsThePool, ServerTypes, MainStates
<1> QED BY <1>3, <1>4, <1>5, <1>6, <1>7, <1>8 DEF Serving

\* A client in front of the listening socket gets in, or is closed at once.
LEMMA UnservedMoves ==
    ASSUME ServerInv, NEW c \in Tasks, Connect(c) \/ AcceptDrops(c)
    PROVE  ServerInv'
<1>1. /\ PoolPart /\ ServerTypes /\ MainPart /\ SlotsAreCounted /\ SubsystemsAreInOrder
      /\ sem <= MAX_CONNECTIONS + 1
  BY ServerInvParts
<1>2. /\ conn[c] \in {"out", "backlog"} /\ \E v \in {"backlog", "closed"} : conn' = [conn EXCEPT ![c] = v]
      /\ UNCHANGED <<running, g_shutdown, sock, sub, signals>> /\ UNCHANGED poolVars
      /\ faults' \in 0 .. MaxFaults
  <2>1. CASE Connect(c)
    BY <1>1, <2>1 DEF Connect, ServerTypes
  <2>2. CASE AcceptDrops(c)
    BY <1>1, <2>2, ServerFaultsAssumption DEF AcceptDrops, ServerTypes
  <2> QED BY <2>1, <2>2
<1>3. \/ main' = main /\ sem' = sem /\ conn' = [conn EXCEPT ![c] = "backlog"]
      \/ main = "accept" /\ main' = "loop" /\ sem' = sem + 1 /\ conn' = [conn EXCEPT ![c] = "closed"]
  BY DEF Connect, AcceptDrops, MainMoves
<1>4. PICK v \in {"backlog", "closed"} : conn' = [conn EXCEPT ![c] = v]
  BY <1>2
<1>5. conn' \in [Tasks -> {"out", "backlog", "open", "closed", "refused"}]
  BY <1>1, <1>4 DEF ServerTypes
<1>6. conn'[c] = v /\ \A d \in Tasks \ {c} : conn'[d] = conn[d]
  BY <1>1, <1>4 DEF ServerTypes
<1>7. /\ outcome[c] = "none" /\ c # otask
      /\ \A w \in Workers : worker[w] = "running" => task[w] # c
  BY <1>2, UnservedHasNoTask
<1>8. PoolPart'
  BY <1>1, <1>2, PoolFrame
<1>9. UNCHANGED <<shutdown, owner, otask, outcome, worker, task>>
  BY <1>2 DEF poolVars
<1>10. MainPart'
  <2>1. MainOwnsThePool'
    BY <1>1, <1>2, <1>3, <1>9 DEF MainPart, MainOwnsThePool
  <2>2. SubmitHasItsTask'
    <3>1. otask \in Tasks \cup {NoTask}
      BY <1>1 DEF PoolPart, PoolTypeOK
    <3> QED BY <1>1, <1>6, <1>7, <1>9, <3>1 DEF MainPart, SubmitHasItsTask
  <2>3. main' \in {"init", "aborted"} \/ sock' = "none" =>
          v = "backlog" /\ (main \in {"init", "aborted"} \/ sock = "none")
    BY <1>1, <1>2, <1>3, <1>6 DEF ServerTypes, MainPart, MainOwnsThePool
  <2>4. ConnsAreHeld'
    BY <1>1, <1>6, <1>7, <1>9, <2>3 DEF MainPart, ConnsAreHeld
  <2> QED BY <2>1, <2>2, <2>4 DEF MainPart
<1>11. SlotsAreCounted'
  <2>1. Open' = Open
    BY <1>2, <1>6 DEF Open, Conns
  <2>2. \A w \in Workers : worker[w] = "running" => conn'[task[w]] = conn[task[w]]
    BY <1>6, <1>7, RunningHasItsTask
  <2>3. Releasing' = Releasing
    BY <1>9, <2>2 DEF Releasing
  <2>4. CASE main' = main /\ sem' = sem
    BY <1>1, <2>1, <2>3, <2>4 DEF SlotsAreCounted, Serving
  <2>5. CASE main = "accept" /\ main' = "loop" /\ sem' = sem + 1
    <3>1. PICK o \in Nat, r \in Nat : o = Cardinality(Open) /\ r = Cardinality(Releasing)
      BY PartsAreFinite
    <3>2. sem + o + r + 1 = MAX_CONNECTIONS + 0 /\ sem \in Nat
      BY <1>1, <2>5, <3>1 DEF SlotsAreCounted, Serving, ServerTypes
    <3>3. sem' + o + r + 0 = MAX_CONNECTIONS + 0
      BY <2>5, <3>1, <3>2
    <3> QED BY <2>1, <2>3, <2>5, <3>1, <3>3 DEF SlotsAreCounted, Serving
  <2> QED BY <1>3, <2>4, <2>5
<1>12. SubsystemsAreInOrder'
  BY <1>1, <1>2, <1>3 DEF SubsystemsAreInOrder, Alive, Initialized
<1>13. ServerTypes'
  BY <1>1, <1>2, <1>3, <1>5 DEF ServerTypes, MainStates
<1>14. Serving' \/ sem' <= MAX_CONNECTIONS + 1
  BY <1>1, <1>3 DEF Serving
<1> QED BY <1>8, <1>10, <1>11, <1>12, <1>13, <1>14, ServerInvNext

\* client_handler returns and the socket is closed; the slot is still taken.
LEMMA HandlerEndsKeeps ==
    ASSUME ServerInv, NEW w \in Workers, HandlerEnds(w)
    PROVE  ServerInv'
<1>1. /\ PoolPart /\ ServerTypes /\ MainPart /\ SlotsAreCounted /\ SubsystemsAreInOrder
      /\ sem <= MAX_CONNECTIONS + 1
  BY ServerInvParts
<1>2. /\ worker[w] = "running" /\ conn[task[w]] = "open"
      /\ conn' = [conn EXCEPT ![task[w]] = "closed"]
      /\ UNCHANGED <<main, running, g_shutdown, sock, sem, sub, signals, faults>> /\ UNCHANGED poolVars
  BY DEF HandlerEnds
<1>3. /\ task[w] \in Tasks /\ outcome[task[w]] = "running" /\ task[w] # otask
      /\ \A v \in Workers : task[v] = task[w] => v = w
      /\ Serving
  BY <1>2, RunningHasItsTask
<1>4. PICK c \in Tasks : c = task[w]
  BY <1>3
<1>5. conn'[c] = "closed" /\ \A d \in Tasks \ {c} : conn'[d] = conn[d]
  BY <1>1, <1>2, <1>4 DEF ServerTypes
<1>6. PoolPart'
  BY <1>1, <1>2, PoolFrame
<1>7. UNCHANGED <<shutdown, owner, otask, outcome, worker, task>>
  BY <1>2 DEF poolVars
<1>8. MainPart'
  <2>1. MainOwnsThePool'
    BY <1>1, <1>2, <1>7 DEF MainPart, MainOwnsThePool
  <2>2. SubmitHasItsTask'
    <3>1. otask \in Tasks \cup {NoTask}
      BY <1>1 DEF PoolPart, PoolTypeOK
    <3> QED BY <1>1, <1>3, <1>4, <1>5, <1>7, <3>1 DEF MainPart, SubmitHasItsTask
  <2>3. ConnsAreHeld'
    BY <1>1, <1>2, <1>3, <1>4, <1>5, <1>7 DEF MainPart, ConnsAreHeld, Serving
  <2> QED BY <2>1, <2>2, <2>3 DEF MainPart
<1>9. SlotsAreCounted'
  <2>1. Open' = Open \ {c} /\ c \in Open
    BY <1>2, <1>4, <1>5 DEF Open, Conns
  <2>2. Releasing' = Releasing \cup {w} /\ w \notin Releasing
    <3>1. \A v \in Workers \ {w} : worker[v] = "running" => conn'[task[v]] = conn[task[v]]
      <4> SUFFICES ASSUME NEW v \in Workers \ {w}, worker[v] = "running"
                   PROVE  conn'[task[v]] = conn[task[v]]
        OBVIOUS
      <4>1. task[v] \in Tasks
        BY RunningHasItsTask
      <4> QED BY <1>3, <1>4, <1>5, <4>1
    <3> QED BY <1>2, <1>4, <1>5, <1>7, <3>1 DEF Releasing
  <2>3. PICK o \in Nat, r \in Nat : o = Cardinality(Open) /\ r = Cardinality(Releasing)
    BY PartsAreFinite
  <2>4. Cardinality(Open') = o - 1 /\ Cardinality(Releasing') = r + 1
    BY <2>1, <2>2, <2>3, PartsAreFinite, FS_AddElement, FS_RemoveElement
  <2>5. sem + o + r + (IF main \in {"check", "accept"} THEN 1 ELSE 0)
          = MAX_CONNECTIONS + (IF main \in {"destroy", "join"} THEN 1 ELSE 0)
    BY <1>1, <1>3, <2>3 DEF SlotsAreCounted
  <2>6. sem + (o - 1) + (r + 1) + (IF main \in {"check", "accept"} THEN 1 ELSE 0)
          = MAX_CONNECTIONS + (IF main \in {"destroy", "join"} THEN 1 ELSE 0)
    BY <1>1, <2>3, <2>5 DEF ServerTypes
  <2> QED BY <1>1, <1>2, <2>4, <2>6 DEF SlotsAreCounted
<1>10. SubsystemsAreInOrder'
  BY <1>1, <1>2 DEF SubsystemsAreInOrder, Alive, Initialized
<1>11. ServerTypes'
  BY <1>1, <1>2 DEF ServerTypes
<1>12. Serving'
  BY <1>2, <1>3 DEF Serving
<1> QED BY <1>6, <1>8, <1>9, <1>10, <1>11, <1>12, ServerInvNext

\* A signal and tcp_server_stop refuse the clients that wait to be accepted.
LEMMA RefusalMoves ==
    ASSUME ServerInv, Signal \/ Stop
    PROVE  ServerInv'
<1>1. /\ PoolPart /\ ServerTypes /\ MainPart /\ SlotsAreCounted /\ SubsystemsAreInOrder
      /\ sem <= MAX_CONNECTIONS + 1
  BY ServerInvParts
<1>2. /\ \E S \in SUBSET {c \in Tasks : conn[c] = "backlog"} :
            conn' = [c \in Tasks |-> IF c \in S THEN "refused" ELSE conn[c]]
      /\ main = "init" \/ sock = "none" => conn' = conn
  <2>1. PICK S : S = {c \in Tasks : conn[c] = "backlog"}
    OBVIOUS
  <2>2. CASE Stop
    <3>1. conn' = [c \in Tasks |-> IF c \in S THEN "refused" ELSE conn[c]] /\ main = "stop"
      BY <2>1, <2>2 DEF Stop, Conns, MainMoves
    <3> QED BY <1>1, <2>1, <3>1 DEF MainPart, MainOwnsThePool
  <2>3. CASE Signal /\ main # "init" /\ sock = "open"
    <3>1. conn' = [c \in Tasks |-> IF c \in S THEN "refused" ELSE conn[c]]
      BY <2>1, <2>3 DEF Signal, signal_handler, Conns
    <3> QED BY <2>1, <2>3, <3>1
  <2>4. CASE Signal /\ ~(main # "init" /\ sock = "open")
    <3>1. conn' = [c \in Tasks |-> IF c \in {} THEN "refused" ELSE conn[c]] /\ conn' = conn
      BY <1>1, <2>4 DEF Signal, signal_handler, Conns, ServerTypes
    <3>2. {} \in SUBSET {c \in Tasks : conn[c] = "backlog"}
      OBVIOUS
    <3> QED BY <3>1, <3>2
  <2> QED BY <2>2, <2>3, <2>4
<1>3. PICK S \in SUBSET {c \in Tasks : conn[c] = "backlog"} :
        conn' = [c \in Tasks |-> IF c \in S THEN "refused" ELSE conn[c]]
  BY <1>2
<1>4. /\ running' \in BOOLEAN /\ g_shutdown' \in BOOLEAN /\ sock' \in {"none", "open", "shut", "closed"}
      /\ sock' = "none" => sock = "none" /\ main' = main
      /\ sub' = sub /\ faults' = faults /\ signals' \in 0 .. MaxSignals /\ UNCHANGED poolVars
  <2>1. CASE Stop
    BY <1>1, <2>1 DEF Stop, ServerTypes
  <2>2. CASE Signal
    <3>1. signals' \in 0 .. MaxSignals /\ sub' = sub /\ faults' = faults /\ UNCHANGED poolVars /\ main' = main
      BY <1>1, <2>2, SignalsAssumption DEF Signal, ServerTypes
    <3>2. running' \in BOOLEAN /\ g_shutdown' \in BOOLEAN
      BY <1>1, <2>2 DEF Signal, signal_handler, ServerTypes
    <3>3. sock' = sock \/ sock' = "shut"
      BY <2>2 DEF Signal, signal_handler
    <3> QED BY <1>1, <3>1, <3>2, <3>3 DEF ServerTypes
  <2> QED BY <2>1, <2>2
<1>5. \/ main' = main /\ sem' = sem
      \/ main = "stop" /\ main' = "destroy" /\ sem' = sem + 1
  BY DEF Stop, Signal, MainMoves
<1>6. PoolPart'
  BY <1>1, <1>4, PoolFrame
<1>7. UNCHANGED <<shutdown, owner, otask, outcome, worker, task>>
  BY <1>4 DEF poolVars
<1>8. conn' \in [Tasks -> {"out", "backlog", "open", "closed", "refused"}]
  BY <1>1, <1>3 DEF ServerTypes
<1>9. \A d \in Tasks : conn'[d] = conn[d] \/ (conn[d] = "backlog" /\ conn'[d] = "refused")
  BY <1>3
<1>10. sock = "none" => sock' = "none"
  BY <1>1 DEF Stop, Signal, signal_handler, MainMoves, MainPart, MainOwnsThePool
<1>11. MainPart'
  <2>1. MainOwnsThePool'
    BY <1>1, <1>4, <1>5, <1>7, <1>10 DEF MainPart, MainOwnsThePool
  <2>2. SubmitHasItsTask'
    <3>1. otask \in Tasks \cup {NoTask}
      BY <1>1 DEF PoolPart, PoolTypeOK
    <3> QED BY <1>1, <1>7, <1>9, <3>1 DEF MainPart, SubmitHasItsTask
  <2>3. main' \in {"init", "aborted"} \/ sock' = "none" =>
          conn' = conn /\ (main \in {"init", "aborted"} \/ sock = "none")
    BY <1>1, <1>2, <1>4, <1>5 DEF Signal, Stop, MainMoves, ServerTypes
  <2>4. \A c \in Tasks : conn[c] = "backlog" => outcome[c] = "none"
    BY UnservedHasNoTask
  <2>5. ConnsAreHeld'
    BY <1>1, <1>7, <1>9, <2>3, <2>4 DEF MainPart, ConnsAreHeld
  <2> QED BY <2>1, <2>2, <2>5 DEF MainPart
<1>12. SlotsAreCounted'
  <2>1. Open' = Open
    BY <1>9 DEF Open, Conns
  <2>2. Releasing' = Releasing
    <3>1. \A w \in Workers : worker[w] = "running" => (conn'[task[w]] = "closed" <=> conn[task[w]] = "closed")
      BY <1>9, RunningHasItsTask
    <3> QED BY <1>7, <3>1 DEF Releasing
  <2>3. CASE main' = main /\ sem' = sem
    BY <1>1, <2>1, <2>2, <2>3 DEF SlotsAreCounted, Serving
  <2>4. CASE main = "stop" /\ main' = "destroy" /\ sem' = sem + 1
    <3>1. PICK o \in Nat, r \in Nat : o = Cardinality(Open) /\ r = Cardinality(Releasing)
      BY PartsAreFinite
    <3>2. sem + o + r + 0 = MAX_CONNECTIONS + 0 /\ sem \in Nat /\ MAX_CONNECTIONS \in Nat
      BY <1>1, <2>4, <3>1, QueueAssumption DEF SlotsAreCounted, Serving, ServerTypes, MAX_CONNECTIONS
    <3>3. sem' + o + r + 0 = MAX_CONNECTIONS + 1 /\ sem' >= 1
      <4>1. sem' = sem + 1
        BY <2>4
      <4>2. sem' >= 1
        BY <3>2, <4>1
      <4>3. PICK n \in Nat, m \in Nat : n = sem /\ m = MAX_CONNECTIONS
        BY <3>2
      <4>4. n + o + r = m
        BY <3>1, <3>2, <4>3
      <4>5. (n + 1) + o + r + 0 = m + 1
        BY <4>4
      <4> QED BY <4>1, <4>2, <4>3, <4>5
    <3> QED BY <2>1, <2>2, <2>4, <3>1, <3>3 DEF SlotsAreCounted, Serving
  <2> QED BY <1>5, <2>3, <2>4
<1>13. SubsystemsAreInOrder'
  BY <1>1, <1>4, <1>5, <1>10 DEF SubsystemsAreInOrder, Alive, Initialized
<1>14. ServerTypes'
  BY <1>1, <1>4, <1>5, <1>8 DEF ServerTypes, MainStates
<1>15. Serving' \/ sem' <= MAX_CONNECTIONS + 1
  BY <1>1, <1>5 DEF Serving
<1> QED BY <1>6, <1>11, <1>12, <1>13, <1>14, <1>15, ServerInvNext

\* server_shutdown destroys one subsystem.
LEMMA TeardownKeeps ==
    ASSUME ServerInv, Teardown
    PROVE  ServerInv'
<1>1. /\ PoolPart /\ ServerTypes /\ MainPart /\ SlotsAreCounted /\ SubsystemsAreInOrder
      /\ sem <= MAX_CONNECTIONS + 1
  BY ServerInvParts
<1>2. /\ main = "teardown" /\ main' \in {"teardown", "exited"}
      /\ UNCHANGED <<running, g_shutdown, sock, sem, conn, signals, faults>> /\ UNCHANGED poolVars
  BY DEF Teardown
<1>3. PoolPart'
  BY <1>1, <1>2, PoolFrame
<1>4. UNCHANGED <<shutdown, owner, otask, outcome>>
  BY <1>2 DEF poolVars
<1>6. MainPart'
  BY <1>1, <1>2, <1>4 DEF MainPart, MainOwnsThePool, SubmitHasItsTask, ConnsAreHeld
<1>7. SlotsAreCounted'
  BY <1>2 DEF SlotsAreCounted, Serving
<1>8. sub' \in [Subsystems -> {"none", "alive", "null", "freed"}] /\ SubsystemsAreInOrder'
  <2>1. sub \in [Subsystems -> {"none", "alive", "null", "freed"}]
    BY <1>1 DEF ServerTypes
  <2>2. PICK s \in Subsystems : FirstIn(ShutdownOrder, "alive", s) /\ sub' = [sub EXCEPT ![s] = "freed"]
    BY DEF Teardown
  <2>3. PICK i \in 1 .. 12 : s = ShutdownOrder[i] /\ \A j \in 1 .. i - 1 : sub[ShutdownOrder[j]] # "alive"
    BY <2>2, OrdersAgree DEF FirstIn
  <2>4. Alive' = Alive \ {s}
    BY <2>1, <2>2 DEF Alive
  <2>5. ASSUME NEW t \in Alive' PROVE s \notin Uses(t)
    <3>1. PICK j \in 1 .. 12 : t = ShutdownOrder[j]
      BY <2>4, <2>5, OrdersAgree DEF Alive
    <3>2. ~(j < i)
      BY <2>3, <2>4, <2>5, <3>1 DEF Alive
    <3> QED BY <2>3, <3>1, <3>2, UsersGoFirst
  <2>6. \A t \in Alive' : Uses(t) \subseteq Alive'
    BY <1>1, <2>4, <2>5 DEF SubsystemsAreInOrder
  <2>7. /\ sock # "none" => Initialized'
        /\ \A t \in Required : sub'[t] # "null"
    <3>1. Required \subseteq Subsystems
      BY DEF Required, Subsystems, InitOrder
    <3> QED BY <1>1, <2>1, <2>2, <3>1 DEF SubsystemsAreInOrder, Initialized
  <2> QED BY <1>2, <2>1, <2>2, <2>6, <2>7 DEF SubsystemsAreInOrder, Alive, Initialized
<1>9. ServerTypes'
  BY <1>1, <1>2, <1>8 DEF ServerTypes, MainStates
<1> QED BY <1>1, <1>2, <1>3, <1>6, <1>7, <1>8, <1>9, ServerInvNext

-----------------------------------------------------------------------------
(* The steps of the pool.                                                  *)

Locking == {w \in Workers : worker[w] = "lock"}

\* A thread comes to the mutex.
LEMMA OneMoreLocks ==
    ASSUME PoolTypeOK, NEW w \in Workers, worker[w] # "lock", worker' = [worker EXCEPT ![w] = "lock"]
    PROVE  Cardinality(Locking') = Cardinality(Locking) + 1
<1>1. Locking' = Locking \cup {w} /\ w \notin Locking
  BY DEF Locking, PoolTypeOK
<1>2. IsFiniteSet(Locking)
  BY PartsAreFinite DEF Locking
<1> QED BY <1>1, <1>2, FS_AddElement

\* A thread leaves the mutex.
LEMMA OneLessLocks ==
    ASSUME PoolTypeOK, NEW w \in Workers, worker[w] = "lock", NEW v, v # "lock",
           worker' = [worker EXCEPT ![w] = v]
    PROVE  Cardinality(Locking') = Cardinality(Locking) - 1
<1>1. Locking' = Locking \ {w} /\ w \in Locking
  BY DEF Locking, PoolTypeOK
<1>2. IsFiniteSet(Locking)
  BY PartsAreFinite DEF Locking
<1> QED BY <1>1, <1>2, FS_RemoveElement

\* A thread that runs nothing changes its place: the tasks, the owner and the
\* connections stay as they are.
LEMMA IdleThreadMoves ==
    ASSUME ServerInv, NEW w \in Workers, NEW v \in {"lock", "waiting", "exited"},
           worker[w] \in {"absent", "lock", "waiting"}, worker' = [worker EXCEPT ![w] = v],
           UNCHANGED <<queue, shutdown, task, owner, otask, outcome, runs, poolFaults>>,
           UNCHANGED serverVars
    PROVE  WorkersAreInOrder' /\ QueuedTasksHaveAWorker' => ServerInv'
<1>1. /\ PoolPart /\ ServerTypes /\ MainPart /\ SlotsAreCounted /\ SubsystemsAreInOrder
      /\ sem <= MAX_CONNECTIONS + 1
  BY ServerInvParts
<1>2. UNCHANGED <<main, running, g_shutdown, sock, sem, conn, sub, signals, faults>>
  BY DEF serverVars
<1>3. worker \in [Workers -> {"absent", "lock", "waiting", "running", "exited"}]
  BY <1>1 DEF PoolPart, PoolTypeOK
<1>4. worker'[w] = v /\ \A u \in Workers \ {w} : worker'[u] = worker[u]
  BY <1>3
<1>5. PoolTypeOK'
  BY <1>1, <1>3 DEF PoolPart, PoolTypeOK
<1>6. QueueIsExact'
  BY <1>1 DEF PoolPart, QueueIsExact
<1>7. RunningIsExact'
  <2>1. \A u \in Workers : worker'[u] = "running" <=> worker[u] = "running"
    BY <1>4
  <2> QED BY <1>1, <2>1 DEF PoolPart, RunningIsExact
<1>8. MainPart'
  BY <1>1, <1>2 DEF MainPart, MainOwnsThePool, SubmitHasItsTask, ConnsAreHeld
<1>9. SlotsAreCounted' /\ SubsystemsAreInOrder'
  <2>1. Open' = Open
    BY <1>2 DEF Open
  <2>2. Releasing' = Releasing
    BY <1>2, <1>4 DEF Releasing
  <2> QED BY <1>1, <1>2, <2>1, <2>2 DEF SlotsAreCounted, Serving, SubsystemsAreInOrder, Alive, Initialized
<1>10. ServerTypes' /\ sem' <= MAX_CONNECTIONS + 1
  BY <1>1, <1>2 DEF ServerTypes
<1> QED BY <1>5, <1>6, <1>7, <1>8, <1>9, <1>10, ServerInvNext DEF PoolPart

\* pthread_create, the wait on not_empty and its end, the exit.
LEMMA IdleThreadSteps ==
    ASSUME ServerInv, NEW w \in Workers,
           StartWorker(w) \/ (WorkerWaits(w) /\ UNCHANGED serverVars)
           \/ (WorkerExits(w) /\ UNCHANGED serverVars) \/ (SpuriousWakeup(w) /\ UNCHANGED serverVars)
    PROVE  ServerInv'
<1>1. PoolPart
  BY ServerInvParts
<1>2. /\ WorkersAreInOrder /\ PoolTypeOK /\ QueuedTasksHaveAWorker
      /\ worker \in [Workers -> {"absent", "lock", "waiting", "running", "exited"}]
      /\ queue \in Seq(Tasks) /\ Len(queue) \in Nat
  BY <1>1 DEF PoolPart, PoolTypeOK
<1>3. Cardinality(Locking) \in Nat /\ Cardinality(Locking') \in Nat
  <2>1. Locking' \subseteq Workers
    BY DEF Locking
  <2>2. IsFiniteSet(Locking')
    BY <2>1, WorkersAssumption, FS_Subset
  <2> QED BY <2>2, PartsAreFinite, FS_CardinalityType DEF Locking
<1>4. queue' = <<>> => QueuedTasksHaveAWorker'
  <2> SUFFICES ASSUME queue' = <<>> PROVE QueuedTasksHaveAWorker'
    OBVIOUS
  <2>1. Len(queue') = 0
    OBVIOUS
  <2>2. Len(queue') <= Cardinality(Locking')
    BY <1>3, <2>1
  <2> QED BY <2>2 DEF QueuedTasksHaveAWorker, Locking
<1>5. CASE StartWorker(w)
  <2>1. /\ owner = "creating" /\ worker[w] = "absent" /\ worker' = [worker EXCEPT ![w] = "lock"]
        /\ UNCHANGED <<queue, shutdown, task, owner, otask, outcome, runs, poolFaults>>
        /\ UNCHANGED serverVars
    BY <1>5 DEF StartWorker, CreateWorker
  <2>2. queue' = <<>>
    BY <1>2, <2>1 DEF WorkersAreInOrder
  <2>3. WorkersAreInOrder'
    BY <1>2, <2>1 DEF WorkersAreInOrder
  <2> QED BY <1>4, <2>1, <2>2, <2>3, IdleThreadMoves
<1>6. CASE WorkerWaits(w) /\ UNCHANGED serverVars
  <2>1. /\ worker[w] = "lock" /\ worker' = [worker EXCEPT ![w] = "waiting"] /\ queue = <<>> /\ ~shutdown
        /\ UNCHANGED <<queue, shutdown, task, owner, otask, outcome, runs, poolFaults>>
    BY <1>6 DEF WorkerWaits
  <2>2. WorkersAreInOrder'
    BY <1>2, <2>1 DEF WorkersAreInOrder
  <2> QED BY <1>4, <1>6, <2>1, <2>2, IdleThreadMoves
<1>7. CASE WorkerExits(w) /\ UNCHANGED serverVars
  <2>1. /\ worker[w] = "lock" /\ worker' = [worker EXCEPT ![w] = "exited"] /\ queue = <<>> /\ shutdown
        /\ UNCHANGED <<queue, shutdown, task, owner, otask, outcome, runs, poolFaults>>
    BY <1>7 DEF WorkerExits
  <2>2. WorkersAreInOrder'
    BY <1>2, <2>1 DEF WorkersAreInOrder
  <2> QED BY <1>4, <1>7, <2>1, <2>2, IdleThreadMoves
<1>8. CASE SpuriousWakeup(w) /\ UNCHANGED serverVars
  <2>1. /\ worker[w] = "waiting" /\ worker' = [worker EXCEPT ![w] = "lock"]
        /\ UNCHANGED <<queue, shutdown, task, owner, otask, outcome, runs, poolFaults>>
    BY <1>8 DEF SpuriousWakeup
  <2>2. WorkersAreInOrder'
    BY <1>2, <2>1 DEF WorkersAreInOrder
  <2>3. Len(queue) <= Cardinality(Locking)
    BY <1>2, <2>1 DEF QueuedTasksHaveAWorker, Waiting, Locking
  <2>4. Cardinality(Locking') = Cardinality(Locking) + 1
    BY <1>2, <2>1, OneMoreLocks
  <2>5. Len(queue') <= Cardinality(Locking')
    BY <1>2, <1>3, <2>1, <2>3, <2>4
  <2>6. QueuedTasksHaveAWorker'
    BY <2>5 DEF QueuedTasksHaveAWorker, Locking
  <2> QED BY <1>8, <2>1, <2>2, <2>6, IdleThreadMoves
<1> QED BY <1>5, <1>6, <1>7, <1>8

\* The pool is complete and the semaphore gets its slots.
LEMMA ServerCreatedKeeps ==
    ASSUME ServerInv, ServerCreated
    PROVE  ServerInv'
<1>1. /\ PoolPart /\ ServerTypes /\ MainPart /\ SlotsAreCounted /\ SubsystemsAreInOrder
      /\ sem <= MAX_CONNECTIONS + 1
  BY ServerInvParts
<1>2. /\ main = "init" /\ sock = "open" /\ main' = "created" /\ sem' = MAX_CONNECTIONS
      /\ owner = "creating" /\ owner' = "idle" /\ \A w \in Workers : worker[w] # "absent"
      /\ UNCHANGED <<queue, shutdown, worker, task, otask, outcome, runs, poolFaults>>
      /\ UNCHANGED <<running, g_shutdown, sock, conn, sub, signals, faults>>
  BY DEF ServerCreated, CreateDone
<1>3. PoolPart'
  <2>1. PoolTypeOK'
    BY <1>1, <1>2 DEF PoolPart, PoolTypeOK
  <2>2. QueueIsExact' /\ RunningIsExact' /\ QueuedTasksHaveAWorker'
    BY <1>1, <1>2 DEF PoolPart, QueueIsExact, RunningIsExact, QueuedTasksHaveAWorker, Waiting
  <2>3. WorkersAreInOrder'
    BY <1>1, <1>2 DEF PoolPart, WorkersAreInOrder
  <2> QED BY <2>1, <2>2, <2>3 DEF PoolPart
<1>4. MainPart'
  BY <1>1, <1>2 DEF MainPart, MainOwnsThePool, SubmitHasItsTask, ConnsAreHeld
<1>5. SlotsAreCounted'
  <2>1. \A c \in Tasks : conn[c] # "open"
    BY <1>1, <1>2 DEF MainPart, ConnsAreHeld
  <2>2. \A w \in Workers : worker[w] # "running"
    BY <1>2, RunningHasItsTask DEF Serving
  <2>3. Open' = {} /\ Releasing' = {}
    BY <1>2, <2>1, <2>2 DEF Open, Conns, Releasing
  <2>4. Cardinality(Open') = 0 /\ Cardinality(Releasing') = 0
    BY <2>3, FS_EmptySet
  <2>5. MAX_CONNECTIONS \in Nat
    BY QueueAssumption DEF MAX_CONNECTIONS
  <2> QED BY <1>2, <2>4, <2>5 DEF SlotsAreCounted, Serving
<1>6. SubsystemsAreInOrder'
  BY <1>1, <1>2 DEF SubsystemsAreInOrder, Alive, Initialized
<1>7. ServerTypes' /\ Serving'
  BY <1>1, <1>2, QueueAssumption DEF ServerTypes, MainStates, Serving, MAX_CONNECTIONS
<1> QED BY <1>3, <1>4, <1>5, <1>6, <1>7, ServerInvNext

\* The flag and the broadcasts of thread_pool_destroy, for a complete pool at
\* the end of the server and for a partial one at its start.
LEMMA ShutDownKeeps ==
    ASSUME ServerInv, ShutDown, poolFaults' \in 0 .. MaxPoolFaults, sock # "none",
           UNCHANGED <<running, g_shutdown, sock, sem, conn, sub, signals, faults>>,
           \/ main = "init" /\ main' = "init" /\ owner = "creating"
           \/ main = "destroy" /\ main' = "join" /\ owner = "idle"
    PROVE  ServerInv'
<1>1. /\ PoolPart /\ ServerTypes /\ MainPart /\ SlotsAreCounted /\ SubsystemsAreInOrder
      /\ sem <= MAX_CONNECTIONS + 1
  BY ServerInvParts
<1>2. /\ shutdown' = TRUE /\ owner' = "joining"
      /\ worker' = [w \in Workers |-> IF worker[w] = "waiting" THEN "lock" ELSE worker[w]]
      /\ UNCHANGED <<queue, task, otask, outcome, runs>>
  BY DEF ShutDown, Waiting
<1>3. worker \in [Workers -> {"absent", "lock", "waiting", "running", "exited"}]
  BY <1>1 DEF PoolPart, PoolTypeOK
<1>4. \A w \in Workers : /\ worker'[w] # "waiting"
                         /\ \A p \in {"absent", "running", "exited"} : worker'[w] = p <=> worker[w] = p
  BY <1>2, <1>3
<1>5. PoolPart'
  <2>1. worker' \in [Workers -> {"absent", "lock", "waiting", "running", "exited"}]
    BY <1>2, <1>3
  <2>2. PoolTypeOK'
    BY <1>1, <1>2, <2>1 DEF PoolPart, PoolTypeOK
  <2>3. QueueIsExact'
    BY <1>1, <1>2 DEF PoolPart, QueueIsExact
  <2>4. RunningIsExact'
    BY <1>1, <1>2, <1>4 DEF PoolPart, RunningIsExact
  <2>5. WorkersAreInOrder'
    BY <1>1, <1>2, <1>4 DEF PoolPart, WorkersAreInOrder
  <2>6. QueuedTasksHaveAWorker'
    BY <1>4 DEF QueuedTasksHaveAWorker, Waiting
  <2> QED BY <2>2, <2>3, <2>4, <2>5, <2>6 DEF PoolPart
<1>6. MainPart'
  BY <1>1, <1>2 DEF MainPart, MainOwnsThePool, SubmitHasItsTask, ConnsAreHeld
<1>7. SlotsAreCounted' /\ SubsystemsAreInOrder'
  <2>1. Open' = Open
    BY DEF Open
  <2>2. Releasing' = Releasing
    BY <1>2, <1>4 DEF Releasing
  <2> QED BY <1>1, <2>1, <2>2 DEF SlotsAreCounted, Serving, SubsystemsAreInOrder, Alive, Initialized
<1>8. ServerTypes' /\ sem' <= MAX_CONNECTIONS + 1
  BY <1>1 DEF ServerTypes, MainStates
<1> QED BY <1>5, <1>6, <1>7, <1>8, ServerInvNext

\* The joins of thread_pool_destroy are over: nothing is queued or open.
LEMMA DestroyDoneKeeps ==
    ASSUME ServerInv, DestroyDone, sock # "none",
           UNCHANGED <<running, g_shutdown, sock, sem, conn, sub, signals, faults>>,
           \/ main = "init" /\ main' = "aborted"
           \/ main = "join" /\ main' = "teardown"
    PROVE  ServerInv'
<1>1. /\ PoolPart /\ ServerTypes /\ MainPart /\ SlotsAreCounted /\ SubsystemsAreInOrder
      /\ sem <= MAX_CONNECTIONS + 1
  BY ServerInvParts
<1>2. /\ owner = "joining" /\ owner' = "freed" /\ \A w \in Workers : worker[w] \in {"absent", "exited"}
      /\ UNCHANGED <<queue, shutdown, worker, task, otask, outcome, runs, poolFaults>>
  BY DEF DestroyDone
<1>3. PoolPart'
  <2>1. PoolTypeOK'
    BY <1>1, <1>2 DEF PoolPart, PoolTypeOK
  <2>2. QueueIsExact' /\ RunningIsExact' /\ QueuedTasksHaveAWorker'
    BY <1>1, <1>2 DEF PoolPart, QueueIsExact, RunningIsExact, QueuedTasksHaveAWorker, Waiting
  <2>3. WorkersAreInOrder'
    BY <1>1, <1>2 DEF PoolPart, WorkersAreInOrder
  <2> QED BY <2>1, <2>2, <2>3 DEF PoolPart
<1>4. MainPart'
  BY <1>1, <1>2 DEF MainPart, MainOwnsThePool, SubmitHasItsTask, ConnsAreHeld
<1>5. SlotsAreCounted'
  BY DEF SlotsAreCounted, Serving
<1>6. SubsystemsAreInOrder'
  BY <1>1 DEF SubsystemsAreInOrder, Alive, Initialized
<1>7. ServerTypes' /\ sem' <= MAX_CONNECTIONS + 1
  BY <1>1 DEF ServerTypes, MainStates
<1> QED BY <1>3, <1>4, <1>5, <1>6, <1>7, ServerInvNext

\* thread_pool_destroy, at the end of the server or of a failed start.
LEMMA PoolEnds ==
    ASSUME ServerInv, PoolNotCreated \/ DestroyServer
    PROVE  ServerInv'
<1>1. PoolPart /\ MainPart
  BY ServerInvParts
<1>2. poolFaults \in 0 .. MaxPoolFaults
  BY <1>1 DEF PoolPart, PoolTypeOK
<1>3. CASE PoolNotCreated
  <2>1. /\ main = "init" /\ sock # "none"
        /\ UNCHANGED <<running, g_shutdown, sock, sem, conn, sub, signals, faults>>
    BY <1>3 DEF PoolNotCreated
  <2>2. CASE CreateFails /\ UNCHANGED main
    <3>1. poolFaults' \in 0 .. MaxPoolFaults
      BY <1>2, <2>2, PoolFaultsAssumption DEF CreateFails
    <3>2. ShutDown /\ owner = "creating" /\ main' = "init"
      BY <2>1, <2>2 DEF CreateFails
    <3> QED BY <2>1, <3>1, <3>2, ShutDownKeeps
  <2>3. CASE DestroyDone /\ main' = "aborted"
    BY <2>1, <2>3, DestroyDoneKeeps
  <2> QED BY <1>3, <2>2, <2>3 DEF PoolNotCreated
<1>4. CASE DestroyServer
  <2>1. UNCHANGED <<running, g_shutdown, sock, sem, conn, sub, signals, faults>>
    BY <1>4 DEF DestroyServer
  <2>2. main \in {"destroy", "join"}
    BY <1>4 DEF DestroyServer, MainMoves
  <2>3. sock # "none"
    BY <1>1, <2>2 DEF MainPart, MainOwnsThePool
  <2>4. CASE MainMoves("destroy", "join") /\ Destroy
    <3>1. main = "destroy" /\ main' = "join" /\ owner = "idle" /\ ShutDown /\ poolFaults' = poolFaults
      BY <2>4 DEF MainMoves, Destroy
    <3> QED BY <1>2, <2>1, <2>3, <3>1, ShutDownKeeps
  <2>5. CASE MainMoves("join", "teardown") /\ DestroyDone
    <3>1. main = "join" /\ main' = "teardown" /\ DestroyDone
      BY <2>5 DEF MainMoves
    <3> QED BY <2>1, <2>3, <3>1, DestroyDoneKeeps
  <2> QED BY <1>4, <2>4, <2>5 DEF DestroyServer
<1> QED BY <1>3, <1>4

\* accept hands a connection to the pool: its slot goes with it.
LEMMA AcceptKeeps ==
    ASSUME ServerInv, NEW c \in Tasks, Accept(c)
    PROVE  ServerInv'
<1>1. /\ PoolPart /\ ServerTypes /\ MainPart /\ SlotsAreCounted /\ SubsystemsAreInOrder
      /\ sem <= MAX_CONNECTIONS + 1
  BY ServerInvParts
<1>2. /\ main = "accept" /\ main' = "submit" /\ sock = "open" /\ conn[c] = "backlog"
      /\ conn' = [conn EXCEPT ![c] = "open"] /\ owner = "idle" /\ outcome[c] = "none"
      /\ owner' = "submit" /\ otask' = c
      /\ UNCHANGED <<queue, shutdown, worker, task, outcome, runs, poolFaults>>
      /\ UNCHANGED <<running, g_shutdown, sock, sem, sub, signals, faults>>
  BY DEF Accept, SubmitCall, MainMoves
<1>3. conn'[c] = "open" /\ \A d \in Tasks \ {c} : conn'[d] = conn[d]
  BY <1>1, <1>2 DEF ServerTypes
<1>4. /\ c # otask /\ otask = NoTask
      /\ \A w \in Workers : worker[w] = "running" => task[w] # c
  BY <1>1, <1>2, UnservedHasNoTask DEF MainPart, SubmitHasItsTask
<1>5. PoolPart'
  <2>1. PoolTypeOK'
    BY <1>1, <1>2 DEF PoolPart, PoolTypeOK
  <2>2. QueueIsExact' /\ RunningIsExact' /\ QueuedTasksHaveAWorker'
    BY <1>1, <1>2 DEF PoolPart, QueueIsExact, RunningIsExact, QueuedTasksHaveAWorker, Waiting
  <2>3. WorkersAreInOrder'
    BY <1>1, <1>2 DEF PoolPart, WorkersAreInOrder
  <2> QED BY <2>1, <2>2, <2>3 DEF PoolPart
<1>6. MainPart'
  <2>1. MainOwnsThePool'
    BY <1>1, <1>2 DEF MainPart, MainOwnsThePool
  <2>2. SubmitHasItsTask'
    BY <1>2, <1>3, TasksAssumption DEF SubmitHasItsTask
  <2>3. \A d \in Tasks : d # otask
    BY <1>4, TasksAssumption
  <2>4. ConnsAreHeld'
    BY <1>1, <1>2, <1>3, <2>3 DEF MainPart, ConnsAreHeld
  <2> QED BY <2>1, <2>2, <2>4 DEF MainPart
<1>7. SlotsAreCounted'
  <2>1. Open' = Open \cup {c} /\ c \notin Open
    BY <1>2, <1>3 DEF Open, Conns
  <2>2. \A w \in Workers : worker[w] = "running" => conn'[task[w]] = conn[task[w]]
    BY <1>3, <1>4, RunningHasItsTask
  <2>3. Releasing' = Releasing
    BY <1>2, <2>2 DEF Releasing
  <2>4. PICK o \in Nat, r \in Nat : o = Cardinality(Open) /\ r = Cardinality(Releasing)
    BY PartsAreFinite
  <2>5. Cardinality(Open') = o + 1
    BY <2>1, <2>4, PartsAreFinite, FS_AddElement
  <2>6. sem + o + r + 1 = MAX_CONNECTIONS + 0 /\ sem \in Nat
    BY <1>1, <1>2, <2>4 DEF SlotsAreCounted, Serving, ServerTypes
  <2>7. sem + (o + 1) + r + 0 = MAX_CONNECTIONS + 0
    BY <2>6
  <2> QED BY <1>2, <2>3, <2>4, <2>5, <2>7 DEF SlotsAreCounted, Serving
<1>8. SubsystemsAreInOrder'
  BY <1>1, <1>2 DEF SubsystemsAreInOrder, Alive, Initialized
<1>9. ServerTypes' /\ Serving'
  BY <1>1, <1>2 DEF ServerTypes, MainStates, Serving
<1> QED BY <1>5, <1>6, <1>7, <1>8, <1>9, ServerInvNext

\* What thread_pool_submit finds when it is called.
LEMMA SubmitFinds ==
    ASSUME ServerInv, owner = "submit"
    PROVE  /\ otask \in Tasks /\ outcome[otask] = "none" /\ conn[otask] = "open"
           /\ \A w \in Workers : worker[w] # "running" \/ task[w] # otask
           /\ \A i \in 1 .. Len(queue) : queue[i] # otask
<1>1. PoolPart /\ MainPart
  BY ServerInvParts
<1>2. otask \in Tasks
  BY <1>1 DEF PoolPart, PoolTypeOK, MainPart, SubmitHasItsTask
<1>3. outcome[otask] = "none" /\ conn[otask] = "open"
  BY <1>1 DEF MainPart, SubmitHasItsTask
<1>4. \A w \in Workers : worker[w] # "running" \/ task[w] # otask
  BY <1>3, RunningHasItsTask
<1>5. \A i \in 1 .. Len(queue) : queue[i] # otask
  BY <1>1, <1>3 DEF PoolPart, QueueIsExact
<1> QED BY <1>2, <1>3, <1>4, <1>5

\* The connection goes to the tail of the queue and a waiting worker wakes up.
LEMMA SubmitAcceptedKeeps ==
    ASSUME ServerInv, SubmitAccepted
    PROVE  ServerInv'
<1>1. /\ PoolPart /\ ServerTypes /\ MainPart /\ SlotsAreCounted /\ SubsystemsAreInOrder
      /\ sem <= MAX_CONNECTIONS + 1
  BY ServerInvParts
<1>2. /\ main = "submit" /\ main' = "loop" /\ owner = "submit" /\ owner' = "idle" /\ otask' = NoTask
      /\ ~QueueFull /\ ~shutdown /\ Enqueue
      /\ outcome' = [outcome EXCEPT ![otask] = "queued"]
      /\ UNCHANGED <<shutdown, task, runs, poolFaults>>
      /\ UNCHANGED <<running, g_shutdown, sock, sem, conn, sub, signals, faults>>
  BY DEF SubmitAccepted, SubmitQueues, MainMoves
<1>3. PICK c \in Tasks : c = otask
  BY <1>2, SubmitFinds
<1>4. /\ outcome[c] = "none" /\ conn[c] = "open"
      /\ \A w \in Workers : worker[w] # "running" \/ task[w] # c
      /\ \A i \in 1 .. Len(queue) : queue[i] # c
  BY <1>2, <1>3, SubmitFinds
<1>5. /\ queue \in Seq(Tasks) /\ Len(queue) \in Nat /\ Len(queue) <= max_queue_size
      /\ outcome \in [Tasks -> {"none", "queued", "rejected", "running", "done"}]
      /\ worker \in [Workers -> {"absent", "lock", "waiting", "running", "exited"}]
  BY <1>1 DEF PoolPart, PoolTypeOK
<1>6. outcome'[c] = "queued" /\ \A d \in Tasks \ {c} : outcome'[d] = outcome[d]
  BY <1>2, <1>3, <1>5
<1>7. queue' = Append(queue, c)
  BY <1>2, <1>3 DEF Enqueue
<1>8. /\ queue' \in Seq(Tasks) /\ Len(queue') = Len(queue) + 1 /\ queue'[Len(queue) + 1] = c
      /\ \A i \in 1 .. Len(queue) : queue'[i] = queue[i]
  BY <1>5, <1>7, AppendProperties
<1>9. \/ worker' = worker /\ Waiting = {}
      \/ \E w \in Waiting : worker' = [worker EXCEPT ![w] = "lock"]
  BY <1>2 DEF Enqueue
<1>10. \A w \in Workers : worker'[w] = worker[w] \/ (worker[w] = "waiting" /\ worker'[w] = "lock")
  BY <1>5, <1>9 DEF Waiting
<1>11. worker' \in [Workers -> {"absent", "lock", "waiting", "running", "exited"}]
  BY <1>5, <1>9 DEF Waiting
<1>12. PoolTypeOK'
  <2>1. Len(queue') <= max_queue_size
    BY <1>2, <1>5, <1>8, QueueAssumption DEF QueueFull
  <2>2. outcome' \in [Tasks -> {"none", "queued", "rejected", "running", "done"}]
    BY <1>2, <1>5
  <2> QED BY <1>1, <1>2, <1>8, <1>11, <2>1, <2>2 DEF PoolPart, PoolTypeOK
<1>13. QueueIsExact'
  <2>0. QueueIsExact
    BY <1>1 DEF PoolPart
  <2>1. \A i, j \in 1 .. Len(queue') : queue'[i] = queue'[j] => i = j
    <3> TAKE i, j \in 1 .. Len(queue')
    <3>1. CASE i <= Len(queue) /\ j <= Len(queue)
      BY <1>5, <1>8, <2>0, <3>1 DEF QueueIsExact
    <3>2. CASE i = Len(queue) + 1 \/ j = Len(queue) + 1
      BY <1>4, <1>5, <1>8, <3>2
    <3> QED BY <1>5, <1>8, <3>1, <3>2
  <2>2. \A i \in 1 .. Len(queue') : outcome'[queue'[i]] = "queued"
    <3> TAKE i \in 1 .. Len(queue')
    <3>1. CASE i <= Len(queue)
      <4>1. i \in 1 .. Len(queue) /\ queue'[i] = queue[i] /\ queue[i] \in Tasks /\ queue[i] # c
        BY <1>4, <1>5, <1>8, <3>1
      <4>2. outcome[queue[i]] = "queued"
        BY <2>0, <4>1 DEF QueueIsExact
      <4> QED BY <1>6, <4>1, <4>2
    <3>2. CASE i = Len(queue) + 1
      BY <1>6, <1>8, <3>2
    <3> QED BY <1>5, <1>8, <3>1, <3>2
  <2>3. ASSUME NEW t \in Tasks, outcome'[t] = "queued" PROVE \E i \in 1 .. Len(queue') : queue'[i] = t
    <3>1. CASE t = c
      <4>1. Len(queue) + 1 \in 1 .. Len(queue')
        BY <1>5, <1>8
      <4> QED BY <1>8, <3>1, <4>1
    <3>2. CASE t # c
      <4>1. PICK i \in 1 .. Len(queue) : queue[i] = t
        BY <1>6, <2>0, <2>3, <3>2 DEF QueueIsExact
      <4>2. i \in 1 .. Len(queue') /\ queue'[i] = t
        BY <1>5, <1>8, <4>1
      <4> QED BY <4>2
    <3> QED BY <3>1, <3>2
  <2> QED BY <2>1, <2>2, <2>3 DEF QueueIsExact
<1>14. RunningIsExact'
  <2>1. \A w \in Workers : worker'[w] = "running" <=> worker[w] = "running"
    BY <1>10
  <2>2. \A w \in Workers : worker[w] = "running" => task[w] \in Tasks /\ outcome[task[w]] = "running"
    BY RunningHasItsTask
  <2>3. \A w \in Workers : worker[w] = "running" => outcome'[task[w]] = "running"
    BY <1>4, <1>6, <2>2
  <2> QED BY <1>1, <1>2, <1>4, <1>6, <2>1, <2>3 DEF PoolPart, RunningIsExact
<1>15. WorkersAreInOrder'
  BY <1>1, <1>2, <1>10 DEF PoolPart, WorkersAreInOrder
<1>16. QueuedTasksHaveAWorker'
  <2>1. CASE worker' = worker /\ Waiting = {}
    BY <2>1 DEF QueuedTasksHaveAWorker, Waiting
  <2>2. CASE \E w \in Waiting : worker' = [worker EXCEPT ![w] = "lock"]
    <3>1. PICK w \in Waiting : worker' = [worker EXCEPT ![w] = "lock"]
      BY <2>2
    <3>2. w \in Workers /\ worker[w] = "waiting" /\ Waiting # {}
      BY <3>1 DEF Waiting
    <3>3. Cardinality(Locking') = Cardinality(Locking) + 1 /\ Cardinality(Locking) \in Nat
      BY <1>1, <3>1, <3>2, OneMoreLocks, PartsAreFinite DEF PoolPart, Locking
    <3>4. Len(queue) <= Cardinality(Locking)
      BY <1>1, <3>2 DEF PoolPart, QueuedTasksHaveAWorker, Locking
    <3>5. Len(queue') <= Cardinality(Locking')
      BY <1>5, <1>8, <3>3, <3>4
    <3> QED BY <3>5 DEF QueuedTasksHaveAWorker, Locking
  <2> QED BY <1>9, <2>1, <2>2
<1>17. MainPart'
  <2>1. MainOwnsThePool'
    BY <1>1, <1>2 DEF MainPart, MainOwnsThePool
  <2>2. SubmitHasItsTask'
    BY <1>2 DEF SubmitHasItsTask
  <2>3. ConnsAreHeld'
    BY <1>1, <1>2, <1>3, <1>4, <1>6 DEF MainPart, ConnsAreHeld
  <2> QED BY <2>1, <2>2, <2>3 DEF MainPart
<1>18. SlotsAreCounted' /\ SubsystemsAreInOrder'
  <2>1. Open' = Open
    BY <1>2 DEF Open
  <2>2. Releasing' = Releasing
    BY <1>2, <1>10 DEF Releasing
  <2> QED BY <1>1, <1>2, <2>1, <2>2 DEF SlotsAreCounted, Serving, SubsystemsAreInOrder, Alive, Initialized
<1>19. ServerTypes' /\ Serving'
  BY <1>1, <1>2 DEF ServerTypes, MainStates, Serving
<1>20. PoolPart'
  BY <1>12, <1>13, <1>14, <1>15, <1>16 DEF PoolPart
<1> QED BY <1>17, <1>18, <1>19, <1>20, ServerInvNext

\* No memory for the task: the connection is closed and the slot given back.
LEMMA SubmitRejectedKeeps ==
    ASSUME ServerInv, SubmitRejected
    PROVE  ServerInv'
<1>1. /\ PoolPart /\ ServerTypes /\ MainPart /\ SlotsAreCounted /\ SubsystemsAreInOrder
      /\ sem <= MAX_CONNECTIONS + 1
  BY ServerInvParts
<1>2. /\ main = "submit" /\ main' = "loop" /\ owner = "submit" /\ owner' = "idle" /\ otask' = NoTask
      /\ outcome' = [outcome EXCEPT ![otask] = "rejected"]
      /\ conn' = [conn EXCEPT ![otask] = "closed"] /\ sem' = sem + 1
      /\ poolFaults < MaxPoolFaults /\ poolFaults' = poolFaults + 1
      /\ UNCHANGED <<queue, shutdown, worker, task, runs>>
      /\ UNCHANGED <<running, g_shutdown, sock, sub, signals, faults>>
  BY DEF SubmitRejected, SubmitFails, MainMoves
<1>3. PICK c \in Tasks : c = otask
  BY <1>2, SubmitFinds
<1>4. /\ outcome[c] = "none" /\ conn[c] = "open"
      /\ \A w \in Workers : worker[w] # "running" \/ task[w] # c
      /\ \A i \in 1 .. Len(queue) : queue[i] # c
  BY <1>2, <1>3, SubmitFinds
<1>5. /\ outcome \in [Tasks -> {"none", "queued", "rejected", "running", "done"}]
      /\ queue \in Seq(Tasks)
  BY <1>1 DEF PoolPart, PoolTypeOK
<1>6. outcome'[c] = "rejected" /\ \A d \in Tasks \ {c} : outcome'[d] = outcome[d]
  BY <1>2, <1>3, <1>5
<1>7. conn'[c] = "closed" /\ \A d \in Tasks \ {c} : conn'[d] = conn[d]
  BY <1>1, <1>2, <1>3 DEF ServerTypes
<1>8. PoolPart'
  <2>1. PoolTypeOK'
    <3>1. poolFaults' \in 0 .. MaxPoolFaults
      BY <1>1, <1>2, PoolFaultsAssumption DEF PoolPart, PoolTypeOK
    <3>2. outcome' \in [Tasks -> {"none", "queued", "rejected", "running", "done"}]
      BY <1>2, <1>5
    <3> QED BY <1>1, <1>2, <3>1, <3>2 DEF PoolPart, PoolTypeOK
  <2>2. QueueIsExact'
    <3>1. \A i \in 1 .. Len(queue) : queue[i] \in Tasks \ {c}
      BY <1>4, <1>5
    <3> QED BY <1>1, <1>2, <1>6, <3>1 DEF PoolPart, QueueIsExact
  <2>3. RunningIsExact'
    <3>1. \A w \in Workers : worker[w] = "running" => outcome'[task[w]] = "running"
      BY <1>4, <1>6, RunningHasItsTask
    <3> QED BY <1>1, <1>2, <1>4, <1>6, <3>1 DEF PoolPart, RunningIsExact
  <2>4. WorkersAreInOrder' /\ QueuedTasksHaveAWorker'
    BY <1>1, <1>2 DEF PoolPart, WorkersAreInOrder, QueuedTasksHaveAWorker, Waiting
  <2> QED BY <2>1, <2>2, <2>3, <2>4 DEF PoolPart
<1>9. MainPart'
  <2>1. MainOwnsThePool'
    BY <1>1, <1>2 DEF MainPart, MainOwnsThePool
  <2>2. SubmitHasItsTask'
    BY <1>2 DEF SubmitHasItsTask
  <2>3. ConnsAreHeld'
    BY <1>1, <1>2, <1>3, <1>4, <1>6, <1>7 DEF MainPart, ConnsAreHeld
  <2> QED BY <2>1, <2>2, <2>3 DEF MainPart
<1>10. SlotsAreCounted'
  <2>1. Open' = Open \ {c} /\ c \in Open
    BY <1>4, <1>7 DEF Open, Conns
  <2>2. \A w \in Workers : worker[w] = "running" => conn'[task[w]] = conn[task[w]]
    BY <1>4, <1>7, RunningHasItsTask
  <2>3. Releasing' = Releasing
    BY <1>2, <2>2 DEF Releasing
  <2>4. PICK o \in Nat, r \in Nat : o = Cardinality(Open) /\ r = Cardinality(Releasing)
    BY PartsAreFinite
  <2>5. Cardinality(Open') = o - 1
    BY <2>1, <2>4, PartsAreFinite, FS_RemoveElement
  <2>6. sem + o + r + 0 = MAX_CONNECTIONS + 0 /\ sem \in Nat
    BY <1>1, <1>2, <2>4 DEF SlotsAreCounted, Serving, ServerTypes
  <2>7. (sem + 1) + (o - 1) + r + 0 = MAX_CONNECTIONS + 0
    BY <2>6
  <2> QED BY <1>2, <2>3, <2>4, <2>5, <2>7 DEF SlotsAreCounted, Serving
<1>11. SubsystemsAreInOrder'
  BY <1>1, <1>2 DEF SubsystemsAreInOrder, Alive, Initialized
<1>12. ServerTypes' /\ Serving'
  <2>1. conn' \in [Tasks -> {"out", "backlog", "open", "closed", "refused"}]
    BY <1>1, <1>2, <1>3 DEF ServerTypes
  <2>2. sem' \in Nat
    BY <1>1, <1>2 DEF ServerTypes
  <2> QED BY <1>1, <1>2, <2>1, <2>2 DEF ServerTypes, MainStates, Serving
<1> QED BY <1>8, <1>9, <1>10, <1>11, <1>12, ServerInvNext

\* A worker takes the head of the queue.
LEMMA WorkerTakesKeeps ==
    ASSUME ServerInv, NEW w \in Workers, WorkerTakes(w), UNCHANGED serverVars
    PROVE  ServerInv'
<1>1. /\ PoolPart /\ ServerTypes /\ MainPart /\ SlotsAreCounted /\ SubsystemsAreInOrder
      /\ sem <= MAX_CONNECTIONS + 1
  BY ServerInvParts
<1>2. /\ worker[w] = "lock" /\ queue # <<>> /\ queue' = Tail(queue)
      /\ worker' = [worker EXCEPT ![w] = "running"] /\ task' = [task EXCEPT ![w] = Head(queue)]
      /\ outcome' = [outcome EXCEPT ![Head(queue)] = "running"]
      /\ runs' = [runs EXCEPT ![Head(queue)] = runs[Head(queue)] + 1]
      /\ UNCHANGED <<shutdown, owner, otask, poolFaults>>
  BY DEF WorkerTakes
<1>3. UNCHANGED <<main, running, g_shutdown, sock, sem, conn, sub, signals, faults>>
  BY DEF serverVars
<1>4. /\ queue \in Seq(Tasks) /\ Len(queue) \in Nat /\ Len(queue) <= max_queue_size
      /\ outcome \in [Tasks -> {"none", "queued", "rejected", "running", "done"}]
      /\ worker \in [Workers -> {"absent", "lock", "waiting", "running", "exited"}]
      /\ task \in [Workers -> Tasks \cup {NoTask}]
      /\ runs \in [Tasks -> Nat]
  BY <1>1 DEF PoolPart, PoolTypeOK
<1>5. PICK c \in Tasks : c = Head(queue)
  BY <1>2, <1>4
<1>6. /\ c = queue[1] /\ 1 \in 1 .. Len(queue)
      /\ queue' \in Seq(Tasks) /\ Len(queue') = Len(queue) - 1
      /\ \A i \in 1 .. Len(queue') : queue'[i] = queue[i + 1] /\ i + 1 \in 1 .. Len(queue)
  BY <1>2, <1>4, <1>5, HeadTailProperties
<1>7. QueueIsExact /\ RunningIsExact
  BY <1>1 DEF PoolPart
<1>8. outcome[c] = "queued"
  BY <1>6, <1>7 DEF QueueIsExact
<1>9. /\ outcome'[c] = "running" /\ \A d \in Tasks \ {c} : outcome'[d] = outcome[d]
      /\ worker'[w] = "running" /\ \A u \in Workers \ {w} : worker'[u] = worker[u]
      /\ task'[w] = c /\ \A u \in Workers \ {w} : task'[u] = task[u]
      /\ runs'[c] = runs[c] + 1 /\ \A d \in Tasks \ {c} : runs'[d] = runs[d]
  BY <1>2, <1>4, <1>5
<1>10. \A u \in Workers : worker[u] = "running" => task[u] \in Tasks \ {c}
  BY <1>8, RunningHasItsTask
<1>11. PoolTypeOK'
  <2>1. Len(queue') <= max_queue_size
    BY <1>4, <1>6, QueueAssumption
  <2>2. /\ outcome' \in [Tasks -> {"none", "queued", "rejected", "running", "done"}]
        /\ worker' \in [Workers -> {"absent", "lock", "waiting", "running", "exited"}]
        /\ task' \in [Workers -> Tasks \cup {NoTask}]
    BY <1>2, <1>4, <1>5
  <2>3. runs' \in [Tasks -> Nat]
    BY <1>2, <1>4, <1>5
  <2> QED BY <1>1, <1>2, <1>6, <2>1, <2>2, <2>3 DEF PoolPart, PoolTypeOK
<1>12. QueueIsExact'
  <2>1. \A i \in 1 .. Len(queue') : queue'[i] \in Tasks \ {c}
    <3> TAKE i \in 1 .. Len(queue')
    <3>1. queue'[i] = queue[i + 1] /\ i + 1 \in 1 .. Len(queue) /\ i + 1 # 1
      BY <1>6
    <3>2. queue[i + 1] # queue[1]
      BY <1>6, <1>7, <3>1 DEF QueueIsExact
    <3>3. queue[i + 1] \in Tasks
      BY <1>4, <3>1
    <3> QED BY <1>6, <3>1, <3>2, <3>3
  <2>2. \A i, j \in 1 .. Len(queue') : queue'[i] = queue'[j] => i = j
    <3> TAKE i, j \in 1 .. Len(queue')
    <3> HAVE queue'[i] = queue'[j]
    <3>1. i + 1 = j + 1
      BY <1>6, <1>7 DEF QueueIsExact
    <3> QED BY <3>1
  <2>3. \A i \in 1 .. Len(queue') : outcome'[queue'[i]] = "queued"
    BY <1>6, <1>7, <1>9, <2>1, SMTT(30) DEF QueueIsExact
  <2>4. ASSUME NEW t \in Tasks, outcome'[t] = "queued" PROVE \E i \in 1 .. Len(queue') : queue'[i] = t
    <3>1. t # c /\ outcome[t] = "queued"
      BY <1>9, <2>4
    <3>2. PICK i \in 1 .. Len(queue) : queue[i] = t
      BY <1>7, <3>1 DEF QueueIsExact
    <3>3. i # 1
      BY <1>6, <3>1, <3>2
    <3>4. i - 1 \in 1 .. Len(queue') /\ (i - 1) + 1 = i
      BY <1>4, <1>6, <3>3, SMTT(30)
    <3>5. queue'[i - 1] = queue[(i - 1) + 1]
      BY <1>6, <3>4
    <3> QED BY <3>2, <3>4, <3>5
  <2> QED BY <2>2, <2>3, <2>4 DEF QueueIsExact
<1>13. RunningIsExact'
  <2>1. \A u \in Workers : worker'[u] = "running" <=> task'[u] # NoTask
    BY <1>7, <1>9, TasksAssumption DEF RunningIsExact
  <2>2. \A u \in Workers : worker'[u] = "running" => outcome'[task'[u]] = "running"
    BY <1>7, <1>9, <1>10 DEF RunningIsExact
  <2>3. \A v, u \in Workers : worker'[v] = "running" /\ task'[v] = task'[u] => v = u
    <3> SUFFICES ASSUME NEW v \in Workers, NEW u \in Workers,
                        worker'[v] = "running", task'[v] = task'[u]
                 PROVE  v = u
      OBVIOUS
    <3>1. CASE v = w /\ u # w
      <4>1. task[u] = c
        BY <1>9, <3>1
      <4>2. worker[u] = "running"
        BY <1>7, <4>1, TasksAssumption DEF RunningIsExact
      <4> QED BY <1>10, <4>1, <4>2
    <3>2. CASE v # w /\ u = w
      BY <1>9, <1>10, <3>2
    <3>3. CASE v # w /\ u # w
      BY <1>7, <1>9, <3>3 DEF RunningIsExact
    <3> QED BY <3>1, <3>2, <3>3
  <2>4. ASSUME NEW t \in Tasks, outcome'[t] = "running"
        PROVE  \E u \in Workers : worker'[u] = "running" /\ task'[u] = t
    <3>1. CASE t = c
      BY <1>9, <3>1
    <3>2. CASE t # c
      <4>1. PICK u \in Workers : worker[u] = "running" /\ task[u] = t
        BY <1>7, <1>9, <2>4, <3>2 DEF RunningIsExact
      <4>2. u # w
        BY <1>2, <4>1
      <4> QED BY <1>9, <4>1, <4>2
    <3> QED BY <3>1, <3>2
  <2>5. \A t \in Tasks : runs'[t] = IF outcome'[t] \in {"running", "done"} THEN 1 ELSE 0
    <3> TAKE t \in Tasks
    <3>1. CASE t = c
      <4>1. runs[c] = 0
        BY <1>7, <1>8 DEF RunningIsExact
      <4>2. runs'[c] = 1
        BY <1>9, <4>1
      <4> QED BY <1>9, <3>1, <4>2
    <3>2. CASE t # c
      BY <1>7, <1>9, <3>2 DEF RunningIsExact
    <3> QED BY <3>1, <3>2
  <2> QED BY <2>1, <2>2, <2>3, <2>4, <2>5 DEF RunningIsExact
<1>14. WorkersAreInOrder'
  <2>1. WorkersAreInOrder
    BY <1>1 DEF PoolPart
  <2>2. \A u \in Workers : worker[u] # "absent" /\ worker[u] # "exited"
    BY <1>2, <2>1 DEF WorkersAreInOrder
  <2>3. owner # "freed"
    BY <1>2, <2>1 DEF WorkersAreInOrder
  <2> QED BY <1>2, <1>9, <2>1, <2>2, <2>3 DEF WorkersAreInOrder
<1>15. QueuedTasksHaveAWorker'
  <2>1. Waiting' = Waiting
    BY <1>2, <1>9 DEF Waiting
  <2>2. CASE Waiting = {}
    BY <2>1, <2>2 DEF QueuedTasksHaveAWorker
  <2>3. CASE Waiting # {}
    <3>1. Cardinality(Locking') = Cardinality(Locking) - 1 /\ Cardinality(Locking) \in Nat
      BY <1>1, <1>2, OneLessLocks, PartsAreFinite DEF PoolPart, Locking
    <3>2. Len(queue) <= Cardinality(Locking)
      BY <1>1, <2>3 DEF PoolPart, QueuedTasksHaveAWorker, Locking
    <3>3. Len(queue') <= Cardinality(Locking')
      BY <1>4, <1>6, <3>1, <3>2
    <3> QED BY <3>3 DEF QueuedTasksHaveAWorker, Locking
  <2> QED BY <2>2, <2>3
<1>16. conn[c] = "open"
  BY <1>1, <1>8 DEF MainPart, ConnsAreHeld
<1>17. MainPart'
  <2>1. MainOwnsThePool'
    BY <1>1, <1>2, <1>3 DEF MainPart, MainOwnsThePool
  <2>2. SubmitHasItsTask'
    <3>1. otask \in Tasks \cup {NoTask}
      BY <1>1 DEF PoolPart, PoolTypeOK
    <3> QED BY <1>1, <1>2, <1>3, <1>8, <1>9, <3>1, TasksAssumption DEF MainPart, SubmitHasItsTask
  <2>3. ConnsAreHeld'
    BY <1>1, <1>2, <1>3, <1>8, <1>9, <1>16 DEF MainPart, ConnsAreHeld
  <2> QED BY <2>1, <2>2, <2>3 DEF MainPart
<1>18. SlotsAreCounted' /\ SubsystemsAreInOrder'
  <2>1. Open' = Open
    BY <1>3 DEF Open
  <2>2. Releasing' = Releasing
    BY <1>2, <1>3, <1>9, <1>16 DEF Releasing
  <2> QED BY <1>1, <1>3, <2>1, <2>2 DEF SlotsAreCounted, Serving, SubsystemsAreInOrder, Alive, Initialized
<1>19. ServerTypes' /\ sem' <= MAX_CONNECTIONS + 1
  BY <1>1, <1>3 DEF ServerTypes
<1>20. PoolPart'
  BY <1>11, <1>12, <1>13, <1>14, <1>15 DEF PoolPart
<1> QED BY <1>17, <1>18, <1>19, <1>20, ServerInvNext

\* client_task_wrapper gives the slot back and the worker is done.
LEMMA SlotReleasedKeeps ==
    ASSUME ServerInv, NEW w \in Workers, SlotReleased(w)
    PROVE  ServerInv'
<1>1. /\ PoolPart /\ ServerTypes /\ MainPart /\ SlotsAreCounted /\ SubsystemsAreInOrder
      /\ sem <= MAX_CONNECTIONS + 1
  BY ServerInvParts
<1>2. /\ worker[w] = "running" /\ conn[task[w]] = "closed" /\ sem' = sem + 1
      /\ worker' = [worker EXCEPT ![w] = "lock"] /\ task' = [task EXCEPT ![w] = NoTask]
      /\ outcome' = [outcome EXCEPT ![task[w]] = "done"]
      /\ UNCHANGED <<queue, shutdown, owner, otask, runs, poolFaults>>
      /\ UNCHANGED <<main, running, g_shutdown, sock, conn, sub, signals, faults>>
  BY DEF SlotReleased, WorkerDone
<1>3. /\ task[w] \in Tasks /\ outcome[task[w]] = "running" /\ task[w] # otask
      /\ \A v \in Workers : task[v] = task[w] => v = w
      /\ Serving /\ owner # "freed" /\ owner # "creating"
  BY <1>2, RunningHasItsTask
<1>4. PICK c \in Tasks : c = task[w]
  BY <1>3
<1>5. /\ queue \in Seq(Tasks) /\ Len(queue) \in Nat
      /\ outcome \in [Tasks -> {"none", "queued", "rejected", "running", "done"}]
      /\ worker \in [Workers -> {"absent", "lock", "waiting", "running", "exited"}]
      /\ task \in [Workers -> Tasks \cup {NoTask}]
  BY <1>1 DEF PoolPart, PoolTypeOK
<1>6. /\ outcome'[c] = "done" /\ \A d \in Tasks \ {c} : outcome'[d] = outcome[d]
      /\ worker'[w] = "lock" /\ \A u \in Workers \ {w} : worker'[u] = worker[u]
      /\ task'[w] = NoTask /\ \A u \in Workers \ {w} : task'[u] = task[u]
  BY <1>2, <1>4, <1>5
<1>7. QueueIsExact /\ RunningIsExact
  BY <1>1 DEF PoolPart
<1>8. PoolTypeOK'
  <2>1. /\ outcome' \in [Tasks -> {"none", "queued", "rejected", "running", "done"}]
        /\ worker' \in [Workers -> {"absent", "lock", "waiting", "running", "exited"}]
        /\ task' \in [Workers -> Tasks \cup {NoTask}]
    BY <1>2, <1>4, <1>5
  <2> QED BY <1>1, <1>2, <2>1 DEF PoolPart, PoolTypeOK
<1>9. QueueIsExact'
  <2>1. \A i \in 1 .. Len(queue) : queue[i] \in Tasks \ {c}
    BY <1>3, <1>4, <1>5, <1>7 DEF QueueIsExact
  <2> QED BY <1>2, <1>3, <1>4, <1>6, <1>7, <2>1 DEF QueueIsExact
<1>10. RunningIsExact'
  <2>1. \A u \in Workers : worker'[u] = "running" <=> task'[u] # NoTask
    BY <1>6, <1>7 DEF RunningIsExact
  <2>2. \A u \in Workers \ {w} : worker[u] = "running" => task[u] \in Tasks \ {c}
    BY <1>3, <1>4, RunningHasItsTask
  <2>3. \A u \in Workers : worker'[u] = "running" => outcome'[task'[u]] = "running"
    BY <1>6, <1>7, <2>2 DEF RunningIsExact
  <2>4. \A v, u \in Workers : worker'[v] = "running" /\ task'[v] = task'[u] => v = u
    BY <1>6, <1>7, <2>1 DEF RunningIsExact
  <2>5. ASSUME NEW t \in Tasks, outcome'[t] = "running"
        PROVE  \E u \in Workers : worker'[u] = "running" /\ task'[u] = t
    <3>1. t # c /\ outcome[t] = "running"
      BY <1>6, <2>5
    <3>2. PICK u \in Workers : worker[u] = "running" /\ task[u] = t
      BY <1>7, <3>1 DEF RunningIsExact
    <3> QED BY <1>4, <1>6, <3>1, <3>2
  <2>6. \A t \in Tasks : runs'[t] = IF outcome'[t] \in {"running", "done"} THEN 1 ELSE 0
    BY <1>2, <1>3, <1>4, <1>6, <1>7 DEF RunningIsExact
  <2> QED BY <2>1, <2>3, <2>4, <2>5, <2>6 DEF RunningIsExact
<1>11. WorkersAreInOrder'
  BY <1>1, <1>2, <1>3, <1>6 DEF PoolPart, WorkersAreInOrder
<1>12. QueuedTasksHaveAWorker'
  <2>1. Waiting' = Waiting
    BY <1>2, <1>6 DEF Waiting
  <2>2. CASE Waiting = {}
    BY <2>1, <2>2 DEF QueuedTasksHaveAWorker
  <2>3. CASE Waiting # {}
    <3>1. Cardinality(Locking') = Cardinality(Locking) + 1 /\ Cardinality(Locking) \in Nat
      BY <1>1, <1>2, OneMoreLocks, PartsAreFinite DEF PoolPart, Locking
    <3>2. Len(queue) <= Cardinality(Locking)
      BY <1>1, <2>3 DEF PoolPart, QueuedTasksHaveAWorker, Locking
    <3>3. Len(queue') <= Cardinality(Locking')
      BY <1>2, <1>5, <3>1, <3>2
    <3> QED BY <3>3 DEF QueuedTasksHaveAWorker, Locking
  <2> QED BY <2>2, <2>3
<1>13. MainPart'
  <2>1. MainOwnsThePool'
    BY <1>1, <1>2 DEF MainPart, MainOwnsThePool
  <2>2. SubmitHasItsTask'
    <3>1. otask \in Tasks \cup {NoTask}
      BY <1>1 DEF PoolPart, PoolTypeOK
    <3> QED BY <1>1, <1>2, <1>3, <1>4, <1>6, <3>1 DEF MainPart, SubmitHasItsTask
  <2>3. ConnsAreHeld'
    BY <1>1, <1>2, <1>3, <1>4, <1>6 DEF MainPart, ConnsAreHeld, Serving
  <2> QED BY <2>1, <2>2, <2>3 DEF MainPart
<1>14. SlotsAreCounted'
  <2>1. Open' = Open
    BY <1>2 DEF Open
  <2>2. Releasing' = Releasing \ {w} /\ w \in Releasing
    BY <1>2, <1>6 DEF Releasing
  <2>3. PICK o \in Nat, r \in Nat : o = Cardinality(Open) /\ r = Cardinality(Releasing)
    BY PartsAreFinite
  <2>4. Cardinality(Releasing') = r - 1
    BY <2>2, <2>3, PartsAreFinite, FS_RemoveElement
  <2>5. PICK h \in Nat, x \in Nat : /\ h = (IF main \in {"check", "accept"} THEN 1 ELSE 0)
                                    /\ x = (IF main \in {"destroy", "join"} THEN 1 ELSE 0)
    OBVIOUS
  <2>6. sem + o + r + h = MAX_CONNECTIONS + x /\ sem \in Nat
    BY <1>1, <1>3, <2>3, <2>5 DEF SlotsAreCounted, ServerTypes
  <2>7. (sem + 1) + o + (r - 1) + h = MAX_CONNECTIONS + x
    BY <2>6
  <2>8. main \in {"destroy", "join"} => sem + 1 >= 1
    BY <2>6
  <2> QED BY <1>2, <2>1, <2>3, <2>4, <2>5, <2>7, <2>8 DEF SlotsAreCounted
<1>15. SubsystemsAreInOrder'
  BY <1>1, <1>2 DEF SubsystemsAreInOrder, Alive, Initialized
<1>16. ServerTypes' /\ Serving'
  BY <1>1, <1>2, <1>3 DEF ServerTypes, Serving
<1>17. PoolPart'
  BY <1>8, <1>9, <1>10, <1>11, <1>12 DEF PoolPart
<1> QED BY <1>13, <1>14, <1>15, <1>16, <1>17, ServerInvNext

\* Every step of the server keeps the invariant.
LEMMA NextKeeps == ServerInv /\ [Next]_vars => ServerInv'
<1> SUFFICES ASSUME ServerInv, [Next]_vars PROVE ServerInv'
  OBVIOUS
<1> USE DEF Conns
<1>1. CASE InitSubsystem \/ SubsystemIsNull \/ InitFails \/ ServerIsNull \/ Listen
  BY <1>1, InitMoves
<1>2. CASE ServerCreated
  BY <1>2, ServerCreatedKeeps
<1>3. CASE PoolNotCreated \/ DestroyServer
  BY <1>3, PoolEnds
<1>4. CASE StartServer \/ LoopTest \/ TakeSlot \/ SlotTimeout \/ Recheck \/ AcceptFails
  BY <1>4, LoopMoves
<1>5. CASE \E w \in Workers : StartWorker(w)
  BY <1>5, IdleThreadSteps
<1>6. CASE \E c \in Tasks : Accept(c)
  BY <1>6, AcceptKeeps
<1>7. CASE SubmitAccepted
  BY <1>7, SubmitAcceptedKeeps
<1>8. CASE SubmitRejected
  BY <1>8, SubmitRejectedKeeps
<1>9. CASE Stop \/ Signal
  BY <1>9, RefusalMoves
<1>10. CASE Teardown
  BY <1>10, TeardownKeeps
<1>11. CASE \E c \in Tasks : AcceptDrops(c) \/ Connect(c)
  BY <1>11, UnservedMoves
<1>12. CASE \E w \in Workers : PoolWorkerStep(w)
  BY <1>12, IdleThreadSteps, WorkerTakesKeeps DEF PoolWorkerStep, WorkerStep
<1>13. CASE \E w \in Workers : HandlerEnds(w)
  BY <1>13, HandlerEndsKeeps
<1>14. CASE \E w \in Workers : SlotReleased(w)
  BY <1>14, SlotReleasedKeeps
<1>15. CASE UNCHANGED vars
  <2>1. /\ PoolPart /\ ServerTypes /\ MainPart /\ SlotsAreCounted /\ SubsystemsAreInOrder
        /\ sem <= MAX_CONNECTIONS + 1
    BY ServerInvParts
  <2>2. UNCHANGED poolVars /\ UNCHANGED <<main, running, g_shutdown, sock, sem, conn, sub, signals, faults>>
    BY <1>15 DEF vars, serverVars
  <2>3. UNCHANGED <<shutdown, owner, otask, outcome, worker, task>>
    BY <2>2 DEF poolVars
  <2>4. PoolPart'
    BY <2>1, <2>2, PoolFrame
  <2>5. MainPart'
    BY <2>1, <2>2, <2>3 DEF MainPart, MainOwnsThePool, SubmitHasItsTask, ConnsAreHeld
  <2>6. Open' = Open /\ Releasing' = Releasing
    BY <2>2, <2>3 DEF Open, Releasing
  <2>7. SlotsAreCounted' /\ SubsystemsAreInOrder'
    BY <2>1, <2>2, <2>6 DEF SlotsAreCounted, Serving, SubsystemsAreInOrder, Alive, Initialized
  <2>8. ServerTypes' /\ sem' <= MAX_CONNECTIONS + 1
    BY <2>1, <2>2 DEF ServerTypes
  <2> QED BY <2>4, <2>5, <2>7, <2>8, ServerInvNext
<1> QED BY <1>1, <1>2, <1>3, <1>4, <1>5, <1>6, <1>7, <1>8, <1>9, <1>10, <1>11, <1>12, <1>13, <1>14,
           <1>15 DEF Next, MainStep

-----------------------------------------------------------------------------
(* The theorems.                                                           *)

(* The inductive invariant of the server holds in every reachable state.   *)
THEOREM ServerInvHolds == Spec => []ServerInv
<1>1. Init => ServerInv
  BY InitEstablishes
<1>2. ServerInv /\ [Next]_vars => ServerInv'
  BY NextKeeps
<1> QED BY <1>1, <1>2, PTL DEF Spec

(* The semaphore of tcp_server.c counts exactly, so the queue has room     *)
(* whenever the main thread calls thread_pool_submit.                      *)
THEOREM SubmitNeverBlocksHolds == Spec => []SubmitNeverBlocks
<1>1. ServerInv => SubmitNeverBlocks
  <2> SUFFICES ASSUME ServerInv PROVE SubmitNeverBlocks
    OBVIOUS
  <2>1. PoolPart /\ ServerTypes /\ MainPart /\ SlotsAreCounted
    BY ServerInvParts
  <2>2. PICK o \in Nat, r \in Nat : o = Cardinality(Open) /\ r = Cardinality(Releasing)
    BY PartsAreFinite
  <2>3. MAX_CONNECTIONS \in Nat /\ sem \in Nat
    BY <2>1, QueueAssumption DEF MAX_CONNECTIONS, ServerTypes
  <2>4. Cardinality(Open) <= MAX_CONNECTIONS
    <3>1. CASE Serving /\ main \notin {"destroy", "join"}
      <4>1. PICK h \in Nat : h = (IF main \in {"check", "accept"} THEN 1 ELSE 0)
        OBVIOUS
      <4>2. sem + o + r + h = MAX_CONNECTIONS + 0
        BY <2>1, <2>2, <3>1, <4>1 DEF SlotsAreCounted
      <4>3. o <= MAX_CONNECTIONS
        BY <2>3, <4>2
      <4> QED BY <2>2, <4>3
    <3>2. CASE main \in {"destroy", "join"}
      <4>1. sem + o + r + 0 = MAX_CONNECTIONS + 1 /\ sem >= 1
        BY <2>1, <2>2, <3>2 DEF SlotsAreCounted, Serving
      <4>2. o <= MAX_CONNECTIONS
        BY <2>3, <4>1
      <4> QED BY <2>2, <4>2
    <3>3. CASE ~Serving
      <4>1. \A c \in Tasks : conn[c] # "open"
        <5>1. CASE main \in {"init", "aborted"} \/ sock = "none"
          BY <2>1, <5>1 DEF MainPart, ConnsAreHeld
        <5>2. CASE main \in {"teardown", "exited"} /\ sock # "none"
          <6>1. owner = "freed"
            BY <2>1, <5>2 DEF MainPart, MainOwnsThePool
          <6>2. \A w \in Workers : worker[w] \in {"absent", "exited"}
            BY <2>1, <6>1 DEF PoolPart, WorkersAreInOrder
          <6>3. queue = <<>>
            BY <2>1, <6>2, WorkersAssumption DEF PoolPart, WorkersAreInOrder
          <6>4. Len(queue) = 0
            BY <6>3
          <6>5. \A c \in Tasks : outcome[c] # "queued" /\ outcome[c] # "running" /\ c # otask
            BY <2>1, <6>1, <6>2, <6>4, TasksAssumption
               DEF PoolPart, QueueIsExact, RunningIsExact, MainPart, SubmitHasItsTask
          <6> QED BY <2>1, <6>5 DEF MainPart, ConnsAreHeld
        <5> QED BY <3>3, <5>1, <5>2 DEF Serving
      <4>2. Open = {}
        BY <4>1 DEF Open, Conns
      <4>3. Cardinality(Open) = 0
        BY <4>2, FS_EmptySet
      <4> QED BY <2>3, <4>3
    <3> QED BY <3>1, <3>2, <3>3 DEF Serving
  <2>5. ~(owner = "submit" /\ QueueFull)
    <3> SUFFICES ASSUME owner = "submit" PROVE ~QueueFull
      OBVIOUS
    <3>1. /\ otask \in Tasks /\ conn[otask] = "open"
          /\ \A i \in 1 .. Len(queue) : queue[i] # otask
      BY SubmitFinds
    <3>2. queue \in Seq(Tasks) /\ Len(queue) \in Nat
      BY <2>1 DEF PoolPart, PoolTypeOK
    <3>3. QueueIsExact /\ ConnsAreHeld
      BY <2>1 DEF PoolPart, MainPart
    <3>4. \A i \in 1 .. Len(queue) : queue[i] \in Open \ {otask}
      BY <3>1, <3>2, <3>3 DEF QueueIsExact, ConnsAreHeld, Open, Conns
    <3>5. queue \in Seq(Open \ {otask})
      BY <3>2, <3>4
    <3>6. IsFiniteSet(Open \ {otask}) /\ Cardinality(Open \ {otask}) = o - 1
      <4>1. otask \in Open
        BY <3>1 DEF Open, Conns
      <4> QED BY <2>2, <4>1, PartsAreFinite, FS_RemoveElement
    <3>7. Len(queue) <= Cardinality(Open \ {otask})
      BY <3>3, <3>5, <3>6, InjectiveIsShort DEF QueueIsExact
    <3>8. Len(queue) <= o - 1 /\ o <= MAX_CONNECTIONS
      BY <2>2, <2>4, <3>6, <3>7
    <3>9. Len(queue) < max_queue_size
      BY <2>3, <3>2, <3>8 DEF MAX_CONNECTIONS
    <3> QED BY <3>2, <3>9, QueueAssumption DEF QueueFull
  <2> QED BY <2>1, <2>4, <2>5 DEF SubmitNeverBlocks, SlotsAreCounted, Serving, Releasing
<1> QED BY <1>1, ServerInvHolds, PTL

(* Every accepted task is run once, none is left when thread_pool_destroy  *)
(* returns, and no wakeup is lost (thread_pool.c).                         *)
THEOREM PoolRunsItsTasksHolds == Spec => []PoolRunsItsTasks
<1>1. ServerInv => PoolRunsItsTasks
  <2> SUFFICES ASSUME ServerInv PROVE PoolRunsItsTasks
    OBVIOUS
  <2>1. PoolPart /\ TypeOK
    BY ServerInvParts DEF ServerInv
  <2>2. RunningIsExact /\ QueueIsExact /\ WorkersAreInOrder /\ QueuedTasksHaveAWorker
    BY <2>1 DEF PoolPart
  <2>3. \A t \in Tasks : runs[t] <= 1 /\ (outcome[t] = "done" => runs[t] = 1)
    BY <2>2 DEF RunningIsExact
  <2>4. ASSUME owner = "freed", NEW t \in Tasks PROVE outcome[t] \in {"none", "rejected", "done"}
    <3>1. \A w \in Workers : worker[w] \in {"absent", "exited"}
      BY <2>2, <2>4 DEF WorkersAreInOrder
    <3>2. queue = <<>>
      BY <2>2, <3>1, WorkersAssumption DEF WorkersAreInOrder
    <3>3. Len(queue) = 0
      BY <3>2
    <3>4. outcome[t] # "queued" /\ outcome[t] # "running"
      BY <2>2, <3>1, <3>3 DEF QueueIsExact, RunningIsExact
    <3>5. outcome[t] \in {"none", "queued", "rejected", "running", "done"}
      BY <2>1 DEF PoolPart, PoolTypeOK
    <3> QED BY <3>4, <3>5
  <2> QED BY <2>1, <2>2, <2>3, <2>4 DEF PoolRunsItsTasks, AcceptedTasksRunOnce
<1> QED BY <1>1, ServerInvHolds, PTL

(* An accepted connection is with the main thread, in the queue or with a  *)
(* worker, and closed when tcp_server_destroy has returned.                *)
THEOREM EveryConnectionIsClosedHolds == Spec => []EveryConnectionIsClosed
<1>1. ServerInv => EveryConnectionIsClosed
  <2> SUFFICES ASSUME ServerInv PROVE EveryConnectionIsClosed
    OBVIOUS
  <2>1. PoolPart /\ MainPart
    BY ServerInvParts
  <2>2. ASSUME NEW c \in Open
        PROVE  c \in {task[w] : w \in Workers} \cup {queue[i] : i \in DOMAIN queue} \cup {otask}
    <3>1. c \in Tasks /\ conn[c] = "open"
      BY DEF Open, Conns
    <3>2. c = otask \/ outcome[c] \in {"queued", "running"}
      BY <2>1, <3>1 DEF MainPart, ConnsAreHeld
    <3>3. CASE outcome[c] = "queued"
      <4>1. PICK i \in 1 .. Len(queue) : queue[i] = c
        BY <2>1, <3>1, <3>3 DEF PoolPart, QueueIsExact
      <4>2. DOMAIN queue = 1 .. Len(queue)
        BY <2>1 DEF PoolPart, PoolTypeOK
      <4> QED BY <4>1, <4>2
    <3>4. CASE outcome[c] = "running"
      BY <2>1, <3>1, <3>4 DEF PoolPart, RunningIsExact
    <3> QED BY <3>2, <3>3, <3>4
  <2>3. ASSUME ServerFreed, sock = "none" PROVE Open = {}
    BY <2>1, <2>3 DEF MainPart, ConnsAreHeld, Open, Conns
  <2>4. ASSUME ServerFreed, sock # "none" PROVE Open = {}
    <3>1. owner = "freed"
      BY <2>1, <2>4 DEF ServerFreed, MainPart, MainOwnsThePool
    <3>2. \A w \in Workers : worker[w] \in {"absent", "exited"}
      BY <2>1, <3>1 DEF PoolPart, WorkersAreInOrder
    <3>3. queue = <<>>
      BY <2>1, <3>2, WorkersAssumption DEF PoolPart, WorkersAreInOrder
    <3>4. Len(queue) = 0
      BY <3>3
    <3>5. \A c \in Tasks : outcome[c] # "queued" /\ outcome[c] # "running" /\ c # otask
      BY <2>1, <3>1, <3>2, <3>4, TasksAssumption
         DEF PoolPart, QueueIsExact, RunningIsExact, MainPart, SubmitHasItsTask
    <3> QED BY <2>1, <3>5 DEF MainPart, ConnsAreHeld, Open, Conns
  <2> QED BY <2>2, <2>3, <2>4 DEF EveryConnectionIsClosed
<1> QED BY <1>1, ServerInvHolds, PTL

(* The subsystems of main.c exist together with the ones they use, whichever *)
(* of them could not be created, and none is created or destroyed while a    *)
(* handler runs.                                                             *)
THEOREM NothingOutlivesWhatItUsesHolds == Spec => []NothingOutlivesWhatItUses
<1>1. ServerInv => NothingOutlivesWhatItUses
  <2> SUFFICES ASSUME ServerInv PROVE NothingOutlivesWhatItUses
    OBVIOUS
  <2>1. ServerTypes /\ SubsystemsAreInOrder
    BY ServerInvParts
  <2>2. ASSUME NEW w \in Workers, worker[w] = "running"
        PROVE  \A s \in Subsystems : sub[s] = "alive" \/ (sub[s] = "null" /\ s \notin Required)
    <3>1. Serving /\ sock # "none"
      BY <2>2, RunningHasItsTask
    <3> QED BY <2>1, <3>1 DEF SubsystemsAreInOrder, Serving, Initialized, ServerTypes
  <2> QED BY <2>1, <2>2 DEF SubsystemsAreInOrder, NothingOutlivesWhatItUses
<1> QED BY <1>1, ServerInvHolds, PTL

=============================================================================
