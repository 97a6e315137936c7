--------------------------------- MODULE Ipc ---------------------------------
(***************************************************************************)
(* The two channels that take work off the server's worker threads: the    *)
(* System V message queue of server/ipc/notifier.c with its consumer       *)
(* thread, and the pipe of server/ipc/logger.c with its writer thread, from*)
(* start to the shutdown in server/main.c.  The queue belongs to the kernel*)
(* and outlives a process that dies; the pipe does not.  Notifications and *)
(* log messages are numbered in the order in which they are made.          *)
(***************************************************************************)
EXTENDS Integers, Sequences, FiniteSets, SequencesExt

CONSTANTS
  Workers,
  QueueSize,    \* how many messages the message queue holds
  PipeSize,     \* how many cells the pipe holds; a log message has two
  Removed,      \* a message queue that msgctl(IPC_RMID) has removed
  MaxMsgs,      \* bound on notifications
  MaxLines,     \* bound on the log messages of workers
  MaxCrashes    \* bound on deaths of the process

ASSUME SizesAssumption == QueueSize \in Nat \ {0} /\ PipeSize \in Nat /\ PipeSize >= 2
ASSUME RemovedAssumption == Removed \notin Seq(Nat)
ASSUME BoundsAssumption == {MaxMsgs, MaxLines, MaxCrashes} \subseteq Nat

VARIABLES
  queue,       \* the message queue
  delivered,   \* the notifications the consumer has taken
  consumer,    \* where the consumer thread is
  running,     \* n->running
  pipe,        \* the cells in the pipe
  logged,      \* the cells this process has put in the log file
  write_end,   \* pipe_fds[1] is open
  writer,      \* where the writer thread of the log is
  worker,      \* what each worker does: idle, about to write log message m, or gone
  sent,        \* the number of notifications so far
  lines,       \* the number of log messages so far
  written,     \* the log messages whose write has returned in this process
  server,      \* how far main and server_shutdown are
  crashes

notifier == <<queue, delivered, consumer, running>>
logger == <<pipe, logged, write_end, writer, written>>
vars == <<notifier, logger, worker, sent, lines, server, crashes>>

Idle == 0
Gone == -1
Cells(m) == <<<<m, 1>>, <<m, 2>>>>

Init ==
  /\ queue = <<>> /\ delivered = <<>> /\ consumer = "check" /\ running = TRUE
  /\ pipe = <<>> /\ logged = <<>> /\ write_end = TRUE /\ writer = "read" /\ written = {}
  /\ worker = [w \in Workers |-> Idle]
  /\ sent = 0 /\ lines = 0 /\ server = "up" /\ crashes = 0
-----------------------------------------------------------------------------
(* The workers                                                             *)

\* msgsnd with IPC_NOWAIT: a message the queue has no room for is dropped.
msgsnd(q, m) == IF Len(q) < QueueSize THEN Append(q, m) ELSE q

\* BOOK, CANCEL and CREATE_EVENT notify when they have succeeded.
send_notification(w) ==
  /\ worker[w] = Idle /\ sent < MaxMsgs /\ server \in {"up", "closing", "stopping"}
  /\ sent' = sent + 1
  /\ queue' = IF running THEN msgsnd(queue, sent + 1) ELSE queue
  /\ UNCHANGED <<delivered, consumer, running, logger, worker, lines, server, crashes>>

\* The client has left: client_handler goes on to log it.
Disconnect(w) ==
  /\ worker[w] = Idle /\ lines < MaxLines
  /\ lines' = lines + 1
  /\ worker' = [worker EXCEPT ![w] = lines + 1]
  /\ UNCHANGED <<notifier, logger, sent, server, crashes>>

\* A logger whose lines may be longer than PIPE_BUF: a write puts in what there
\* is room for.
mutPipeHasRoom == Len(pipe) + 1 <= PipeSize

\* A write of up to PIPE_BUF bytes waits until there is room for all of it.
PipeHasRoom == Len(pipe) + 2 <= PipeSize

PutLine(m) ==
  /\ PipeHasRoom
  /\ LET all == pipe \o Cells(m)
     IN  pipe' = SubSeq(all, 1, Min({Len(all), PipeSize}))
  /\ written' = written \cup {m}

pipe_logger_write(w) ==
  /\ worker[w] > Idle
  /\ PutLine(worker[w])
  /\ worker' = [worker EXCEPT ![w] = Idle]
  /\ UNCHANGED <<notifier, logged, write_end, writer, sent, lines, server, crashes>>

WorkerExits(w) ==
  /\ server = "stopping" /\ worker[w] = Idle
  /\ worker' = [worker EXCEPT ![w] = Gone]
  /\ UNCHANGED <<notifier, logger, sent, lines, server, crashes>>
-----------------------------------------------------------------------------
(* The two threads                                                         *)

ConsumerCheck ==
  /\ consumer = "check"
  /\ consumer' = IF running THEN "receive" ELSE "gone"
  /\ UNCHANGED <<queue, delivered, running, logger, worker, sent, lines, server, crashes>>

\* A consumer that handles one notification and returns.
mutReceive ==
  /\ consumer = "receive" /\ queue # Removed /\ queue # <<>>
  /\ delivered' = Append(delivered, Head(queue))
  /\ queue' = Tail(queue)
  /\ consumer' = "gone"
  /\ UNCHANGED <<running, logger, worker, sent, lines, server, crashes>>

Receive ==
  /\ consumer = "receive" /\ queue # Removed /\ queue # <<>>
  /\ delivered' = Append(delivered, Head(queue))
  /\ queue' = Tail(queue)
  /\ consumer' = "check"
  /\ UNCHANGED <<running, logger, worker, sent, lines, server, crashes>>

\* A consumer that takes a removed queue for one that is only empty.
mutAfterRemoval == {"receive"}

\* EIDRM for a thread that was waiting ends the loop, EINVAL for one that calls
\* msgrcv too late continues it.
AfterRemoval == {"gone", "check"}

\* A consumer that goes on after a failing msgrcv, with the old message in its
\* buffer.
mutReceiveFails ==
  /\ consumer = "receive" /\ queue = Removed
  /\ consumer' \in AfterRemoval
  /\ delivered' = IF delivered = <<>> THEN <<>> ELSE Append(delivered, Last(delivered))
  /\ UNCHANGED <<queue, running, logger, worker, sent, lines, server, crashes>>

ReceiveFails ==
  /\ consumer = "receive" /\ queue = Removed
  /\ consumer' \in AfterRemoval
  /\ UNCHANGED <<queue, delivered, running, logger, worker, sent, lines, server, crashes>>

\* A signal may be delivered to the waiting consumer: EINTR ends its loop.
ReceiveInterrupted ==
  /\ consumer = "receive" /\ queue = <<>> /\ server \in {"closing", "stopping"}
  /\ consumer' = "gone"
  /\ UNCHANGED <<queue, delivered, running, logger, worker, sent, lines, server, crashes>>

\* logger_writer_fn: read returns what is there, up to its buffer.
WriterRead ==
  /\ writer = "read" /\ pipe # <<>>
  /\ \E n \in 1 .. Len(pipe) :
       /\ logged' = logged \o SubSeq(pipe, 1, n)
       /\ pipe' = SubSeq(pipe, n + 1, Len(pipe))
  /\ UNCHANGED <<notifier, write_end, writer, written, worker, sent, lines, server, crashes>>

\* A writer that stops at the closed pipe without reading it to its end.
mutWriterAtEnd == ~write_end

\* A writer that takes a pipe that is empty for one that is closed.
mutWriterAtEmptyPipe == pipe = <<>>

\* read returns 0 when the pipe is empty and nobody can write to it any more.
WriterAtEnd == pipe = <<>> /\ ~write_end

WriterExits ==
  /\ writer = "read" /\ WriterAtEnd
  /\ writer' = "gone"
  /\ UNCHANGED <<notifier, pipe, logged, write_end, written, worker, sent, lines, server, crashes>>
-----------------------------------------------------------------------------
(* Shutdown: main logs it, the workers are joined, then notifier_destroy,  *)
(* then pipe_logger_destroy.                                               *)

Signal ==
  /\ server = "up" /\ server' = "closing"
  /\ UNCHANGED <<notifier, logger, worker, sent, lines, crashes>>

LogShutdown ==
  /\ server = "closing"
  /\ PutLine(lines + 1)
  /\ lines' = lines + 1
  /\ server' = "stopping"
  /\ UNCHANGED <<notifier, logged, write_end, writer, worker, sent, crashes>>

NotifierStops ==
  /\ server = "stopping" /\ \A w \in Workers : worker[w] = Gone
  /\ running' = FALSE
  /\ server' = "remove"
  /\ UNCHANGED <<queue, delivered, consumer, logger, worker, sent, lines, crashes>>

RemoveQueue ==
  /\ server = "remove"
  /\ queue' = Removed
  /\ server' = "join_consumer"
  /\ UNCHANGED <<delivered, consumer, running, logger, worker, sent, lines, crashes>>

\* pthread_join of the consumer, then pipe_logger_destroy closes the write end.
CloseWriteEnd ==
  /\ server = "join_consumer" /\ consumer = "gone"
  /\ write_end' = FALSE
  /\ server' = "join_writer"
  /\ UNCHANGED <<notifier, pipe, logged, writer, written, worker, sent, lines, crashes>>

JoinWriter ==
  /\ server = "join_writer" /\ writer = "gone"
  /\ server' = "down"
  /\ UNCHANGED <<notifier, logger, worker, sent, lines, crashes>>

\* The process dies and is started again: msgget finds the queue as it was.
Crash ==
  /\ server = "up" /\ crashes < MaxCrashes
  /\ crashes' = crashes + 1
  /\ consumer' = "check"
  /\ pipe' = <<>> /\ written' = {} /\ logged' = <<>>
  /\ worker' = [w \in Workers |-> Idle]
  /\ UNCHANGED <<queue, delivered, running, write_end, writer, sent, lines, server>>

Next ==
  \/ \E w \in Workers : send_notification(w) \/ Disconnect(w)
                         \/ pipe_logger_write(w) \/ WorkerExits(w)
  \/ ConsumerCheck \/ Receive \/ ReceiveFails \/ ReceiveInterrupted
  \/ WriterRead \/ WriterExits
  \/ Signal \/ LogShutdown \/ NotifierStops \/ RemoveQueue \/ CloseWriteEnd \/ JoinWriter
  \/ Crash

Spec == Init /\ [][Next]_vars

\* Threads run on; nothing makes a client send, a signal arrive or a crash happen.
Fairness ==
  /\ \A w \in Workers : WF_vars(pipe_logger_write(w)) /\ WF_vars(WorkerExits(w))
  /\ WF_vars(ConsumerCheck) /\ WF_vars(Receive) /\ WF_vars(ReceiveFails)
  /\ WF_vars(WriterRead) /\ WF_vars(WriterExits)
  /\ WF_vars(LogShutdown) /\ WF_vars(NotifierStops) /\ WF_vars(RemoveQueue)
  /\ WF_vars(CloseWriteEnd) /\ WF_vars(JoinWriter)

FairSpec == Spec /\ Fairness
-----------------------------------------------------------------------------
(* Properties                                                              *)

\* The shapes of queue, pipe and threads; neither channel exceeds its size.
TypeOK ==
  /\ queue = Removed \/ Len(queue) <= QueueSize
  /\ Len(pipe) <= PipeSize
  /\ consumer \in {"check", "receive", "gone"} /\ writer \in {"read", "gone"}
  /\ running \in BOOLEAN /\ write_end \in BOOLEAN
  /\ worker \in [Workers -> Gone .. lines]
  /\ server \in {"up", "closing", "stopping", "remove", "join_consumer", "join_writer", "down"}

\* The consumer takes every notification at most once and in the order in which
\* they were sent, with messages dropped at a full queue and a queue inherited
\* from a process that died.
NotificationsInOrder ==
  LET all == IF queue = Removed THEN delivered ELSE delivered \o queue
  IN  \A i \in 1 .. Len(all) - 1 : all[i] < all[i + 1]

\* The lines of concurrent writers never mix: what is in the log file and the
\* pipe is a sequence of whole messages, wherever the reader cuts it.  When
\* pipe_logger_destroy returns, every message whose write had returned is in the
\* log file, the last ones before the shutdown too.
LogIsComplete ==
  LET all == logged \o pipe
  IN  /\ TypeOK
      /\ Len(all) % 2 = 0
      /\ \A i \in 1 .. Len(all) \div 2 :
           <<all[2 * i - 1], all[2 * i]>> = Cells(all[2 * i][1])
      /\ server = "down" => \A m \in written : \A c \in ToSet(Cells(m)) : c \in ToSet(logged)

\* Both destroy functions come back: the removal of the queue and the end of the
\* pipe reach their threads wherever these are.
ShutdownReturns == server = "closing" ~> server = "down"

\* A worker that waits for room in the pipe gets on with its command.
LogWritesReturn == \A w \in Workers : worker[w] > Idle ~> worker[w] <= Idle

\* A notification in the queue is delivered unless the server is stopped first.
NotificationsArrive ==
  \A m \in 1 .. MaxMsgs :
    (queue # Removed /\ m \in ToSet(queue)) ~> (m \in ToSet(delivered) \/ server # "up")

\* Nothing stays in a channel: neither a worker in front of a full pipe nor a
\* notification behind others in the queue waits for ever.
ChannelsMove == LogWritesReturn /\ NotificationsArrive
=============================================================================
