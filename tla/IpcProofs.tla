----------------------------- MODULE IpcProofs -----------------------------
(***************************************************************************)
(* What the notifier and the logger never lose or mix, for every number of *)
(* workers, every size of the queue and the pipe, and any number of        *)
(* notifications, lines and deaths of the process.                         *)
(***************************************************************************)
EXTENDS Ipc, SequenceTheorems, TLAPS

-----------------------------------------------------------------------------
(* The inductive invariant.                                                *)

Cell == Nat \X Nat

\* The sequences behind the two channels, which TypeOK leaves open.
ChannelsAreTyped ==
    /\ queue = Removed \/ queue \in Seq(Nat)
    /\ delivered \in Seq(Nat)
    /\ pipe \in Seq(Cell) /\ logged \in Seq(Cell)
    /\ written \subseteq Nat
    /\ sent \in Nat /\ lines \in Nat

\* What has been delivered and what waits, in the order of arrival.
Notified == IF queue = Removed THEN delivered ELSE delivered \o queue

\* The numbers given out so far are the only ones in the channel: what is sent
\* next is above all of them.
NumbersAreSent == \A i \in 1 .. Len(Notified) : Notified[i] <= sent

\* What went into the log: the file, then the pipe.
LogStream == logged \o pipe

IsPaired(s) ==
    /\ Len(s) % 2 = 0
    /\ \A i \in 1 .. Len(s) \div 2 : s[2 * i - 1] = <<s[2 * i][1], 1>> /\ s[2 * i] = <<s[2 * i][1], 2>>

HasLine(s, m) == \A k \in {1, 2} : \E i \in 1 .. Len(s) : s[i] = <<m, k>>

\* A write that has returned has put its two cells into the stream.
WrittenIsInTheStream == \A m \in written : HasLine(LogStream, m)

\* How far the shutdown is against the threads it waits for: the writer leaves
\* an empty pipe behind, and no worker writes once they are joined.
ShutdownIsInOrder ==
    /\ ~write_end <=> server \in {"join_writer", "down"}
    /\ writer = "gone" => pipe = <<>> /\ ~write_end
    /\ server = "down" => writer = "gone"
    /\ server \notin {"up", "closing", "stopping"} => \A w \in Workers : worker[w] = Gone
    /\ queue = Removed => server \notin {"up", "closing", "stopping"}

IpcInv ==
    /\ TypeOK /\ ChannelsAreTyped
    /\ NotificationsInOrder /\ NumbersAreSent
    /\ IsPaired(LogStream) /\ WrittenIsInTheStream /\ ShutdownIsInOrder

-----------------------------------------------------------------------------
(* The operators the actions are built from.                               *)

\* A number above all those in a rising sequence goes to its end.
LEMMA AppendKeepsOrder ==
    ASSUME NEW s \in Seq(Nat), NEW n \in Nat,
           \A i \in 1 .. Len(s) : s[i] <= n,
           \A i \in 1 .. Len(s) - 1 : s[i] < s[i + 1]
    PROVE  /\ \A i \in 1 .. Len(Append(s, n + 1)) : Append(s, n + 1)[i] <= n + 1
           /\ \A i \in 1 .. Len(Append(s, n + 1)) - 1 : Append(s, n + 1)[i] < Append(s, n + 1)[i + 1]
<1>1. PICK t : t = Append(s, n + 1)
  OBVIOUS
<1>2. /\ Len(t) = Len(s) + 1 /\ Len(s) \in Nat
      /\ t[Len(s) + 1] = n + 1
      /\ \A i \in 1 .. Len(s) : t[i] = s[i]
  BY <1>1, AppendProperties
<1>3. \A i \in 1 .. Len(s) : s[i] \in Nat
  BY ElementOfSeq
<1>4. \A i \in 1 .. Len(t) : t[i] <= n + 1
  BY <1>2, <1>3
<1>5. \A i \in 1 .. Len(t) - 1 : t[i] < t[i + 1]
  <2> TAKE i \in 1 .. Len(t) - 1
  <2>1. CASE i = Len(s)
    BY <1>2, <1>3, <2>1
  <2>2. CASE i # Len(s)
    <3>1. i \in 1 .. Len(s) - 1 /\ i \in 1 .. Len(s) /\ i + 1 \in 1 .. Len(s)
      BY <1>2, <2>2
    <3>2. t[i] = s[i] /\ t[i + 1] = s[i + 1] /\ s[i] < s[i + 1]
      BY <1>2, <3>1
    <3> QED BY <3>2
  <2> QED BY <2>1, <2>2
<1> QED BY <1>1, <1>4, <1>5

\* A message goes behind the others, delivered or not.
LEMMA SendingBehind ==
    ASSUME NEW d \in Seq(Nat), NEW q \in Seq(Nat), NEW n \in Nat
    PROVE  d \o Append(q, n + 1) = Append(d \o q, n + 1)
OBVIOUS

\* The consumer moves the head of the queue to the end of what is delivered.
LEMMA TakingTheHead ==
    ASSUME NEW d \in Seq(Nat), NEW q \in Seq(Nat), q # <<>>
    PROVE  Append(d, Head(q)) \o Tail(q) = d \o q
OBVIOUS

\* A reader that takes n cells leaves the stream as it is.
LEMMA ReadingKeepsTheStream ==
    ASSUME NEW S, NEW f \in Seq(S), NEW p \in Seq(S), NEW n \in 1 .. Len(p)
    PROVE  /\ f \o SubSeq(p, 1, n) \in Seq(S)
           /\ SubSeq(p, n + 1, Len(p)) \in Seq(S)
           /\ Len(SubSeq(p, n + 1, Len(p))) <= Len(p)
           /\ (f \o SubSeq(p, 1, n)) \o SubSeq(p, n + 1, Len(p)) = f \o p
<1>1. PICK a : a = SubSeq(p, 1, n)
  OBVIOUS
<1>2. PICK b : b = SubSeq(p, n + 1, Len(p))
  OBVIOUS
<1>3. a \in Seq(S) /\ b \in Seq(S)
  BY <1>1, <1>2, SubSeqProperties
<1>4. a \o b = p
  BY <1>1, <1>2
<1>5. (f \o a) \o b = f \o (a \o b)
  BY <1>3
<1>6. f \o a \in Seq(S)
  BY <1>3, ConcatProperties
<1>7. Len(b) <= Len(p)
  BY <1>2
<1> QED BY <1>1, <1>2, <1>3, <1>4, <1>5, <1>6, <1>7

\* A write that waits for room for all of its cells is never cut short.
LEMMA PutLineAppends ==
    ASSUME TypeOK, ChannelsAreTyped, NEW m \in Nat, PutLine(m)
    PROVE  /\ pipe' = pipe \o Cells(m) /\ pipe' \in Seq(Cell)
           /\ Len(pipe') <= PipeSize
           /\ written' = written \cup {m}
<1> DEFINE all == pipe \o Cells(m)
<1>1. pipe \in Seq(Cell) /\ Cells(m) \in Seq(Cell) /\ Len(Cells(m)) = 2
  BY DEF ChannelsAreTyped, Cells, Cell
<1>2. all \in Seq(Cell) /\ Len(all) = Len(pipe) + 2 /\ Len(pipe) \in Nat
  BY <1>1, ConcatProperties, SMTT(30)
<1> HIDE DEF all
<1>3. Len(all) <= PipeSize /\ Len(all) \in Nat
  BY <1>2, SizesAssumption DEF PutLine, PipeHasRoom
<1>4. Min({Len(all), PipeSize}) = Len(all)
  BY <1>3, SizesAssumption DEF Min
<1>5. SubSeq(all, 1, Len(all)) = all
  BY <1>2, SubSeqFull
<1>6. pipe' = SubSeq(all, 1, Min({Len(all), PipeSize})) /\ written' = written \cup {m}
  BY DEF PutLine, all
<1> QED BY <1>2, <1>3, <1>4, <1>5, <1>6 DEF all

\* The two cells of a message behind a stream.
LEMMA AppendingALine ==
    ASSUME NEW s \in Seq(Cell), NEW m \in Nat
    PROVE  /\ Len(s) \in Nat /\ Len(s \o Cells(m)) = Len(s) + 2
           /\ \A i \in 1 .. Len(s) : (s \o Cells(m))[i] = s[i]
           /\ (s \o Cells(m))[Len(s) + 1] = <<m, 1>>
           /\ (s \o Cells(m))[Len(s) + 2] = <<m, 2>>
<1>1. PICK c : c = Cells(m)
  OBVIOUS
<1>2. c \in Seq(Cell) /\ Len(c) = 2
  BY <1>1 DEF Cells, Cell
<1>3. c[1] = <<m, 1>> /\ c[2] = <<m, 2>>
  BY <1>1 DEF Cells
<1>4. PICK t : t = s \o c
  OBVIOUS
<1>5. /\ Len(t) = Len(s) + Len(c)
      /\ \A i \in 1 .. Len(s) + Len(c) : t[i] = IF i <= Len(s) THEN s[i] ELSE c[i - Len(s)]
  BY <1>2, <1>4, ConcatProperties
<1>6. Len(s) \in Nat
  OBVIOUS
<1>7. Len(t) = Len(s) + 2 /\ \A i \in 1 .. Len(s) : t[i] = s[i]
  BY <1>2, <1>5, <1>6
<1>8. t[Len(s) + 1] = c[1] /\ t[Len(s) + 2] = c[2]
  BY <1>2, <1>5, <1>6
<1> QED BY <1>1, <1>3, <1>4, <1>6, <1>7, <1>8

\* A whole message at the end of a stream of whole messages.
LEMMA PairingIsKept ==
    ASSUME NEW s \in Seq(Cell), NEW m \in Nat, IsPaired(s)
    PROVE  IsPaired(s \o Cells(m))
<1> DEFINE t == s \o Cells(m)
<1>2. /\ Len(s) \in Nat /\ Len(t) = Len(s) + 2
      /\ \A i \in 1 .. Len(s) : t[i] = s[i]
      /\ t[Len(s) + 1] = <<m, 1>> /\ t[Len(s) + 2] = <<m, 2>>
  BY AppendingALine
<1> HIDE DEF t
<1>3. Len(s) % 2 = 0 /\ Len(t) % 2 = 0 /\ Len(t) \div 2 = Len(s) \div 2 + 1 /\ Len(s) = 2 * (Len(s) \div 2)
  BY <1>2 DEF IsPaired
<1>4. ASSUME NEW i \in 1 .. Len(t) \div 2
      PROVE  t[2 * i - 1] = <<t[2 * i][1], 1>> /\ t[2 * i] = <<t[2 * i][1], 2>>
  <2>1. CASE i <= Len(s) \div 2
    <3>1. i \in 1 .. Len(s) \div 2 /\ 2 * i - 1 \in 1 .. Len(s) /\ 2 * i \in 1 .. Len(s)
      BY <1>2, <1>3, <2>1
    <3>2. t[2 * i - 1] = s[2 * i - 1] /\ t[2 * i] = s[2 * i]
      BY <1>2, <3>1
    <3> QED BY <3>1, <3>2 DEF IsPaired
  <2>2. CASE ~(i <= Len(s) \div 2)
    <3>1. 2 * i - 1 = Len(s) + 1 /\ 2 * i = Len(s) + 2
      BY <1>2, <1>3, <2>2
    <3>2. t[2 * i - 1] = <<m, 1>> /\ t[2 * i] = <<m, 2>>
      BY <1>2, <3>1
    <3> QED BY <3>2
  <2> QED BY <2>1, <2>2
<1> QED BY <1>3, <1>4 DEF IsPaired, t

\* The new message is in the stream, and so are those that were.
LEMMA LinesAreKept ==
    ASSUME NEW s \in Seq(Cell), NEW m \in Nat
    PROVE  /\ HasLine(s \o Cells(m), m)
           /\ \A k \in Nat : HasLine(s, k) => HasLine(s \o Cells(m), k)
<1> DEFINE t == s \o Cells(m)
<1>2. /\ Len(s) \in Nat /\ Len(t) = Len(s) + 2
      /\ \A i \in 1 .. Len(s) : t[i] = s[i]
      /\ t[Len(s) + 1] = <<m, 1>> /\ t[Len(s) + 2] = <<m, 2>>
  BY AppendingALine
<1> HIDE DEF t
<1>3. HasLine(t, m)
  <2>1. Len(s) + 1 \in 1 .. Len(t) /\ Len(s) + 2 \in 1 .. Len(t)
    BY <1>2
  <2> QED BY <1>2, <2>1 DEF HasLine
<1>4. ASSUME NEW k \in Nat, HasLine(s, k) PROVE HasLine(t, k)
  <2>1. ASSUME NEW j \in {1, 2} PROVE \E i \in 1 .. Len(t) : t[i] = <<k, j>>
    <3>1. PICK i \in 1 .. Len(s) : s[i] = <<k, j>>
      BY <1>4 DEF HasLine
    <3>2. i \in 1 .. Len(t) /\ t[i] = <<k, j>>
      BY <1>2, <3>1
    <3> QED BY <3>2
  <2> QED BY <2>1 DEF HasLine
<1> QED BY <1>3, <1>4 DEF t

-----------------------------------------------------------------------------
(* The two halves of the invariant: a step that leaves a channel alone     *)
(* keeps what is said of it.                                               *)

\* What the invariant says of the notifications.
NotifierPart == NotificationsInOrder /\ NumbersAreSent
\* What the invariant says of the log.
LoggerPart == IsPaired(LogStream) /\ WrittenIsInTheStream

\* Steps that touch neither the queue nor the consumer's list.
LEMMA NotifierFrame ==
    ASSUME NotifierPart, queue' = queue, delivered' = delivered, sent' = sent
    PROVE  NotifierPart'
BY DEF NotifierPart, NotificationsInOrder, NumbersAreSent, Notified

\* Steps that leave the stream of log cells as it is.
LEMMA LoggerFrame ==
    ASSUME LoggerPart, LogStream' = LogStream, written' = written
    PROVE  LoggerPart'
BY DEF LoggerPart, IsPaired, WrittenIsInTheStream, HasLine

\* A write puts a whole message behind the stream.
LEMMA LoggerWrites ==
    ASSUME TypeOK, ChannelsAreTyped, LoggerPart, NEW m \in Nat, PutLine(m), logged' = logged
    PROVE  LoggerPart' /\ pipe' \in Seq(Cell) /\ Len(pipe') <= PipeSize /\ written' \subseteq Nat
<1>1. /\ pipe' = pipe \o Cells(m) /\ pipe' \in Seq(Cell) /\ Len(pipe') <= PipeSize
      /\ written' = written \cup {m}
  BY PutLineAppends
<1>2. pipe \in Seq(Cell) /\ logged \in Seq(Cell) /\ written \subseteq Nat
  BY DEF ChannelsAreTyped
<1>3. LogStream \in Seq(Cell)
  BY <1>2, ConcatProperties DEF LogStream
<1>4. LogStream' = LogStream \o Cells(m)
  <2>1. PICK c : c = Cells(m)
    OBVIOUS
  <2>2. c \in Seq(Cell)
    BY <2>1 DEF Cells, Cell
  <2>3. (logged \o pipe) \o c = logged \o (pipe \o c)
    BY <1>2, <2>2
  <2> QED BY <1>1, <2>1, <2>3 DEF LogStream
<1>5. IsPaired(LogStream')
  BY <1>3, <1>4, PairingIsKept DEF LoggerPart
<1>6. WrittenIsInTheStream'
  <2> SUFFICES ASSUME NEW k \in written' PROVE HasLine(LogStream', k)
    BY DEF WrittenIsInTheStream
  <2>1. k \in Nat
    BY <1>1, <1>2
  <2>2. CASE k = m
    BY <1>3, <1>4, <2>2, LinesAreKept
  <2>3. CASE k # m
    <3>1. HasLine(LogStream, k)
      BY <1>1, <2>3 DEF LoggerPart, WrittenIsInTheStream
    <3> QED BY <1>3, <1>4, <2>1, <3>1, LinesAreKept
  <2> QED BY <2>2, <2>3
<1> QED BY <1>1, <1>2, <1>5, <1>6 DEF LoggerPart, IsPaired

-----------------------------------------------------------------------------
(* Every action keeps the invariant.                                       *)

(* The invariant says one thing of the notifier and one of the logger.     *)
LEMMA IpcInvParts ==
    IpcInv <=> TypeOK /\ ChannelsAreTyped /\ NotifierPart /\ LoggerPart /\ ShutdownIsInOrder
BY DEF IpcInv, NotifierPart, LoggerPart

\* The same after a step.
LEMMA IpcInvPartsNext ==
    IpcInv' <=> TypeOK' /\ ChannelsAreTyped' /\ NotifierPart' /\ LoggerPart' /\ ShutdownIsInOrder'
BY DEF IpcInv, NotifierPart, LoggerPart

\* At the start both channels are empty.
LEMMA InitEstablishes == Init => IpcInv
<1> SUFFICES ASSUME Init PROVE IpcInv
  OBVIOUS
<1>1. /\ queue = <<>> /\ delivered = <<>> /\ pipe = <<>> /\ logged = <<>> /\ written = {}
      /\ consumer = "check" /\ running = TRUE /\ write_end = TRUE /\ writer = "read"
      /\ worker = [w \in Workers |-> 0] /\ sent = 0 /\ lines = 0 /\ server = "up"
  BY DEF Init, Idle
<1>2. queue \in Seq(Nat) /\ delivered \in Seq(Nat) /\ pipe \in Seq(Cell) /\ logged \in Seq(Cell)
  BY <1>1
<1>3. queue # Removed
  BY <1>2, RemovedAssumption
<1>4. delivered \o queue = <<>> /\ logged \o pipe = <<>>
  BY <1>1
<1>5. TypeOK
  BY <1>1, SizesAssumption DEF TypeOK, Gone
<1>6. ChannelsAreTyped
  BY <1>1, <1>2 DEF ChannelsAreTyped
<1>7. NotifierPart
  BY <1>3, <1>4 DEF NotifierPart, NotificationsInOrder, NumbersAreSent, Notified
<1>8. LoggerPart
  BY <1>1, <1>4 DEF LoggerPart, IsPaired, WrittenIsInTheStream, LogStream
<1>9. ShutdownIsInOrder
  BY <1>1, <1>3 DEF ShutdownIsInOrder
<1> QED BY <1>5, <1>6, <1>7, <1>8, <1>9, IpcInvParts

\* A notification is above all earlier ones, or dropped.
LEMMA SendNotification ==
    ASSUME IpcInv, NEW w \in Workers, send_notification(w)
    PROVE  IpcInv'
<1> USE IpcInvParts
<1>1. /\ server \in {"up", "closing", "stopping"} /\ sent' = sent + 1
      /\ queue' = IF running THEN msgsnd(queue, sent + 1) ELSE queue
      /\ delivered' = delivered /\ consumer' = consumer /\ running' = running
      /\ pipe' = pipe /\ logged' = logged /\ write_end' = write_end /\ writer' = writer
      /\ written' = written /\ worker' = worker /\ lines' = lines /\ server' = server
  BY DEF send_notification, logger
<1>2. queue # Removed /\ queue \in Seq(Nat) /\ delivered \in Seq(Nat) /\ sent \in Nat
  BY <1>1 DEF ShutdownIsInOrder, ChannelsAreTyped
<1>3. Len(queue) <= QueueSize /\ Len(queue) \in Nat
  BY <1>2 DEF TypeOK
<1>4. queue' \in Seq(Nat) /\ Len(queue') <= QueueSize
  <2>1. Append(queue, sent + 1) \in Seq(Nat) /\ Len(Append(queue, sent + 1)) = Len(queue) + 1
    BY <1>2
  <2> QED BY <1>1, <1>2, <1>3, <2>1, SizesAssumption DEF msgsnd
<1>5. queue' # Removed
  BY <1>4, RemovedAssumption
<1>6. NotifierPart'
  <2>1. PICK all : all = delivered \o queue
    OBVIOUS
  <2>2. all \in Seq(Nat)
    BY <1>2, <2>1, ConcatProperties
  <2>3. /\ \A i \in 1 .. Len(all) : all[i] <= sent
        /\ \A i \in 1 .. Len(all) - 1 : all[i] < all[i + 1]
    BY <1>2, <2>1 DEF NotifierPart, NotificationsInOrder, NumbersAreSent, Notified
  <2>4. CASE queue' = queue
    <3>1. \A i \in 1 .. Len(all) : all[i] \in Nat
      BY <2>2, ElementOfSeq
    <3>2. \A i \in 1 .. Len(all) : all[i] <= sent + 1
      BY <1>2, <2>3, <3>1
    <3> QED BY <1>1, <1>5, <2>1, <2>3, <2>4, <3>2
            DEF NotifierPart, NotificationsInOrder, NumbersAreSent, Notified
  <2>5. CASE queue' = Append(queue, sent + 1)
    <3>1. delivered' \o queue' = Append(all, sent + 1)
      BY <1>1, <1>2, <2>1, <2>5, SendingBehind
    <3>2. PICK new : new = Append(all, sent + 1)
      OBVIOUS
    <3>3. /\ \A i \in 1 .. Len(new) : new[i] <= sent + 1
          /\ \A i \in 1 .. Len(new) - 1 : new[i] < new[i + 1]
      BY <1>2, <2>2, <2>3, <3>2, AppendKeepsOrder
    <3>4. NotificationsInOrder'
      BY <1>5, <3>1, <3>2, <3>3 DEF NotificationsInOrder
    <3>5. NumbersAreSent'
      BY <1>1, <1>5, <3>1, <3>2, <3>3 DEF NumbersAreSent, Notified
    <3> QED BY <3>4, <3>5 DEF NotifierPart
  <2> QED BY <1>1, <2>4, <2>5 DEF msgsnd
<1>7. LoggerPart'
  BY <1>1, LoggerFrame DEF LogStream
<1>8. TypeOK' /\ ChannelsAreTyped'
  BY <1>1, <1>2, <1>4 DEF TypeOK, ChannelsAreTyped
<1>9. ShutdownIsInOrder'
  BY <1>1, <1>5 DEF ShutdownIsInOrder
<1> QED BY <1>6, <1>7, <1>8, <1>9, IpcInvPartsNext

\* The consumer takes the head of the queue.
LEMMA ReceiveKeeps ==
    ASSUME IpcInv, Receive
    PROVE  IpcInv'
<1> USE IpcInvParts
<1>1. /\ queue # Removed /\ queue # <<>>
      /\ delivered' = Append(delivered, Head(queue)) /\ queue' = Tail(queue)
      /\ consumer' = "check" /\ running' = running /\ sent' = sent
      /\ pipe' = pipe /\ logged' = logged /\ write_end' = write_end /\ writer' = writer
      /\ written' = written /\ worker' = worker /\ lines' = lines /\ server' = server
  BY DEF Receive, logger
<1>2. queue \in Seq(Nat) /\ delivered \in Seq(Nat)
  BY <1>1 DEF ChannelsAreTyped
<1>3. /\ Head(queue) \in Nat /\ queue' \in Seq(Nat) /\ delivered' \in Seq(Nat)
      /\ Len(queue') <= Len(queue) /\ Len(queue) \in Nat /\ Len(queue') \in Nat
  BY <1>1, <1>2
<1>4. queue' # Removed
  BY <1>3, RemovedAssumption
<1>5. delivered' \o queue' = delivered \o queue
  BY <1>1, <1>2, TakingTheHead
<1>6. NotifierPart'
  BY <1>1, <1>4, <1>5 DEF NotifierPart, NotificationsInOrder, NumbersAreSent, Notified
<1>7. LoggerPart'
  BY <1>1, LoggerFrame DEF LogStream
<1>8. TypeOK'
  BY <1>1, <1>3, SizesAssumption DEF TypeOK
<1>9. ChannelsAreTyped'
  BY <1>1, <1>3 DEF ChannelsAreTyped
<1>10. ShutdownIsInOrder'
  BY <1>1, <1>4 DEF ShutdownIsInOrder
<1> QED BY <1>6, <1>7, <1>8, <1>9, <1>10, IpcInvPartsNext

\* The steps of the consumer that take nothing.
LEMMA ConsumerMoves ==
    ASSUME IpcInv, ConsumerCheck \/ ReceiveFails \/ ReceiveInterrupted
    PROVE  IpcInv'
<1> USE IpcInvParts
<1>1. /\ consumer' \in {"check", "receive", "gone"}
      /\ UNCHANGED <<queue, delivered, running, pipe, logged, write_end, writer, written, worker,
                     sent, lines, server>>
  BY DEF ConsumerCheck, ReceiveFails, ReceiveInterrupted, AfterRemoval, logger
<1>2. NotifierPart' /\ LoggerPart'
  BY <1>1, NotifierFrame, LoggerFrame DEF LogStream
<1>3. TypeOK' /\ ChannelsAreTyped' /\ ShutdownIsInOrder'
  BY <1>1 DEF TypeOK, ChannelsAreTyped, ShutdownIsInOrder
<1> QED BY <1>2, <1>3, IpcInvPartsNext

\* What a worker does beside its writes.
LEMMA WorkerMoves ==
    ASSUME IpcInv, NEW w \in Workers, Disconnect(w) \/ WorkerExits(w)
    PROVE  IpcInv'
<1> USE IpcInvParts
<1>1. /\ worker[w] = Idle
      /\ \E v : worker' = [worker EXCEPT ![w] = v] /\ v \in {Gone, lines + 1}
                /\ lines' \in {lines, lines + 1} /\ (v = lines + 1 => lines' = lines + 1)
      /\ UNCHANGED <<queue, delivered, consumer, running, pipe, logged, write_end, writer, written,
                     sent, server>>
  <2>1. CASE Disconnect(w)
    BY <2>1 DEF Disconnect, logger, notifier
  <2>2. CASE WorkerExits(w)
    <3>1. worker' = [worker EXCEPT ![w] = Gone] /\ lines' = lines
      BY <2>2 DEF WorkerExits
    <3>2. Gone # lines + 1
      BY DEF Gone, ChannelsAreTyped
    <3> QED BY <2>2, <3>1, <3>2 DEF WorkerExits, logger, notifier
  <2> QED BY <2>1, <2>2
<1>2. worker \in [Workers -> Gone .. lines] /\ lines \in Nat /\ Gone = -1 /\ Idle = 0
  BY DEF TypeOK, ChannelsAreTyped, Gone, Idle
<1>3. lines' \in Nat /\ lines' >= lines
  BY <1>1, <1>2
<1>4. worker' \in [Workers -> Gone .. lines']
  BY <1>1, <1>2
<1>5. server \in {"up", "closing", "stopping"}
  BY <1>1, <1>2 DEF ShutdownIsInOrder, TypeOK
<1>6. NotifierPart' /\ LoggerPart'
  BY <1>1, NotifierFrame, LoggerFrame DEF LogStream
<1>7. TypeOK' /\ ChannelsAreTyped'
  BY <1>1, <1>3, <1>4 DEF TypeOK, ChannelsAreTyped
<1>8. ShutdownIsInOrder'
  BY <1>1, <1>5 DEF ShutdownIsInOrder
<1> QED BY <1>6, <1>7, <1>8, IpcInvPartsNext

\* A worker writes its message.
LEMMA WorkerWrites ==
    ASSUME IpcInv, NEW w \in Workers, pipe_logger_write(w)
    PROVE  IpcInv'
<1> USE IpcInvParts
<1>1. /\ worker[w] > 0 /\ PutLine(worker[w]) /\ worker' = [worker EXCEPT ![w] = 0]
      /\ UNCHANGED <<queue, delivered, consumer, running, logged, write_end, writer,
                     sent, lines, server>>
  BY DEF pipe_logger_write, notifier, Idle
<1>2. worker \in [Workers -> -1 .. lines] /\ lines \in Nat /\ Gone = -1
  BY DEF TypeOK, ChannelsAreTyped, Gone
<1>3. worker[w] \in Nat /\ worker[w] # Gone
  BY <1>1, <1>2
<1>4. LoggerPart' /\ pipe' \in Seq(Cell) /\ Len(pipe') <= PipeSize /\ written' \subseteq Nat
  BY <1>1, <1>3, LoggerWrites
<1>5. server \in {"up", "closing", "stopping"}
  BY <1>3 DEF ShutdownIsInOrder, TypeOK
<1>6. NotifierPart'
  BY <1>1, NotifierFrame
<1>7. worker' \in [Workers -> Gone .. lines']
  BY <1>1, <1>2
<1>8. TypeOK' /\ ChannelsAreTyped'
  BY <1>1, <1>4, <1>7 DEF TypeOK, ChannelsAreTyped
<1>9. ShutdownIsInOrder'
  BY <1>1, <1>5 DEF ShutdownIsInOrder
<1> QED BY <1>4, <1>6, <1>8, <1>9, IpcInvPartsNext

\* Main logs the shutdown.
LEMMA LogShutdownKeeps ==
    ASSUME IpcInv, LogShutdown
    PROVE  IpcInv'
<1> USE IpcInvParts
<1>1. /\ server = "closing" /\ server' = "stopping" /\ PutLine(lines + 1) /\ lines' = lines + 1
      /\ UNCHANGED <<queue, delivered, consumer, running, logged, write_end, writer, worker, sent>>
  BY DEF LogShutdown, notifier
<1>2. worker \in [Workers -> -1 .. lines] /\ lines \in Nat /\ lines + 1 \in Nat /\ Gone = -1
  BY DEF TypeOK, ChannelsAreTyped, Gone
<1>3. LoggerPart' /\ pipe' \in Seq(Cell) /\ Len(pipe') <= PipeSize /\ written' \subseteq Nat
  BY <1>1, <1>2, LoggerWrites
<1>4. NotifierPart'
  BY <1>1, NotifierFrame
<1>5. worker' \in [Workers -> Gone .. lines']
  BY <1>1, <1>2
<1>6. TypeOK' /\ ChannelsAreTyped'
  BY <1>1, <1>2, <1>3, <1>5 DEF TypeOK, ChannelsAreTyped
<1>7. ShutdownIsInOrder'
  BY <1>1 DEF ShutdownIsInOrder
<1> QED BY <1>3, <1>4, <1>6, <1>7, IpcInvPartsNext

\* The writer takes what is in the pipe.
LEMMA WriterReads ==
    ASSUME IpcInv, WriterRead
    PROVE  IpcInv'
<1> USE IpcInvParts
<1>1. PICK n \in 1 .. Len(pipe) :
        /\ logged' = logged \o SubSeq(pipe, 1, n)
        /\ pipe' = SubSeq(pipe, n + 1, Len(pipe))
  BY DEF WriterRead
<1>2. /\ writer = "read"
      /\ UNCHANGED <<queue, delivered, consumer, running, write_end, writer, written, worker,
                     sent, lines, server>>
  BY DEF WriterRead, notifier
<1>3. pipe \in Seq(Cell) /\ logged \in Seq(Cell) /\ Len(pipe) \in Nat /\ Len(pipe) <= PipeSize
  BY DEF ChannelsAreTyped, TypeOK
<1>4. /\ pipe' \in Seq(Cell) /\ logged' \in Seq(Cell) /\ Len(pipe') <= Len(pipe)
      /\ LogStream' = LogStream
  BY <1>1, <1>3, ReadingKeepsTheStream, ZenonT(40) DEF LogStream
<1>5. NotifierPart' /\ LoggerPart'
  BY <1>2, <1>4, NotifierFrame, LoggerFrame
<1>6. Len(pipe') <= PipeSize
  BY <1>3, <1>4, LenProperties, SizesAssumption
<1>7. TypeOK' /\ ChannelsAreTyped'
  BY <1>2, <1>4, <1>6 DEF TypeOK, ChannelsAreTyped
<1>8. ShutdownIsInOrder'
  BY <1>2 DEF ShutdownIsInOrder
<1> QED BY <1>5, <1>7, <1>8, IpcInvPartsNext

\* The steps of the shutdown beside the line it logs, and the writer's end.
LEMMA ShutdownMoves ==
    ASSUME IpcInv, Signal \/ NotifierStops \/ CloseWriteEnd \/ JoinWriter \/ WriterExits
    PROVE  IpcInv'
<1> USE IpcInvParts
<1>1. UNCHANGED <<queue, delivered, consumer, pipe, logged, written, worker, sent, lines>>
  BY DEF Signal, NotifierStops, CloseWriteEnd, JoinWriter, WriterExits, notifier, logger
<1>2. NotifierPart' /\ LoggerPart'
  BY <1>1, NotifierFrame, LoggerFrame DEF LogStream
<1>3. TypeOK' /\ ChannelsAreTyped'
  BY <1>1 DEF TypeOK, ChannelsAreTyped, Signal, NotifierStops, CloseWriteEnd, JoinWriter,
              WriterExits, notifier, logger
<1>4. ShutdownIsInOrder'
  BY <1>1 DEF ShutdownIsInOrder, TypeOK, Signal, NotifierStops, CloseWriteEnd, JoinWriter,
              WriterExits, WriterAtEnd, notifier, logger
<1> QED BY <1>2, <1>3, <1>4, IpcInvPartsNext

\* notifier_destroy removes the queue with what is in it.
LEMMA RemoveQueueKeeps ==
    ASSUME IpcInv, RemoveQueue
    PROVE  IpcInv'
<1> USE IpcInvParts
<1>1. /\ server = "remove" /\ queue' = Removed /\ server' = "join_consumer"
      /\ UNCHANGED <<delivered, consumer, running, pipe, logged, write_end, writer, written, worker,
                     sent, lines>>
  BY DEF RemoveQueue, logger
<1>2. LoggerPart'
  BY <1>1, LoggerFrame DEF LogStream
<1>3. TypeOK' /\ ChannelsAreTyped' /\ ShutdownIsInOrder'
  BY <1>1 DEF TypeOK, ChannelsAreTyped, ShutdownIsInOrder
<1>4. NotifierPart'
  <2>1. CASE queue = Removed
    BY <1>1, <2>1 DEF NotifierPart, NotificationsInOrder, NumbersAreSent, Notified
  <2>2. CASE queue # Removed
    <3>1. queue \in Seq(Nat) /\ delivered \in Seq(Nat)
      BY <2>2 DEF ChannelsAreTyped
    <3>2. PICK all : all = delivered \o queue
      OBVIOUS
    <3>3. /\ Len(all) = Len(delivered) + Len(queue)
          /\ \A i \in 1 .. Len(delivered) + Len(queue) : all[i] =
               IF i <= Len(delivered) THEN delivered[i] ELSE queue[i - Len(delivered)]
      BY <3>1, <3>2, ConcatProperties
    <3>4. Len(delivered) \in Nat /\ Len(queue) \in Nat
      BY <3>1
    <3>5. Len(delivered) <= Len(all) /\ \A i \in 1 .. Len(delivered) : all[i] = delivered[i]
      BY <3>3, <3>4
    <3>6. /\ \A i \in 1 .. Len(all) : all[i] <= sent
          /\ \A i \in 1 .. Len(all) - 1 : all[i] < all[i + 1]
      BY <2>2, <3>2 DEF NotifierPart, NotificationsInOrder, NumbersAreSent, Notified
    <3>7. \A i \in 1 .. Len(delivered) : delivered[i] <= sent
      <4> TAKE i \in 1 .. Len(delivered)
      <4>1. i \in 1 .. Len(all) /\ all[i] = delivered[i]
        BY <3>3, <3>4, <3>5
      <4> QED BY <3>6, <4>1
    <3>8. \A i \in 1 .. Len(delivered) - 1 : delivered[i] < delivered[i + 1]
      <4> TAKE i \in 1 .. Len(delivered) - 1
      <4>1. i \in 1 .. Len(all) - 1 /\ i \in 1 .. Len(delivered) /\ i + 1 \in 1 .. Len(delivered)
        BY <3>3, <3>4
      <4>2. all[i] < all[i + 1] /\ all[i] = delivered[i] /\ all[i + 1] = delivered[i + 1]
        BY <3>5, <3>6, <4>1
      <4> QED BY <4>2
    <3> QED BY <1>1, <3>7, <3>8 DEF NotifierPart, NotificationsInOrder, NumbersAreSent, Notified
  <2> QED BY <2>1, <2>2
<1> QED BY <1>2, <1>3, <1>4, IpcInvPartsNext

\* The process dies: the queue stays, the pipe and its writers are new.
LEMMA CrashKeeps ==
    ASSUME IpcInv, Crash
    PROVE  IpcInv'
<1> USE IpcInvParts
<1>1. /\ server = "up" /\ consumer' = "check" /\ pipe' = <<>> /\ written' = {} /\ logged' = <<>>
      /\ worker' = [w \in Workers |-> 0]
      /\ UNCHANGED <<queue, delivered, running, write_end, writer, sent, lines, server>>
  BY DEF Crash, Idle
<1>2. NotifierPart'
  BY <1>1, NotifierFrame
<1>3. pipe' \in Seq(Cell) /\ logged' \in Seq(Cell) /\ logged' \o pipe' = <<>> /\ Len(pipe') = 0
  BY <1>1
<1>4. LoggerPart'
  BY <1>1, <1>3 DEF LoggerPart, IsPaired, WrittenIsInTheStream, LogStream
<1>5. worker' \in [Workers -> Gone .. lines']
  BY <1>1 DEF ChannelsAreTyped, Gone
<1>6. TypeOK' /\ ChannelsAreTyped'
  BY <1>1, <1>3, <1>5, SizesAssumption DEF TypeOK, ChannelsAreTyped
<1>7. ShutdownIsInOrder'
  BY <1>1 DEF ShutdownIsInOrder
<1> QED BY <1>2, <1>4, <1>6, <1>7, IpcInvPartsNext

\* Every step of the two channels keeps the invariant.
LEMMA NextKeeps == IpcInv /\ [Next]_vars => IpcInv'
<1> SUFFICES ASSUME IpcInv, [Next]_vars PROVE IpcInv'
  OBVIOUS
<1>1. CASE \E w \in Workers : send_notification(w) \/ Disconnect(w)
                               \/ pipe_logger_write(w) \/ WorkerExits(w)
  BY <1>1, SendNotification, WorkerMoves, WorkerWrites
<1>2. CASE ConsumerCheck \/ Receive \/ ReceiveFails \/ ReceiveInterrupted
  BY <1>2, ConsumerMoves, ReceiveKeeps
<1>3. CASE WriterRead \/ WriterExits
  BY <1>3, WriterReads, ShutdownMoves
<1>4. CASE Signal \/ NotifierStops \/ CloseWriteEnd \/ JoinWriter
  BY <1>4, ShutdownMoves
<1>5. CASE LogShutdown
  BY <1>5, LogShutdownKeeps
<1>6. CASE RemoveQueue
  BY <1>6, RemoveQueueKeeps
<1>7. CASE Crash
  BY <1>7, CrashKeeps
<1>8. CASE UNCHANGED vars
  <2>1. UNCHANGED <<queue, delivered, consumer, running, pipe, logged, write_end, writer, written,
                    worker, sent, lines, server>>
    BY <1>8 DEF vars, notifier, logger
  <2>2. TypeOK /\ ChannelsAreTyped /\ NotifierPart /\ LoggerPart /\ ShutdownIsInOrder
    BY IpcInvParts
  <2>3. NotifierPart' /\ LoggerPart'
    BY <2>1, <2>2, NotifierFrame, LoggerFrame DEF LogStream
  <2>4. TypeOK' /\ ChannelsAreTyped' /\ ShutdownIsInOrder'
    BY <2>1, <2>2 DEF TypeOK, ChannelsAreTyped, ShutdownIsInOrder
  <2> QED BY <2>3, <2>4, IpcInvPartsNext
<1> QED BY <1>1, <1>2, <1>3, <1>4, <1>5, <1>6, <1>7, <1>8 DEF Next

-----------------------------------------------------------------------------
(* The theorems.                                                           *)

(* The inductive invariant of notifier.c and logger.c: it holds in every   *)
(* reachable state.                                                        *)
THEOREM IpcInvHolds == Spec => []IpcInv
<1>1. Init => IpcInv
  BY InitEstablishes
<1>2. IpcInv /\ [Next]_vars => IpcInv'
  BY NextKeeps
<1> QED BY <1>1, <1>2, PTL DEF Spec

(* Notifications are taken at most once and in the order in which they were *)
(* sent, through a full queue, the death of the process and the removal.   *)
THEOREM NotificationsInOrderHolds == Spec => []NotificationsInOrder
<1>1. IpcInv => NotificationsInOrder
  BY DEF IpcInv
<1> QED BY <1>1, IpcInvHolds, PTL

(* The log is a sequence of whole messages wherever the writer cuts it, and *)
(* complete when pipe_logger_destroy returns.                              *)
THEOREM LogIsCompleteHolds == Spec => []LogIsComplete
<1>1. IpcInv => LogIsComplete
  <2> SUFFICES ASSUME IpcInv PROVE LogIsComplete
    OBVIOUS
  <2>1. TypeOK /\ ChannelsAreTyped /\ IsPaired(LogStream) /\ WrittenIsInTheStream /\ ShutdownIsInOrder
    BY DEF IpcInv
  <2>2. Len(LogStream) % 2 = 0
    BY <2>1 DEF IsPaired
  <2>3. ASSUME NEW i \in 1 .. Len(LogStream) \div 2
        PROVE  <<LogStream[2 * i - 1], LogStream[2 * i]>> = Cells(LogStream[2 * i][1])
    <3>1. /\ LogStream[2 * i - 1] = <<LogStream[2 * i][1], 1>>
          /\ LogStream[2 * i] = <<LogStream[2 * i][1], 2>>
      BY <2>1 DEF IsPaired
    <3> QED BY <3>1, Zenon DEF Cells
  <2>4. ASSUME server = "down", NEW m \in written, NEW c \in ToSet(Cells(m)) PROVE c \in ToSet(logged)
    <3>1. pipe = <<>> /\ pipe \in Seq(Cell) /\ logged \in Seq(Cell)
      BY <2>1, <2>4 DEF ShutdownIsInOrder, ChannelsAreTyped
    <3>2. LogStream = logged
      BY <3>1 DEF LogStream
    <3>3. HasLine(logged, m)
      BY <2>1, <3>2 DEF WrittenIsInTheStream
    <3>4. c = <<m, 1>> \/ c = <<m, 2>>
      BY DEF ToSet, Cells
    <3>5. PICK i \in 1 .. Len(logged) : logged[i] = c
      BY <3>3, <3>4 DEF HasLine
    <3> QED BY <3>1, <3>5 DEF ToSet
  <2> QED BY <2>1, <2>2, <2>3, <2>4 DEF LogIsComplete, LogStream
<1> QED BY <1>1, IpcInvHolds, PTL

=============================================================================
