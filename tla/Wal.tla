-------------------------------- MODULE Wal --------------------------------
(***************************************************************************)
(* The write-ahead log of server/storage/wal.c: records appended with one  *)
(* write for the header and one for each image, flushed with fsync, the    *)
(* next LSN found by scanning the headers when the log is opened again,    *)
(* and wal_recover's sequential replay.  The mutex is held around each     *)
(* operation, so an operation is one step; an append can end in the middle *)
(* because a write fails or because the process dies.                      *)
(*                                                                         *)
(* The file is kept as the list of appends, where each begins and how much *)
(* of it reached the file.  The bytes are abstracted to cells: a header    *)
(* has two, so that one can be cut, and each image has data_size of them.  *)
(***************************************************************************)
EXTENDS Integers, Sequences, FiniteSets

CONSTANTS
  DataSizes,        \* data_size of the records; 0 for commit, abort, checkpoint
  MaxAppends,       \* bound on records in the log
  MaxTornWrites,    \* bound on failing write calls
  MaxSyncFaults,    \* bound on failing fsync calls, in wal_flush and in wal_close
  MaxCrashes,       \* bound on deaths of the process
  MaxPowerLosses    \* bound on losses of what was not synced

ASSUME SizesAssumption == DataSizes \subseteq Nat

VARIABLES
  records,   \* the appends: lsn, data_size, where it starts, cells written, LSN returned or not
  wal,       \* the handle: open, next_lsn, flushed_lsn
  synced,    \* how many cells of the file are on stable storage
  failures   \* how often each kind of fault has happened

walVars == <<records, wal, synced, failures>>

INVALID_LSN == 0
HEADER == 2

CellsOf(size) == HEADER + 2 * size
Complete(e) == e.written = CellsOf(e.data_size)

\* Where an append ends and the next one is written, 0 being where the file begins.
End(e) == e.start + e.written
FileSize(entries) == IF entries = <<>> THEN 0 ELSE End(entries[Len(entries)])
-----------------------------------------------------------------------------
(* Reading                                                                 *)

\* The append that has a header at p.  Other bytes are taken for a header as they
\* are; what they say is arbitrary, and the readers are then lost.
HasHeader(e, p) == e.start = p /\ HEADER <= e.written
IsHeader(entries, p) == \E i \in DOMAIN entries : HasHeader(entries[i], p)
HeaderOf(entries, p) == CHOOSE i \in DOMAIN entries : HasHeader(entries[i], p)

\* What the cell at c is: the append it comes from and its place there.
Cell(entries, c) ==
  LET i == CHOOSE i \in DOMAIN entries : entries[i].start <= c /\ c < End(entries[i])
  IN  [of |-> i, at |-> c - entries[i].start]

\* Where the record of a header ends, if it is all there.
RecordEnd(entries, p) == p + CellsOf(entries[HeaderOf(entries, p)].data_size)

\* The loop of wal_open, turn by turn: the place of its read, which stays where
\* there is no header.  lseek moves past the end of the file without an error.
\* A turn goes forward to another header, so there are not more turns than appends.
ScanAt(entries) ==
  LET at[k \in 0 .. Len(entries)] ==
        IF k = 0 THEN 0
        ELSE LET p == at[k - 1] IN IF IsHeader(entries, p) THEN RecordEnd(entries, p) ELSE p
  IN  at

\* A scan that takes the LSN of the first header for the highest.
mutMaxLsn(entries) == IF IsHeader(entries, 0) THEN entries[HeaderOf(entries, 0)].lsn ELSE 0

max_lsn(entries) ==
  LET places == {ScanAt(entries)[k] : k \in 0 .. Len(entries)}
      lsns == {entries[HeaderOf(entries, p)].lsn : p \in {q \in places : IsHeader(entries, q)}}
  IN  CHOOSE m \in lsns \cup {0} : \A l \in lsns : l <= m

\* A replay that takes a record for cut short when the file ends with it.
mutIsRecord(entries, p) ==
  /\ IsHeader(entries, p)
  /\ entries[HeaderOf(entries, p)].lsn # INVALID_LSN
  /\ RecordEnd(entries, p) < FileSize(entries)

\* wal_recover goes on behind a valid header whose images are all there.
IsRecord(entries, p) ==
  /\ IsHeader(entries, p)
  /\ entries[HeaderOf(entries, p)].lsn # INVALID_LSN
  /\ RecordEnd(entries, p) <= FileSize(entries)

\* The loop of wal_recover, turn by turn.
ReplayAt(entries) ==
  LET at[k \in 0 .. Len(entries)] ==
        IF k = 0 THEN 0
        ELSE LET p == at[k - 1] IN IF IsRecord(entries, p) THEN RecordEnd(entries, p) ELSE p
  IN  at

\* What it passes to its callback.
Replayed(entries, p) ==
  LET i == HeaderOf(entries, p)
  IN  [lsn |-> entries[i].lsn, of |-> i,
       images |-> [j \in 1 .. 2 * entries[i].data_size |-> Cell(entries, p + HEADER + j - 1)]]

wal_recover ==
  LET at == ReplayAt(records)
      turns == {k \in 0 .. Len(records) : IsRecord(records, at[k])}
  IN  [k \in 1 .. Cardinality(turns) |-> Replayed(records, at[k - 1])]
-----------------------------------------------------------------------------
WalInit ==   \* wal_create
  /\ records = <<>>
  /\ wal = [open |-> TRUE, next_lsn |-> 1, flushed_lsn |-> 0]
  /\ synced = 0
  /\ failures = [write |-> 0, sync |-> 0, close |-> 0, crash |-> 0, power |-> 0]

Limit == [write |-> MaxTornWrites, sync |-> MaxSyncFaults, close |-> MaxSyncFaults,
          crash |-> MaxCrashes, power |-> MaxPowerLosses]
Fault(kind) ==
  /\ failures[kind] < Limit[kind]
  /\ failures' = [failures EXCEPT ![kind] = @ + 1]

LogRecord(size, written, acked) ==
  [lsn |-> wal.next_lsn, data_size |-> size, start |-> FileSize(records),
   written |-> written, acked |-> acked]

\* wal_append for each of the wal_log_ functions: the LSN is returned and used up.
wal_append(size) ==
  /\ wal.open /\ Len(records) < MaxAppends
  /\ records' = Append(records, LogRecord(size, CellsOf(size), TRUE))
  /\ wal' = [wal EXCEPT !.next_lsn = @ + 1]
  /\ UNCHANGED <<synced, failures>>

\* One of its writes fails after the first cells reached the file: they stay
\* there, INVALID_LSN is returned and the LSN is used again.
AppendFails(size, written) ==
  /\ wal.open /\ Len(records) < MaxAppends
  /\ Fault("write")
  /\ records' = IF written = 0 THEN records ELSE Append(records, LogRecord(size, written, FALSE))
  /\ UNCHANGED <<wal, synced>>

\* A flush that does not call fsync.
mutFlushed == [synced |-> synced, flushed_lsn |-> wal.next_lsn - 1]

Flushed == [synced |-> FileSize(records), flushed_lsn |-> wal.next_lsn - 1]

wal_flush ==
  /\ wal.open
  /\ synced' = Flushed.synced
  /\ wal' = [wal EXCEPT !.flushed_lsn = Flushed.flushed_lsn]
  /\ UNCHANGED <<records, failures>>

FlushFails == wal.open /\ Fault("sync") /\ UNCHANGED <<records, wal, synced>>

\* wal_close flushes, whatever comes of it, and closes the descriptor.
wal_close ==
  /\ wal.open
  /\ \/ synced' = Flushed.synced /\ UNCHANGED failures
     \/ Fault("close") /\ UNCHANGED synced
  /\ wal' = [wal EXCEPT !.open = FALSE]
  /\ UNCHANGED records

\* An opening that goes on with the highest LSN it found.
mutWalOpen ==
  /\ ~wal.open
  /\ wal' = [open |-> TRUE, next_lsn |-> max_lsn(records), flushed_lsn |-> max_lsn(records)]
  /\ UNCHANGED <<records, synced, failures>>

wal_open ==
  /\ ~wal.open
  /\ wal' = [open |-> TRUE, next_lsn |-> max_lsn(records) + 1, flushed_lsn |-> max_lsn(records)]
  /\ UNCHANGED <<records, synced, failures>>

\* The process dies; what it wrote is in the file.
ProcessDies ==
  /\ wal.open /\ Fault("crash")
  /\ wal' = [wal EXCEPT !.open = FALSE]
  /\ UNCHANGED <<records, synced>>

CrashInAppend(size, written) ==
  /\ wal.open /\ Len(records) < MaxAppends /\ written > 0
  /\ Fault("crash")
  /\ records' = Append(records, LogRecord(size, written, FALSE))
  /\ wal' = [wal EXCEPT !.open = FALSE]
  /\ UNCHANGED synced

\* What is left of the appends when the file is cut to n cells.
Cut(n) ==
  [i \in 1 .. Cardinality({j \in DOMAIN records : records[j].start < n}) |->
    [records[i] EXCEPT !.written = IF End(records[i]) <= n THEN @ ELSE n - records[i].start]]

\* The machine loses power: of what was not synced any part is gone.
PowerLoss ==
  /\ Fault("power")
  /\ \E n \in synced .. FileSize(records) : records' = Cut(n) /\ synced' = n
  /\ wal' = [wal EXCEPT !.open = FALSE]

WalNext ==
  \/ \E size \in DataSizes :
       \/ wal_append(size)
       \/ \E written \in 0 .. CellsOf(size) - 1 :
            AppendFails(size, written) \/ CrashInAppend(size, written)
  \/ wal_flush
  \/ FlushFails
  \/ wal_close
  \/ wal_open
  \/ ProcessDies
  \/ PowerLoss

WalSpec == WalInit /\ [][WalNext]_walVars
-----------------------------------------------------------------------------
(* Properties                                                              *)

\* The shapes of the log and its handle; INVALID_LSN is never handed out.
WalTypeOK ==
  /\ records \in Seq([lsn : Nat \ {INVALID_LSN}, data_size : DataSizes, start : Nat,
                      written : Nat \ {0}, acked : BOOLEAN])
  /\ \A i \in DOMAIN records : records[i].written <= CellsOf(records[i].data_size)
  /\ wal \in [open : BOOLEAN, next_lsn : Nat \ {INVALID_LSN}, flushed_lsn : Nat]
  /\ synced \in 0 .. FileSize(records)
  /\ failures \in [write : Nat, sync : Nat, close : Nat, crash : Nat, power : Nat]

Intact(i) == [lsn |-> records[i].lsn, of |-> i,
              images |-> [j \in 1 .. 2 * records[i].data_size |-> [of |-> i, at |-> HEADER + j - 1]]]

\* Nothing was appended behind a record that was cut short.
NothingBehindATear == \A i \in DOMAIN records : i < Len(records) => Complete(records[i])

\* As long as nothing was appended behind a record that was cut short, the
\* replay of wal_recover is exactly the complete records, in the order they were
\* appended and each with its own images, wherever the last one was cut; and the
\* LSNs of those that were returned increase (wal.h: "monotonically increasing")
\* across failed appends, crashes, losses of power and openings.
ReplayIsTheLog ==
  /\ WalTypeOK
  /\ NothingBehindATear =>
       /\ wal_recover = [i \in 1 .. Cardinality({j \in DOMAIN records : Complete(records[j])}) |-> Intact(i)]
       /\ \A i, j \in DOMAIN records :
            i < j /\ records[i].acked /\ Complete(records[i]) /\ records[j].acked => records[i].lsn < records[j].lsn

\* Every record up to flushed_lsn is on stable storage (wal.h: "Last LSN that
\* was fsync'd"), so a loss of power cannot take it: after failing appends and
\* flushes too, until the log was left without a sync, by a crash or by a close
\* whose fsync failed, or was torn (wal_open then calls flushed what it finds).
FlushedIsDurable ==
  wal.open /\ failures.crash = 0 /\ failures.close = 0 /\ NothingBehindATear =>
    \A i \in DOMAIN records :
      records[i].lsn <= wal.flushed_lsn /\ records[i].acked => End(records[i]) <= synced
=============================================================================
