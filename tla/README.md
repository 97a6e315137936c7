# Event ticketing platform: a TLA+ model

The server (C, POSIX threads) sells seats of events. Clients talk to it over
TCP, a pool of worker threads runs their commands, and the commands read and
write tables kept in a small storage engine. This directory models the server
from the accept loop down to the bytes of the log, one module per component,
checks each with TLC on small instances, and proves with TLAPS, for instances of
any size, the chain on which "no seat is sold twice" rests (lock table,
transaction manager, booking engine), the tables under it, and the server around
it (accept loop and thread pool, sessions and roles, notifier and logger).

## Inventory

| Part (source) | State | Operations | What is hard | What makes it correct |
|---|---|---|---|---|
| Lock manager (`server/txn/lock_manager.c`) | buckets of lock entries on the heap: `shared_count`, `exclusive_held`, `waiters`, a condition variable | `lock_mgr_lock`, `lock_mgr_unlock` | entries are freed by the unlock that finds them unused while other threads sleep on them; broadcast, spurious wakeups, barging | compatibility matrix; no use after free; no lost wakeup; exact counters |
| Transaction manager (`server/txn/txn_manager.c`) | 128 slots with an id and up to 64 registered locks; `next_txn_id` | `txn_begin`, `txn_lock`, `txn_commit`, `txn_abort` | `tm->mutex` is given up while a lock is waited for and before locks are released; commit that fails half-way; id wrap | strict two-phase locking; no leaked slot or lock; commit means durable |
| Booking engine (`server/core/booking_engine.c`) | the `bookings`, `booking_seats` and `seats` tables | `booking_book_seats`, `booking_cancel` | each is a dozen separate table calls; two bookings, booking and cancellation, two cancellations at once; failure between two calls | a seat has one confirmed booking; OK means all seats; a cancellation frees exactly its seats |
| Event manager, reports (`server/core/event_mgr.c`, `reports.c`) | `events`, `seats` tables | create (one event row, then its seats one by one), delete, revenue of an event or of an organizer | an event is visible before its seats; a report reads in two calls; 16-bit arguments | every place has one seat; a report counts all of them |
| Router (`server/main.c`) | the connection's session, global shutdown flag | one handler per command; start-up, signal handler, shutdown | commands of several connections at once; signals at any moment | access checks; order of destruction |
| Authentication (`server/auth/auth.c`, `rbac.c`) | `users` table, session pool keyed by descriptor | register, login, logout, session create/remove, `rbac_check` | check-then-insert of a name; descriptor reuse | a session belongs to its connection; roles are respected |
| TCP server (`server/network/tcp_server.c`) | listening socket, `running`, connection semaphore | create, accept loop, stop, destroy | error paths that must give a slot back; stop beside a blocked accept | no slot lost; every accepted socket closed; a signal ends the server |
| Thread pool (`server/network/thread_pool.c`) | bounded task list, mutex, two condition variables, `shutdown` | create, submit, worker loop, destroy | lost wakeups; shutdown with queued or running tasks; partial creation | a task runs once; destroy drains and returns |
| Tables, pages (`server/storage/table.c`, `page.c`) | pages of slots, one global `storage_mutex`, id counters | open, insert, find, update, delete, scan, count, close | log, page and index are written one after the other; crash between them | found by id exactly when inserted and not deleted; keys given out once |
| Buffer pool (`server/storage/buffer_pool.c`) | frames with pins and dirty flags, page map with open addressing, LRU list | fetch, unpin, mark dirty, flush, evict, destroy | map, list and frames must agree; write failure on eviction | a pinned page stays; a fetch returns the last contents |
| B+ tree (`server/storage/btree.c`) | nodes in memory, an index file | insert, search, delete, update, range scan, save, load | splits and splits without memory, lazy deletion, leaf chain | agrees with a map |
| Write-ahead log (`server/storage/wal.c`) | file, `next_lsn`, `flushed_lsn` | append, flush, open, close, recover | torn appends, failing fsync, crash; recovery is never called by the server | what is flushed can be read back |
| Notifier (`server/ipc/notifier.c`) | System V message queue, consumer thread, `running` | send, receive, destroy | full queue drops; a queue inherited from a dead process; removal under a waiting consumer | in order, at most once; destroy returns |
| Logger (`server/ipc/logger.c`) | a pipe and a writer thread | write, destroy | a full pipe blocks workers; data left in the pipe at close | whole lines, none lost at shutdown |
| Shared statistics (`server/ipc/stats.c`) | atomic counters | increment, decrement, snapshot | a way out that forgets the decrement | counters add up |
| Parser, client (`common/`, `client/`) | none of their own | text | | |

How they interact: the main thread accepts and submits connections, a worker
thread handles one connection from its first command to its last. Every
`table_*` call is atomic under `storage_mutex` (`table.c:661-708`), so threads
interleave between table calls. Isolation between commands comes only from
record locks taken through the transaction manager; plain reads take none. The
transaction manager calls the lock manager without holding `tm->mutex`. A table
writes the log record first, then the page in the buffer pool, then the index.

## Modules

| Module | Models | Built on |
|---|---|---|
| `RecordLock` | what the lock manager promises: compatible locks only | |
| `LockManager` | `lock_manager.c` | implements `RecordLock` |
| `TwoPhase` | what the transaction manager promises: strict two-phase locking with a limited number of transactions | `RecordLock` |
| `TxnManager` | `txn_manager.c` | uses `RecordLock`, implements `TwoPhase` |
| `BookingEngine` | `booking_engine.c` with the BOOK, CANCEL and DELETE_EVENT handlers | its lock steps are steps of `TwoPhase` |
| `Events` | `event_mgr.c`, `reports.c` and their handlers | atomic table calls |
| `Sessions` | `auth.c`, `rbac.c`, `client_handler` and the account and event handlers | atomic table calls |
| `ThreadPool` | `thread_pool.c` | |
| `TcpServer` | `tcp_server.c`, `main`, `server_init`, `signal_handler`, `server_shutdown` | extends `ThreadPool`: the two run as one system |
| `Ipc` | `notifier.c`, `logger.c` and their shutdown | |
| `PageStore` | what the buffer pool promises: a page has its last contents | |
| `BufferPool` | `buffer_pool.c` | implements `PageStore` |
| `OrderedMap` | what the index promises: a map changed at one key by one call | |
| `BTree` | `btree.c` | implements `OrderedMap` |
| `Wal` | `wal.c` over a file of cells | |
| `RecordTable` | what a table promises: rows under keys that are given out once | |
| `Table` | `table.c`, `page.c` | takes pages as `PageStore` and the index as `OrderedMap` describe them; implements `RecordTable` |
| `LockManagerProofs`, `TxnProofs`, `SessionProofs`, `ServerProofs`, `IpcProofs` | theorems about `LockManager`, `TxnManager`, `Sessions`, `TcpServer` with `ThreadPool`, `Ipc` | |
| `StorageProofs` | theorems about `Table`, `BufferPool` and `Wal` | extends all three |
| `BookingProofs` | theorems about `BookingEngine`: the seats, the answers of BOOK and CANCEL, the waits | extends it |
| `EventsProofs` | theorems about `Events` | extends it |
| `MC...` | the small instances for TLC | |

The layers are checked one at a time: each detailed module is shown to implement
its abstract one, and the module above uses the abstract one. `LockManager`
implements `RecordLock`, `TxnManager` uses it and implements `TwoPhase`, and
`BookingEngine` takes its locks through the actions of `TwoPhase`. In the storage
engine `BufferPool` implements `PageStore` and `BTree` implements `OrderedMap`;
`Table` is written over what these two promise.

**LockManager.** A step is a stretch of code under the bucket mutex. A call of
`lock_mgr_lock` that is granted at once is `LockGranted`; one that must wait
registers in `waiters` and sleeps (`LockWaits`); the return from
`pthread_cond_wait` tests the condition again (`WakeGranted`, `WakeWaits`).
`Unlock` drops the lock, broadcasts and frees the entry if it is unused. Freed
addresses are given out again, so a stale pointer would find another record's
entry. `held` records what the callers were granted. `entry->mode` is written
and never read and is left out. When `malloc` fails nothing changes.

**TxnManager.** A step is a stretch of code under `tm->mutex` or one call of the
lock manager. `txn_lock` is three steps: the checks, the wait, the registration.
`EndTxn` copies the lock list and gives the slot back; the locks are released
afterwards one by one. The log is the set of COMMIT and ABORT records with the
subset that is durable. Callers are the booking engine's: a thread uses its own
transaction, requests are EXCLUSIVE and in ascending order, and a failed call is
followed by an abort. (Two weak points are out of the callers' reach: `txn_lock`
returns success for a record already held whatever the mode, and after 2^32
transactions an id could be reused while its first owner is still active.)

**BookingEngine.** A step is one table call or one call of the transaction
manager; a seat that is read and written back under its lock is one step. The
loops over the seats take the lowest seat that is left, which is the sort of the
code. Seat lists are sequences, so that the cap at `MAX_SEATS_PER_BOOKING`, zero
ids and repeated ids are what the code sees. `Fault` is a call that fails:
without effect, or with what `table_insert` leaves behind (an id used up, a row
that scans find and the index does not), a scan that misses rows, or a seat that
`booking_cancel` passes over. A CANCEL may come at any time, also before the
answer to its BOOK: ids are consecutive and `MY_BOOKINGS` lists a booking from
the moment it is inserted. `acked` and `cancels` record what clients were told,
and whether a cancellation was that early; they are history, the code has no such
state.

**Events.** A client's command is a record in `cmd` that goes from step to step:
CREATE_EVENT inserts the event row and then, per step, one seat of the two nested
loops; the arguments are `(uint16_t)atoi(...)`, kept modulo 2^16, and are checked
after that conversion. A report looks the event up in one step and scans its seats
in the next, with the room of its array as a bound (`FirstOf`). `BookSeat` is what the booking
engine does to a seat meanwhile, also when the event has been deleted since it
looked. Calls fail: the insertion of a seat leaves nothing, or a row that scans find
and the index does not (`indexed`), the look-up of a report fails, and a scan passes
over the rows of the pages it cannot fetch, which a report notes as `missed`. What is
in a table stays there; that a page can be lost is the matter of `Table`.

**Sessions.** A connection has a handler state, a descriptor and the slot of its
session. Descriptors go back to the kernel when a connection is closed and are given
to the next. `Accept` waits for the semaphore of `tcp_server.c`, which has as many
slots as there are sessions; a handler that finds no session turns its client away
(`"full"`), and that this never happens is a property, not a guard. `users` and
`events` are sequences of rows, as a scan sees them; REGISTER, LOGIN and
DELETE_EVENT are two steps each, a check and a change. `permission_matrix` is the
table of `rbac.c`. Whose login filled in a session, and who created and deleted an
event, is kept as history for the properties.

**ThreadPool and TcpServer.** The pool's critical sections are its steps, with the
wait on `not_empty`, signals and spurious wakeups. The main thread is the pool's
owner: its states in `main` follow `server_init`, `tcp_server_create`, the accept
loop (wait for a slot, accept, make the task, submit, and the error path of each),
`tcp_server_destroy` and `server_shutdown`. A signal may come at any moment and
does what `signal_handler` does at that moment, through the pointer in `g_ctx`. A
task is a connection, and a worker that runs it is a handler. `sub` has the state of
each subsystem of `g_ctx`: not there yet, alive, `NULL`, freed. A missing buffer pool,
log or table ends the start-up, while anything created after the tables may stay
`NULL` and the server runs without it; what is created over something that is `NULL`
is `NULL` too. `tcp_server_create` may return `NULL`, after which the server shuts
down.

**Ipc.** The queue has room for `QueueSize` messages and outlives the process; a
notification that finds it full is dropped. The consumer tests `running` in one
step and is blocked in `msgrcv` in the next. The pipe has `PipeSize` cells and a
log message takes two, so that a reader can cut a message; a write of at most
`PIPE_BUF` bytes is atomic and blocks while there is no room.

**BufferPool.** Every operation runs under the pool's mutex and is one step: the
probing of the page map with the reinsertion of the following run on removal, the
LRU list as the `prev`/`next` links of the frames, the search for a victim and its
write-back. A user holds a pointer to a frame between fetch and unpin and writes through it.

**BTree.** The nodes are a sequence of records and a pointer is an index into it.
Insertion descends, splits on the way back and makes a new root; a split or a
root for which there is no memory leaves the node overfull or the key behind.
Deletion does not rebalance. The file is the pre-order list of nodes that
`btree_save` writes; opening reads it back and links the leaves again.

**Wal.** The file is the list of appends (`records`), where each begins and how much
of it reached the file; a header has two cells so that it can be cut. Readers work on
places in the file, not on the list: the scan of `wal_open` (`ScanAt`) and the replay
of `wal_recover` (`ReplayAt`) go, turn by turn, where the sizes they find lead, and
are lost behind a torn record as the code is; what they would make of bytes that are
not a header is left open, and no property speaks of it. The process may die with
the file as it is, and the machine may lose what was not synced.

**Table.** An operation is one step with an outcome: it succeeds, or one of the
calls in it fails and what was done before stays. The index is in memory and its
file is written at close; pages reach the disk when the pool writes them back; a
crash keeps the disk and the old index file. `table_open` finds the next id from
the pages. A write can fail wherever the code writes: at an eviction the page is
lost and is again what the disk has (`LosePage`); a flush leaves the pages in `bad`
unwritten, and at close, where nobody looks at its result, these are gone with the
pool while the index is saved all the same; the index file may not be written or be
torn. Look-up, scan and count take the set of pages that cannot be fetched
(`skipped`).

## Runs

| Run | Instance | Shows |
|---|---|---|
| `lock_table` | 3 threads, 2 records in one bucket, 3 addresses | `IInv`: one entry per record in use, exact counters, mutual exclusion, no entry freed under a waiter, no lost wakeup; `ImplementsRecordLock`; `FreedRecordIsTaken`: a record unlocked under waiters is granted again |
| `transactions` | 2 threads, 3 records, 2 slots, lock limit 2, 4 ids, 3 transactions, one fault | `SlotsAndLocksAgree`: a transaction survives its calls, slots and locks are not leaked, lists fit; `CommittedIsDurable`; `ImplementsTwoPhase`; `EveryTxnEnds` |
| `booking` | 3 workers, 2 users, one event, 2 seats and an unknown one, cap 2, 2 slots, 3 commands, one fault | `ConfirmedBookingsAreDisjoint`, `AckedBookingsHoldTheirSeats`, `AckedBookingsAreComplete`, `BookedSeatsAreBackedOrRaced`, `CancelledAtMostOnce`, `SeatsKeepTheirOwner`; `NoCircleOfWaits`: some worker at work can go on, whose lock is free |
| `cancel_overtakes_booking` | 2 workers, 2 commands, no fault | **violated**: `BookedSeatsAreBacked`, seats stay booked for a cancelled booking |
| `events` | 2 administrators, rows 1, 3 and 65538, halls up to 2 by 2, 2 events, one booking or failing call | `CreatedEventsHaveAllSeats`: one seat per place, but for failed insertions; `ReportsShowTheWholeHall`: a report counts every seat but the ones on pages it could not read |
| `sessions` | 3 connections, 3 descriptors, 2 slots, 3 names, 3 accounts, one event, one fault | `SessionIsOwn`; `EveryHandlerFindsASlot`: no client that was let in is turned away; `RolesAreRespected` |
| `server` | 2 workers, 3 connections, 2 slots, 2 signals, one fault in the pool and one in the server | `PoolRunsItsTasks`: each accepted task once, and no queued task without a worker; `SubmitNeverBlocks`; `EveryConnectionIsClosed`; `NothingOutlivesWhatItUses`: while a handler runs each subsystem is alive, or is one the server can do without and was never created; `SignalStopsServer` |
| `ipc` | 2 workers, queue of 2, pipe of 3 cells, 3 notifications, 2 log messages, one death of the process | `NotificationsInOrder`, `LogIsComplete`, `ShutdownReturns`, `ChannelsMove` |
| `buffer_pool` | 3 pages that collide, 2 frames, 8 buckets, 2 users, 2 values, one failing read, one failing write | `MapAndListAgree`; `PinsProtectTheirFrames`; `ImplementsPageStore` until a write fails |
| `btree` | 3 keys, 2 values, order 3, up to 7 nodes, one fault, one save | `TreeIsConsistent`: search and range scan agree with the leaf chain, the size is exact, nodes fit their arrays; `CleanMeansSaved`; `ImplementsOrderedMap` until a root or file call fails |
| `wal` | 3 appends of sizes 0 and 2, a torn write, a failing flush and close, 2 crashes, one loss of power | `ReplayIsTheLog` until something is appended behind a tear; `FlushedIsDurable` |
| `table` | 2 values, pages of 1 record, 2 ids, two failing calls or crashes | `FindAgreesWithScan`, whichever pages cannot be fetched, until the index is behind or a page was not written; `CrashesKeepKeysAndLog`: what is stored was logged, and until a page could not be written index entries lead to their row and keys are unique; `ImplementsRecordTable` until a page cannot be written or the process dies |

*Bounds.* Three threads give a holder, a waiter and a third that arrives between
broadcast and wakeup. Two records in one bucket and one address to spare make
addresses change hands. Three transactions in two slots of two threads use a slot
again, and the id space is one larger than the transactions begun, so that the
counter wraps and no id is reused. Three booking commands are a booking, its
cancellation and a third party; three workers for two slots let `txn_begin` fail.
Three pages for two frames force eviction, and all three hash to one bucket, so
that every removal has a run behind it. Three keys at order 3 split leaves and,
with deletions in between, inner nodes, up to a tree of three levels. Two records
on pages of one need a second page, and two failures bring the pairs that matter
(a lost page and a crash, a failing flush and a failing save); pages with several
slots are left to the proofs, which have no bound on them. Three connections and
descriptors for two slots let one wait, let descriptors and slots change hands, and
would fill the sessions if the accept loop did not wait. A pipe of
three cells is smaller than two messages, so that a writer blocks and a reader can
cut a message. In `events` 65538 rows are two rows in 16 bits and three exceed the
limit; the room for an organizer's events (100 in the code) is as large as the number of
events there. Outside `table` one fault is enough for every single failing call; no error
path calls something whose second failure leads elsewhere, with one exception named below. Workers,
users, connections, administrators and values are symmetric in runs without liveness.

*Deadlock* is checked in `booking`, `buffer_pool`, `wal` and `events`: some step is
always possible, and in `booking` `Quiescent` is the only step of a server that
has done its work. Elsewhere the system may stop: all threads of the lock table
wait when they lock in any order, bounds on transactions, rows and nodes are used
up, or the process has ended. `EveryTxnEnds`, `SignalStopsServer` and
`ShutdownReturns` say there that it does not stop too early.

*Fairness.* In `LockManager` only the return of a woken thread whose request can be
granted is fair: the kernel schedules a runnable thread and the bucket mutex is
held for bounded stretches. In `TxnManager` each thread's own steps are; that is
enough because a run has finitely many transactions, while with an endless supply
a waiter can be overtaken for ever, since the lock manager keeps no queue. In
`TcpServer` the main thread's steps (with no failure assumed in them), the
workers' steps in the pool and the release of a slot are fair; a handler is made to
end only once `g_shutdown` is set, because the one-second `SO_RCVTIMEO` makes it look
at the flag. `accept` waits for clients, who owe nothing. In `Ipc` the threads run
on; nobody has to send, to signal or to crash. `BookingEngine` has no fairness:
`NoCircleOfWaits` and the deadlock check say that some worker can always go on.

*What the violation means.* It is a race of the code with no failing call: BOOK
inserts the confirmed booking before its junction rows and does not lock the
booking's record, so CANCEL can work with half of the rows. `BookedSeatsAreBackedOrRaced`
shows in the larger instance that this is the only way to such a seat.

*What the guards of the properties stand for.* Several properties hold "until"
something happens. What happens then is known behaviour of the code, met while
modelling:

- a BOOK whose table call fails is answered with an error and leaves its booking,
  confirmed, with some of its seats (`booking_engine.c:14,71,72` say otherwise;
  the repository's README, line 286, names the missing undo as a limitation);
- a signal before `tcp_server_start` sets `running` is forgotten
  (`tcp_server.c:153`, beside `main.c:18`), and one during shutdown goes through
  a pointer to the server that was freed (`main.c:135`);
- two REGISTERs of one name can both succeed (`auth.c:155,172`, beside
  `auth.h:59`); `SESSION_TIMEOUT_SECS` in `config.h:44` is not used;
- a new root that gets no memory leaves half of the tree behind
  (`btree.c:447`), and `size`, unsigned, can then wrap; an `fclose` that fails is
  not noticed (`btree.c:660`). A second failing split of the same node would
  overrun its array (`btree.c:177`); `TreeIsConsistent` says that after one there is
  still room;
- an append that is torn (`wal.c:55`) hides what is appended behind it and lets
  LSNs be used again (`wal.c:200`); `wal_open` takes what it finds for flushed
  (`wal.c:226`);
- after a crash rows that were not written back are lost and the index may be
  older than the pages (`table.c:243,349`): the log is not replayed (README, line 289);
- a page whose write fails when it is evicted is lost with its frame, and the server
  goes on (`buffer_pool.c:256-261`, "data may be lost"): a record comes back as it
  was, or its index entry leads to a slot that the next insertion takes. At close the
  result of the flush is not looked at and the index is saved (`table.c:239,243`);
- scans and counts pass over pages they cannot fetch (`table.c:577,620`), without a
  word to the caller, so that a report can show fewer seats than the hall has;
- what `server_init` creates after the tables may be `NULL` and the server serves
  clients without it (`main.c:750-772`): no log, no notifications, no statistics,
  "Server full" to everyone without sessions, and no booking without locks or
  transactions;
- a seat whose insertion fails is passed over (`event_mgr.c:105`), and when only its
  index entry failed its row is in every list and no booking finds it; the answer to
  CREATE_EVENT counts with the numbers as given, the hall is made with their 16-bit
  remainders (`main.c:362,369`); `active_events` is never counted down
  (`stats.c:148`).

## Proofs

`LockManagerProofs` proves, for every finite set of threads and any records,
buckets, hash function and addresses:

- `LockTableInvariant`: `IInv` is invariant. It is the conjunction of `TypeOK`,
  `BucketsAreWellFormed` (each entry is in the bucket of its record, a record has
  one entry, no entry is unused), `RequestsAreWellFormed`,
  `HeldRecordsHaveEntries`, `WaitersEntryIsAlive`, `CountersAreExact`,
  `MutualExclusion` and `NoLostWakeup`;
- `LockTableMutualExclusion`, `NoUseAfterFree`, `WakeupsAreNotLost`,
  `LockCountersAreExact`, `EntriesFollowUse`: its parts, one by one;
- `LockTableImplementsRecordLock`: the refinement.

The argument: none of these is inductive alone. Mutual exclusion needs the
counters to be exact, because the code decides by the counters; exactness
needs the entry that is unlocked to be the one that was locked, hence one entry
per record; that a waiter's entry is alive needs its `waiters` to be at least
one, which is exactness again; and no wakeup is lost because every step that
ends a conflict is an unlock, which wakes all sleepers of the entry. Counting is
done by lemmas on the cardinality of the set of holders after one thread joins or
leaves it (`ThreadCounting`, `GrantIsExact`, `UngrantIsExact`). There is one
lemma per action, and `NextIInv` joins them.

The assumption is `LockConstants`: threads are finite, `Hash` maps records to
buckets, `NULL` is neither a record nor an address.

`TxnProofs` proves, for every finite set of threads and any number of records,
slots, locks per transaction and faults:

- `TxnInvHolds`: `TxnInv` is invariant;
- `SlotsAndLocksAgreeHolds`, `CommittedIsDurableHolds`;
- `TxnManagerIsTwoPhase`: the refinement of `TwoPhase`.

The argument: the code finds the slot of a transaction by its id, so everything
rests on ids that are used once (`IdsAreFresh`) and on slots that have one owner
(`SlotsAreOwned`). The locks of a thread are those in the list of its slot, or in
the copy that the release loop works through, plus the one it was just granted and
has not yet registered (`LocksAreOwned`); that the loop never comes to a lock it
has given back needs the lists to ascend (`ListsAscend`). `EndsAreRecorded` ties
the log to the results: a transaction whose slot is active has no result yet, an
ABORT record belongs to an aborted transaction, and a committed one has its COMMIT
record in the durable log. `TxnConstants` asks that
the ids do not wrap in a behaviour (`MaxTxns < TxnIdSpace`): the code gives out 2^32
of them and does not look whether one is still in use.

`BookingProofs` proves, for any workers, users, events, seats, seat lists and
commands, of behaviours with any number of faults:

- `BookingInvariant`: `IInvUntilAFault`, that is `IInv` as long as no call has
  failed, is invariant;
- `NoDoubleBooking`: `ConfirmedBookingsAreDisjoint` is invariant;
- `SeatOwnership`: every step satisfies `SeatsKeepTheirOwner`.

The argument: when a worker inserts a junction row for a seat, no other confirmed
booking may have a row for it. The worker has only seen that the seat is
available, so a row of a confirmed booking has to stand for something:
`RowsAreAccountedFor` says that its seat is booked for the booking's user, or is
about to be booked by the worker that inserted the row, or was just freed by a
cancellation that has not yet marked the booking. In the last two cases that
worker has the lock of the seat (`WorkersHaveTheirLocks`), which excludes every
other worker (`LocksAreExclusive`). `VerifiedSeatsStayFree` carries the
verification to the moment of the write, and `BookingsStayPut` says that the
booking being cancelled stays confirmed and in the name of its user, because the
canceller has the lock of its record. The race of `cancel_overtakes_booking` does
not break this: a booking cancelled while it is being made is no longer confirmed.
The lemma `FaultsAreCounted` says that `faults` never goes down, so a state without
a fault was reached by steps without one. The guard is needed: after a fault two
confirmed bookings can claim one seat. The constants satisfy `BookingConstants`:
the seats are positive ids, finitely many, and each belongs to an event.

For the answers of BOOK and CANCEL it proves:

- `CmdInvHolds`: `CmdInv`, which failing calls keep too, is invariant;
- `AckedBookingsAreCompleteHolds`, `CancelledAtMostOnceHolds`: what an OK stands
  for, whatever failed on the way;
- `RaceInvHolds`: `RaceInv`, which adds to both invariants what holds until a call
  fails, is invariant;
- `AckedBookingsHoldTheirSeatsHolds`, `BookedSeatsAreBackedOrRacedHolds`.

The argument: `BookerHasItsRows` follows a booking through its loops and says which
junction rows are there by now, so that after the last iteration the rows are those
of all seats; no other worker can add rows to it, because a booking id has one
maker (`BookingsHaveOneWorker`). A cancellation re-reads the status under the lock
of the booking and no one else can cancel while it holds that lock
(`CancellerHasItsBooking`), which gives one OK per booking. For the seats,
`CancelFreesItsSeats` says that a cancellation that came after the reply works on
all seats of its booking: the rows it has scanned are complete because the booking
was answered. `SeatsHaveABooking` is the property without its condition that the
seat is unlocked, which makes it inductive.

Of the waits it proves, whatever calls fail:

- `WaitInvHolds`: `WaitInv` is invariant;
- `SomeWorkerIsReadyHolds`: when commands are under way, one of their workers is
  ready (`SomeWorkerIsReady`), that is, the lock it asks for, if it asks for one, is
  free. `NoCircleOfWaits` adds that being ready is being ENABLED, which TLC checks.

The argument: a worker that holds locks and asks for another asks for one that comes
later in the order of the code: the record of the booking before the seats, and the
seats by their ids (`LocksAscend`), because a loop takes the lowest seat that is left
and the locks it has are those it took before. Of the workers that ask, take the one
that asks for the last record: whoever holds it does not ask for anything, and goes
on. That a worker between two locks is never stuck itself needs that it has what its
step works on: seats left in its loop (`LoopsHaveSeats`), a phase that fits its
command (`PhaseFits`), and an id for the booking it inserts (`IdsAreLeft`, which
counts the bookings against the commands that may still insert one).

`SessionProofs` proves, for finite sets of slots and connections and any
descriptors, names, users and events:

- `SessInvHolds`: `SessInv` is invariant;
- `SessionIsOwnHolds`, `EveryHandlerFindsASlotHolds`, `RolesAreRespectedHolds`.

The argument: descriptors are used again, so a session found by its descriptor is
the caller's own only because a descriptor belongs to one connection from accept to
close (`DescriptorsAreOpen`) and a slot in use to the handler in session that has
its descriptor (`SlotsAreTaken`); the slot is given up before the descriptor is
closed. Commands check in one step and act in the next; `ChecksStayTrue` says that
what was checked (the account of a name and its role, the owner of an event) cannot
change in between: rows are only appended, and an event only becomes deleted. For the
slots: a slot in use has a connection that is open, and no two have the same; a
connection at its start is open and has none; the semaphore lets in no more
connections than there are slots, so one is free (`SlotIsFree`), however many
descriptors the kernel has.

`ServerProofs` proves, for any finite set of worker threads that is not empty, any
finite set of connections, any number of slots, signals and failing calls:

- `ServerInvHolds`: `ServerInv` is invariant;
- `SubmitNeverBlocksHolds`, `PoolRunsItsTasksHolds`, `EveryConnectionIsClosedHolds`,
  `NothingOutlivesWhatItUsesHolds`.

The argument: `SlotsAreCounted` adds the value of the semaphore, the slot the
accept loop has in its hands, the open connections and the workers that have
closed one and not yet posted; the sum is `MAX_CONNECTIONS` through every error
path. A queued task is an open connection (`ConnsAreHeld`), hence fewer are queued
than there are slots, and a submission finds room. `QueueIsExact`,
`RunningIsExact` and `QueuedTasksHaveAWorker` say that a task is queued once or run
by one worker, and that a worker that will look at the queue is always left: one
that was signalled, one that is about to lock, or one that runs a task and comes
back. `SubsystemsAreInOrder` relates `sub` to how far start-up or shutdown has come:
the socket is made when all subsystems are settled, the ones the server cannot do
without are never `NULL`, nothing is freed before the teardown, and nothing before
its users, because the two orders agree on who uses whom (`OrdersAgree`,
`UsersGoFirst`).
`WorkersAreInOrder` relates it to the threads, so that nothing a worker uses is gone
before the workers are.

`IpcProofs` proves, for any workers, any sizes of the queue and the pipe, and any
number of messages and deaths of the process:

- `IpcInvHolds`: `IpcInv` is invariant;
- `NotificationsInOrderHolds`, `LogIsCompleteHolds`.

The argument: what was delivered followed by what is queued is strictly ascending
and below the number given out next (`NumbersAreSent`), which survives the queue
being removed. What is in the file followed by what is in the pipe consists of whole
messages, whose two cells are neighbours (`IsPaired`), though a reader may take one
cell at a time; and it has every message whose write returned
(`WrittenIsInTheStream`). `ShutdownIsInOrder` says that the writer leaves only an
empty pipe and that no worker is left to write by then. The constant `Removed` is
not a sequence.

`StorageProofs` proves of `Table`, for any contents, any number of records per page, of keys and
of failures:

- `TableInvHolds`: `TableInv` is invariant;
- `CrashesKeepKeysAndLogHolds`, `FindAgreesWithScanHolds`;
- `TableIsARecordTable`: the refinement of `RecordTable`, until a page cannot be
  written or the process dies.

The argument: `TableInv` has a part that holds whatever fails, `TableHasShape`, with
the places of the index inside the file and every stored record in the log, and a
part that holds until a page could not be written, `TableIsSound`. Of the second:
after a crash the pages are what the disk has, so every statement
about the pages needs one about the disk. `DiskLagsBehind` relates the two: a record
never leaves its slot, the disk may have fewer records and older contents, but has no
other key in any slot (`Grows`). Keys that are apart in the pages are then apart on
disk, and the saved index, which was written after the pages, leads into whatever the
disk grows to. `KeysAreGivenOnce` keeps `next_id` above the keys in the pages; at a
start it is computed from the disk, as the greatest of a finite set
(`FiniteHasGreatest`). Lemmas say what an empty page (`SameKeeps`), a record in a new
slot (`AddedKeeps`) and a record put in the place of another (`PutKeeps`) do to a
file; each action is one of these. `MaxId` and `MaxFaults` are bounds of the model.

and of `BufferPool`, for any number of frames, any finite set of users and any pages,
contents and failing reads and writes:

- `PoolInvHolds`: `PoolInv` is invariant;
- `MapAndListAgreeHolds`, `PinsProtectTheirFramesHolds`;
- `PoolIsAPageStore`: the refinement of `PageStore`, until a write fails.

The argument: a lookup stops at the first bucket that is not in use, so the map is
right when every bucket between the hash of a page and its entry is in use
(`PathIsFull`). A removal opens a gap, and the loop behind it takes the entries of the
run out and inserts them again; `LoopAt` is the invariant of that loop: what it has
not come to is as it was, and only entries it has not come to may have a gap on their
path. There is always a bucket to insert into, as there are four for each frame. The list is right
when there is a sequence of the valid frames, each once, whose neighbours are the
`prev` and `next` links (`Links`, `Lists`); removing and pushing a frame remove and
add an element. `PinsMatch` says that a pin count is the number of holders, hence
zero at a victim, and `NothingIsLost` that a frame which is not dirty, and whose
holder has not written to it, is what the file has. `PagesAssumption`,
`FramesAssumption`, `UsersAssumption` and `FaultsAssumption` give the constants their
types.

Of `Wal`, for records of any sizes and any number of appends and failures of each kind:

- `WalInvHolds`: `WalInv` is invariant;
- `ReplayIsTheLogHolds`, `FlushedIsDurableHolds`.

The argument: the appends lie one behind the other (`IsLog`), so as long as the
records before it are complete, turn k of either reader stands at the end of append k
(`ScanTurns`, `ReplayTurns`), the header there is its own (`HeaderAt`) and so are the
cells of its images (`CellAt`). The scan thus meets all complete records and the
header of a cut one, and the replay stops at the cut. `LsnsGrow` and `NextIsAbove` are
stated of the appends up to the first that is cut: what is appended behind it is not
covered, and a loss of power that takes it away again leaves a log of which they are
true (`CutKeeps`). `SyncedSoFar` says where the synced part of the file ends.
`SizesAssumption` is all that is asked of the constants.

Where an argument goes turn by turn (the readers, the reinsertion loop, the walk from
the tail of the list), the proof takes the least turn at which it would be wrong
(`LeastIsLeast`, from `FiniteHasGreatest`); that the recursive function of
a reader exists is proved the same way (`TurnsExist`).

`EventsProofs` proves, for any clients, any numbers of rows and seats given, any
limits on halls, and any number of events, bookings and failing calls:

- `EventsInvHolds`: `EventsInv` is invariant;
- `CreatedEventsHaveAllSeatsHolds`, `ReportsShowTheWholeHallHolds`.

The argument: the seats of an event are inserted in the order of the two loops, by one
client (`EventsHaveOneCreator`), so every seat of the event is at a place before the
one the loop stands at (`SeatsComeInOrder`, in the order `IsBefore`): the place is
new, and `PlacesAreSoldOnce` is kept. The places before it that have no seat are
counted against the insertions that failed (`FewAreMissing`); `NextSeatMoves` says
that one step of the loops passes exactly one place, and at the end all places of the
hall are before it. A report counts rows, not places: the two are as many because no
place has two seats, and none but the unread ones is left out because a hall has no
more places than the report has room for (`ScanFindsAll`; `HallAssumption` is the product the code
allocates). `ReportsAreRight` keeps this while seats are added to other events,
booked, and events deleted. `BoundsAssumption` gives the limits and the arguments
their types.

Only model-checked:

- liveness, and the part of `NoCircleOfWaits` that speaks of ENABLED: the prover
  reasons about neither;
- `BTree` (`TreeIsConsistent`, `CleanMeansSaved`, `ImplementsOrderedMap`): insertion,
  writing and reading recurse over the shape of the tree, and what such recursive
  operators return is known by induction over it only.

## Not modelled

- `lock_mgr_release_all` (no caller), `lock_mgr_destroy` and `txn_mgr_destroy`
  (after the workers have been joined), the SHARED mode above `LockManager` (no
  caller uses it).
- The wait of `thread_pool_submit` on a full queue: `SubmitNeverBlocks` shows that
  the server does not reach it.
- `page_delete_record` and `auth_get_session` (no caller); the second page that
  `table_insert` would try, which `storage_mutex` makes unreachable; the refusal of
  inserts when the ids run out; the conversion of junction rows of an older format.
- In `Sessions`: a server without the session pool, and a scan of the users that
  passes over a page (a name on that page could be registered a second time, which
  the race of two REGISTERs leads to as well).
- In `Table`: an `lseek` that fails in `page_get_count`; a write that is cut short
  leaves the page on disk as it was.
- In `Events`: the event row that an insertion without index entry leaves behind; no
  look-up finds it, and it has no seats.
- Password hashing (a LOGIN that passes is one that goes on), prices, timestamps,
  the counters of the statistics that only grow.
- The command parser, the wording and layout of answers, the commands that only
  list, reading a line from a socket, and the client: text, without shared state.

## Plan

1. Done: all components of the server, their abstract specifications and
   refinements; proofs of the lock table, the transaction manager, the booking
   engine, sessions and roles, server and thread pool, notifier and logger, tables,
   buffer pool, log, events and reports.
2. Proofs about `BTree`, once its recursion over the tree can be reasoned about.
3. `BookingEngine` over `Table` instead of atomic table calls with the failures
   they may have, if a smaller instance of the two together is found.
