---------------------------- MODULE LockManager ----------------------------
(***************************************************************************)
(* The lock table of server/txn/lock_manager.c: buckets of heap-allocated  *)
(* lock entries, created by the first lock of a record and freed by the    *)
(* unlock that leaves them without holders and waiters, and one condition  *)
(* variable per entry.  A step is one stretch of code under the bucket     *)
(* mutex; pthread_cond_wait ends a step, and the return from it begins the *)
(* next.  `held' is what the callers know: the locks each thread was       *)
(* granted and has not released (txn_t.locks in the transaction manager).  *)
(***************************************************************************)
EXTENDS Integers, FiniteSets

CONSTANTS Thread,   \* the worker threads
          Record,   \* the (table, record id) pairs
          Bucket,   \* the hash buckets
          Hash,     \* lock_hash: the bucket of each record
          Ptr,      \* the addresses malloc may return for an entry
          NULL      \* no record, no address

ASSUME LockConstants ==
    /\ IsFiniteSet(Thread)
    /\ Hash \in [Record -> Bucket]
    /\ NULL \notin Record /\ NULL \notin Ptr

VARIABLES bucket,   \* bucket[b]: the entries chained in bucket b
          entry,    \* entry[p]: the lock_entry_t at address p
          pc,       \* where each thread is: outside the lock table or in cond_wait
          req,      \* the arguments and the entry of a thread that is in cond_wait
          held      \* held[t][r]: the mode in which thread t was granted record r

vars == <<bucket, entry, pc, req, held>>

RL == INSTANCE RecordLock
Mode == RL!Mode

Entry == [rec : Record \cup {NULL}, shared_count : Nat, exclusive_held : BOOLEAN, waiters : Nat]
NewEntry(r) == [rec |-> r, shared_count |-> 0, exclusive_held |-> FALSE, waiters |-> 0]
NoEntry == NewEntry(NULL)                       \* memory that has been freed
NoReq == [rec |-> NULL, mode |-> "SHARED", ptr |-> NULL]

Live == UNION {bucket[b] : b \in Bucket}        \* the allocated entries

Init ==
    /\ bucket = [b \in Bucket |-> {}]
    /\ entry = [p \in Ptr |-> NoEntry]
    /\ pc = [t \in Thread |-> "running"]
    /\ req = [t \in Thread |-> NoReq]
    /\ RL!Init

-----------------------------------------------------------------------------
(* Helpers: lookup, the wait condition of each mode, the grant.            *)

find_entry(r) == {p \in bucket[Hash[r]] : entry[p].rec = r}

\* The entry to lock r with: the one in the bucket, or a fresh allocation.
find_or_create(r) == IF find_entry(r) # {} THEN find_entry(r) ELSE Ptr \ Live

mutConflictIgnoresSharers(e, m) == e.exclusive_held

Conflict(e, m) == e.exclusive_held \/ (m = "EXCLUSIVE" /\ e.shared_count > 0)

Grant(e, m) == IF m = "SHARED" THEN [e EXCEPT !.shared_count = @ + 1]
                               ELSE [e EXCEPT !.exclusive_held = TRUE]

mutUngrantSharedFirst(e) == [e EXCEPT !.shared_count = @ - 1]

\* lock_mgr_unlock does not know who calls it: it drops the exclusive lock
\* if there is one, else one shared lock.
Ungrant(e) == IF e.exclusive_held THEN [e EXCEPT !.exclusive_held = FALSE]
                                  ELSE [e EXCEPT !.shared_count = @ - 1]

mutInUseIgnoresWaiters(e) == e.shared_count > 0 \/ e.exclusive_held

\* try_remove_entry keeps an entry that still has holders or waiters.
InUse(e) == e.shared_count > 0 \/ e.exclusive_held \/ e.waiters > 0

mutBroadcastWakesOne(p) ==
    LET asleep == {u \in Thread : pc[u] = "asleep" /\ req[u].ptr = p}
        woken == IF asleep = {} THEN {} ELSE {CHOOSE u \in asleep : TRUE}
    IN  [u \in Thread |-> IF u \in woken THEN "awake" ELSE pc[u]]

mutBroadcastForgotten(p) == pc

\* pthread_cond_broadcast on the entry's condition variable.
Broadcast(p) ==
    [u \in Thread |-> IF pc[u] = "asleep" /\ req[u].ptr = p THEN "awake" ELSE pc[u]]

-----------------------------------------------------------------------------
(* lock_mgr_lock, called by a thread that does not hold r (txn_lock checks *)
(* that first).  The entry is found or created; then the lock is granted,  *)
(* or the thread registers as a waiter and goes to sleep.  When malloc has *)
(* no address to give, the call returns -1 and nothing has changed.        *)

LockGranted(t, r, m) ==
    /\ pc[t] = "running" /\ held[t][r] = "none"
    /\ \E p \in find_or_create(r) :
         LET e == IF p \in find_entry(r) THEN entry[p] ELSE NewEntry(r) IN
         /\ ~Conflict(e, m)
         /\ entry' = [entry EXCEPT ![p] = Grant(e, m)]
         /\ bucket' = [bucket EXCEPT ![Hash[r]] = @ \cup {p}]
    /\ held' = [held EXCEPT ![t][r] = m]
    /\ UNCHANGED <<pc, req>>

LockWaits(t, r, m) ==
    /\ pc[t] = "running" /\ held[t][r] = "none"
    /\ \E p \in find_entry(r) :
         /\ Conflict(entry[p], m)
         /\ entry' = [entry EXCEPT ![p].waiters = @ + 1]
         /\ req' = [req EXCEPT ![t] = [rec |-> r, mode |-> m, ptr |-> p]]
    /\ pc' = [pc EXCEPT ![t] = "asleep"]
    /\ UNCHANGED <<bucket, held>>

(* A thread back from pthread_cond_wait, holding the bucket mutex again:   *)
(* waiters--, then the while condition is tested once more.                *)
WakeGranted(t) ==
    LET p == req[t].ptr
        e == [entry[p] EXCEPT !.waiters = @ - 1]
    IN  /\ pc[t] = "awake"
        /\ ~Conflict(e, req[t].mode)
        /\ entry' = [entry EXCEPT ![p] = Grant(e, req[t].mode)]
        /\ held' = [held EXCEPT ![t][req[t].rec] = req[t].mode]
        /\ pc' = [pc EXCEPT ![t] = "running"]
        /\ req' = [req EXCEPT ![t] = NoReq]
        /\ UNCHANGED bucket

WakeWaits(t) ==
    /\ pc[t] = "awake"
    /\ Conflict(entry[req[t].ptr], req[t].mode)
    /\ pc' = [pc EXCEPT ![t] = "asleep"]         \* waiters-- and waiters++ cancel out
    /\ UNCHANGED <<bucket, entry, req, held>>

(* POSIX allows pthread_cond_wait to return without a broadcast.           *)
SpuriousWakeup(t) ==
    /\ pc[t] = "asleep"
    /\ pc' = [pc EXCEPT ![t] = "awake"]
    /\ UNCHANGED <<bucket, entry, req, held>>

(* lock_mgr_unlock, called by a thread for a lock it holds: drop the lock, *)
(* wake the waiters, free the entry if it is no longer in use.             *)
Unlock(t, r) ==
    /\ pc[t] = "running" /\ held[t][r] # "none"
    /\ \E p \in find_entry(r) :
         LET e == Ungrant(entry[p]) IN
         /\ entry' = [entry EXCEPT ![p] = IF InUse(e) THEN e ELSE NoEntry]
         /\ bucket' = [bucket EXCEPT ![Hash[r]] = IF InUse(e) THEN @ ELSE @ \ {p}]
         /\ pc' = Broadcast(p)
    /\ held' = [held EXCEPT ![t][r] = "none"]
    /\ UNCHANGED req

Next ==
    \E t \in Thread :
        \/ \E r \in Record, m \in Mode : LockGranted(t, r, m) \/ LockWaits(t, r, m)
        \/ \E r \in Record : Unlock(t, r)
        \/ WakeGranted(t) \/ WakeWaits(t) \/ SpuriousWakeup(t)

\* The scheduler runs a woken thread, and the bucket mutex is held for
\* bounded stretches only.  Nothing else is assumed to happen.
Fairness == \A t \in Thread : WF_vars(WakeGranted(t))

Spec == Init /\ [][Next]_vars
FairSpec == Spec /\ Fairness

-----------------------------------------------------------------------------
TypeOK ==
    /\ bucket \in [Bucket -> SUBSET Ptr]
    /\ entry \in [Ptr -> Entry]
    /\ pc \in [Thread -> {"running", "asleep", "awake"}]
    /\ req \in [Thread -> [rec : Record \cup {NULL}, mode : Mode, ptr : Ptr \cup {NULL}]]
    /\ RL!HeldType

Waiters(p) == {t \in Thread : pc[t] # "running" /\ req[t].ptr = p}
Holders(h, r, m) == {t \in Thread : h[t][r] = m}

(* The locks threads believe they hold respect the compatibility matrix.   *)
MutualExclusion == RL!MutualExclusion

(* No use after free: the entry a sleeping or woken thread will touch when *)
(* it returns from pthread_cond_wait is still allocated and still is the   *)
(* entry of the record it asked for (the `waiters' test at line 107).      *)
WaitersEntryIsAlive ==
    \A t \in Thread : pc[t] # "running" =>
        req[t].ptr \in find_entry(req[t].rec)

(* No lost wakeup: a thread sleeps only while its request conflicts with a *)
(* lock that is held, so the unlock that ends the conflict is still to     *)
(* come and will wake it (the broadcast at line 235).                      *)
NoLostWakeup ==
    \A t \in Thread : pc[t] = "asleep" => Conflict(entry[req[t].ptr], req[t].mode)

(* The counters of the allocated entries are exact, although unlock never  *)
(* learns who calls it: they count the sharers, the owner and the waiters. *)
CountersAreExact ==
    \A p \in Live :
        /\ entry[p].shared_count = Cardinality(Holders(held, entry[p].rec, "SHARED"))
        /\ entry[p].exclusive_held <=> (Holders(held, entry[p].rec, "EXCLUSIVE") # {})
        /\ entry[p].waiters = Cardinality(Waiters(p))

(* No leak and no loss: a record has an entry in its bucket exactly when a *)
(* thread holds it or waits for it, and never two.                         *)
OneEntryPerRecordInUse ==
    \A r \in Record :
        /\ find_entry(r) # {} <=> \E t \in Thread : held[t][r] # "none" \/ req[t].rec = r
        /\ \A p, q \in find_entry(r) : p = q

(* The inductive invariant: what links the buckets, the entries, the        *)
(* waiting threads and the locks they were granted.                         *)
BucketsAreWellFormed ==
    /\ \A b \in Bucket : \A p \in bucket[b] : entry[p].rec \in Record /\ Hash[entry[p].rec] = b
    /\ \A p, q \in Live : entry[p].rec = entry[q].rec => p = q
    /\ \A p \in Live : InUse(entry[p])

RequestsAreWellFormed ==
    \A t \in Thread :
        IF pc[t] = "running" THEN req[t] = NoReq
        ELSE req[t].rec \in Record /\ held[t][req[t].rec] = "none"

HeldRecordsHaveEntries ==
    \A t \in Thread, r \in Record : held[t][r] # "none" => find_entry(r) # {}

IInv ==
    /\ TypeOK
    /\ BucketsAreWellFormed
    /\ RequestsAreWellFormed
    /\ HeldRecordsHaveEntries
    /\ WaitersEntryIsAlive
    /\ CountersAreExact
    /\ MutualExclusion
    /\ NoLostWakeup

(* The lock table implements the abstract lock.                            *)
ImplementsRecordLock == RL!Spec

(* A record that is free while a thread waits for it is taken again: the   *)
(* waiters of an unlocked entry do not sleep through the unlock.           *)
Free(r) == \A t \in Thread : held[t][r] = "none"
FreedRecordIsTaken ==
    \A r \in Record : (Free(r) /\ \E t \in Thread : req[t].rec = r) ~> ~Free(r)
=============================================================================
