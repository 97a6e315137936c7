----------------------------- MODULE TxnManager -----------------------------
(***************************************************************************)
(* server/txn/txn_manager.c: the array of transaction slots, each with the *)
(* list of the locks it has registered, and the COMMIT and ABORT records   *)
(* it writes to the log.  A step is one stretch of code under tm->mutex,   *)
(* or one call of the lock manager, which is made without it.  The lock    *)
(* manager is used through its abstract specification, RecordLock.         *)
(*                                                                         *)
(* The callers are the booking engine's: a transaction is used only by the *)
(* thread that began it, all locks are EXCLUSIVE, they are requested in    *)
(* ascending order, and a call that fails is followed by txn_abort.        *)
(***************************************************************************)
EXTENDS Integers, Sequences, FiniteSets, FiniteSetsExt, SequencesExt

CONSTANTS Thread,           \* the worker threads
          MaxRecord,        \* the records are 1..MaxRecord, in locking order
          MaxActiveTxns,    \* MAX_ACTIVE_TXNS: the number of slots
          MaxLocksPerTxn,   \* MAX_LOCKS_PER_TXN
          TxnIdSpace,       \* ids are unsigned and wrap: 0..TxnIdSpace-1
          MaxTxns,          \* bound: transactions begun in a behaviour
          MaxFaults         \* bound: log writes, fsyncs and mallocs that fail

ASSUME TxnConstants ==
    /\ IsFiniteSet(Thread) /\ MaxRecord \in Nat
    /\ MaxActiveTxns \in Nat \ {0} /\ MaxLocksPerTxn \in Nat
    /\ TxnIdSpace \in Nat \ {0, 1} /\ MaxTxns \in Nat /\ MaxTxns < TxnIdSpace /\ MaxFaults \in Nat

Record == 1..MaxRecord
Slot == 1..MaxActiveTxns
Id == 0..TxnIdSpace - 1
INVALID_TXN_ID == 0

VARIABLES txns,             \* the slots: id, active, locks
          next_txn_id,
          log,              \* the COMMIT and ABORT records written to the log
          durable,          \* the ones an fsync has made durable
          result,           \* what txn_commit or txn_abort of each id came to
          held,             \* the record locks
          pc,               \* where each thread is
          my,               \* its local state: txn_id, the record asked for, locks_copy
          begun, faults     \* what the bounds count

vars == <<txns, next_txn_id, log, durable, result, held, pc, my, begun, faults>>

phaseOf == [t \in Thread |-> CASE pc[t] = "idle" -> "none"
                               [] pc[t] = "releasing" -> "shrinking"
                               [] OTHER -> "growing"]
TP == INSTANCE TwoPhase WITH phase <- phaseOf
RL == INSTANCE RecordLock

NoTxn == [id |-> INVALID_TXN_ID, active |-> FALSE, locks |-> <<>>]
NoLocal == [id |-> INVALID_TXN_ID, want |-> 0, locks_copy |-> <<>>]

Init ==
    /\ txns = [s \in Slot |-> NoTxn]
    /\ next_txn_id = 1
    /\ log = {} /\ durable = {} /\ result = [i \in Id |-> "none"]
    /\ RL!Init
    /\ pc = [t \in Thread |-> "idle"]
    /\ my = [t \in Thread |-> NoLocal]
    /\ begun = 0 /\ faults = 0

-----------------------------------------------------------------------------
find_txn(id) == {s \in Slot : txns[s].active /\ txns[s].id = id}
SlotOf(t) == CHOOSE s \in find_txn(my[t].id) : TRUE
goto(t, l) == pc' = [pc EXCEPT ![t] = l]

mutNextIdNoGuard(id) == (id + 1) % TxnIdSpace

\* next_txn_id++ on an unsigned integer, skipping INVALID_TXN_ID.
NextId(id) == IF (id + 1) % TxnIdSpace = INVALID_TXN_ID THEN 1 ELSE (id + 1) % TxnIdSpace

mutFreeSlotsIgnoreActive == Slot

FreeSlots == {s \in Slot : ~txns[s].active}

\* txn_begin.  Without a free slot it returns INVALID_TXN_ID and changes nothing.
txn_begin(t) ==
    /\ pc[t] = "idle" /\ begun < MaxTxns
    /\ FreeSlots # {}
    /\ txns' = [txns EXCEPT ![Min(FreeSlots)] = [id |-> next_txn_id, active |-> TRUE, locks |-> <<>>]]
    /\ next_txn_id' = NextId(next_txn_id)
    /\ my' = [my EXCEPT ![t] = [NoLocal EXCEPT !.id = next_txn_id]]
    /\ begun' = begun + 1
    /\ goto(t, "open")
    /\ UNCHANGED <<log, durable, result, held, faults>>

mutAtLockLimit(s) == Len(txns[s].locks) > MaxLocksPerTxn

AtLockLimit(s) == Len(txns[s].locks) >= MaxLocksPerTxn

mutAnyOrder(s, r) == r \notin ToSet(txns[s].locks)

\* The booking engine sorts the records of a transaction before it locks them.
InOrder(s, r) == \A i \in DOMAIN txns[s].locks : txns[s].locks[i] < r

\* txn_lock up to the call of lock_mgr_lock.  At the limit it returns -1.
txn_lock(t, r) ==
    /\ pc[t] = "open"
    /\ InOrder(SlotOf(t), r)
    /\ my' = [my EXCEPT ![t].want = r]
    /\ goto(t, IF AtLockLimit(SlotOf(t)) THEN "aborting" ELSE "locking")
    /\ UNCHANGED <<txns, next_txn_id, log, durable, result, held, begun, faults>>

\* lock_mgr_lock returns 0, perhaps after a long wait, or -1 without memory.
lock_mgr_lock(t) ==
    /\ pc[t] = "locking"
    /\ \/ RL!Acquire(t, my[t].want, "EXCLUSIVE") /\ goto(t, "granted") /\ UNCHANGED faults
       \/ faults < MaxFaults /\ faults' = faults + 1 /\ goto(t, "aborting") /\ UNCHANGED held
    /\ UNCHANGED <<txns, next_txn_id, log, durable, result, my, begun>>

\* The rest of txn_lock: the slot is looked up again and the lock registered.
\* The branch for a transaction that has disappeared is never taken
\* (TxnSurvivesItsCalls).
RegisterLock(t) ==
    /\ pc[t] = "granted"
    /\ txns' = [txns EXCEPT ![SlotOf(t)].locks = Append(@, my[t].want)]
    /\ goto(t, "open")
    /\ UNCHANGED <<next_txn_id, log, durable, result, held, my, begun, faults>>

mutEndTxnLosesCopy(t, outcome) ==
    /\ my' = [my EXCEPT ![t].locks_copy = <<>>]
    /\ result' = [result EXCEPT ![my[t].id] = outcome]
    /\ txns' = [txns EXCEPT ![SlotOf(t)].active = FALSE, ![SlotOf(t)].locks = <<>>]
    /\ goto(t, "releasing")

mutEndTxnKeepsSlot(t, outcome) ==
    /\ my' = [my EXCEPT ![t].locks_copy = txns[SlotOf(t)].locks]
    /\ result' = [result EXCEPT ![my[t].id] = outcome]
    /\ txns' = [txns EXCEPT ![SlotOf(t)].locks = <<>>]
    /\ goto(t, "releasing")

\* The end of txn_commit and txn_abort under tm->mutex: the lock list is copied
\* and the slot is given back, before any lock is released.
EndTxn(t, outcome) ==
    /\ my' = [my EXCEPT ![t].locks_copy = txns[SlotOf(t)].locks]
    /\ result' = [result EXCEPT ![my[t].id] = outcome]
    /\ txns' = [txns EXCEPT ![SlotOf(t)].active = FALSE, ![SlotOf(t)].locks = <<>>]
    /\ goto(t, "releasing")

mutCommitWithoutFlush(t) ==
    /\ pc[t] = "open"
    /\ log' = log \cup {<<"COMMIT", my[t].id>>} /\ UNCHANGED durable
    /\ EndTxn(t, "committed")
    /\ UNCHANGED <<next_txn_id, held, begun, faults>>

\* txn_commit whose COMMIT record is appended and flushed.
txn_commit(t) ==
    /\ pc[t] = "open"
    /\ log' = log \cup {<<"COMMIT", my[t].id>>} /\ durable' = log'
    /\ EndTxn(t, "committed")
    /\ UNCHANGED <<next_txn_id, held, begun, faults>>

\* txn_commit whose append fails, or whose append succeeds and whose fsync
\* fails: tm->mutex is released and txn_abort is called.
CommitFails(t) ==
    /\ pc[t] = "open"
    /\ faults < MaxFaults /\ faults' = faults + 1
    /\ log' \in {log, log \cup {<<"COMMIT", my[t].id>>}}
    /\ goto(t, "aborting")
    /\ UNCHANGED <<txns, next_txn_id, durable, result, held, my, begun>>

\* txn_abort, called by the booking engine in the middle of a transaction or
\* after a call that failed.  The result of the log write is ignored.
txn_abort(t) ==
    /\ pc[t] \in {"open", "aborting"}
    /\ \/ log' = log \cup {<<"ABORT", my[t].id>>} /\ UNCHANGED faults
       \/ faults < MaxFaults /\ faults' = faults + 1 /\ UNCHANGED log
    /\ EndTxn(t, "aborted")
    /\ UNCHANGED <<next_txn_id, durable, held, begun>>

\* The loop that releases locks_copy, one lock_mgr_unlock at a time.
ReleaseLock(t) ==
    /\ pc[t] = "releasing" /\ my[t].locks_copy # <<>>
    /\ RL!Release(t, Head(my[t].locks_copy))
    /\ my' = [my EXCEPT ![t].locks_copy = Tail(@)]
    /\ UNCHANGED <<txns, next_txn_id, log, durable, result, pc, begun, faults>>

Return(t) ==
    /\ pc[t] = "releasing" /\ my[t].locks_copy = <<>>
    /\ goto(t, "idle")
    /\ my' = [my EXCEPT ![t] = NoLocal]
    /\ UNCHANGED <<txns, next_txn_id, log, durable, result, held, begun, faults>>

Step(t) ==
    \/ lock_mgr_lock(t) \/ RegisterLock(t) \/ ReleaseLock(t) \/ Return(t)
    \/ txn_commit(t) \/ txn_abort(t)

Next ==
    \E t \in Thread : txn_begin(t) \/ CommitFails(t) \/ Step(t) \/ \E r \in Record : txn_lock(t, r)

\* A worker thread is scheduled and finishes what it has begun; the locks of
\* one transaction are bounded, so it gets to its commit or abort.
Fairness == \A t \in Thread : WF_vars(Step(t))

Spec == Init /\ [][Next]_vars
FairSpec == Spec /\ Fairness

-----------------------------------------------------------------------------
TypeOK ==
    /\ txns \in [Slot -> [id : Id, active : BOOLEAN, locks : Seq(Record)]]
    /\ next_txn_id \in Id \ {INVALID_TXN_ID}
    /\ log \in SUBSET ({"COMMIT", "ABORT"} \X Id) /\ durable \in SUBSET log
    /\ result \in [Id -> {"none", "committed", "aborted"}]
    /\ TP!RL!HeldType
    /\ pc \in [Thread -> {"idle", "open", "locking", "granted", "aborting", "releasing"}]
    /\ my \in [Thread -> [id : Id, want : 0..MaxRecord, locks_copy : Seq(Record)]]
    /\ begun \in 0..MaxTxns /\ faults \in 0..MaxFaults

InTxn(t) == pc[t] \notin {"idle", "releasing"}

(* An id names one live transaction at a time, and the thread              *)
(* that runs it still finds it when it comes back from a wait inside       *)
(* lock_mgr_lock: the orphaned-lock branch (txn_manager.c:271) is dead.    *)
TxnSurvivesItsCalls ==
    /\ \A t \in Thread : InTxn(t) => Cardinality(find_txn(my[t].id)) = 1
    /\ \A t, u \in Thread : t # u /\ InTxn(t) /\ InTxn(u) => my[t].id # my[u].id

(* The slots in use are those of the running transactions: a transaction   *)
(* that ended has given its slot back although it still releases locks.    *)
SlotsAreReclaimed ==
    Cardinality({s \in Slot : txns[s].active}) = Cardinality({t \in Thread : InTxn(t)})

(* No lock leaks: the locks a thread holds are the ones its transaction    *)
(* registered, the one it is about to register, or the ones it is about to *)
(* release.  A thread outside a transaction holds none.                    *)
NoLockLeaks ==
    \A t \in Thread :
        {r \in Record : held[t][r] # "none"} =
            CASE pc[t] = "idle" -> {}
              [] pc[t] = "releasing" -> ToSet(my[t].locks_copy)
              [] pc[t] = "granted" -> ToSet(txns[SlotOf(t)].locks) \cup {my[t].want}
              [] OTHER -> ToSet(txns[SlotOf(t)].locks)

(* A transaction never holds more than MAX_LOCKS_PER_TXN locks, so the     *)
(* array in txn_t and the copy on the stack are not overrun.               *)
LockListsFit ==
    /\ \A s \in Slot : Len(txns[s].locks) <= MaxLocksPerTxn
    /\ \A t \in Thread : Len(my[t].locks_copy) <= MaxLocksPerTxn

(* When txn_commit has returned 0, the COMMIT record is durable and no     *)
(* ABORT record of the transaction exists, whatever failed before.         *)
CommittedIsDurable ==
    \A i \in Id : result[i] = "committed" => <<"COMMIT", i>> \in durable /\ <<"ABORT", i>> \notin log

(* Transactions are strictly two-phase and respect mutual exclusion.       *)
ImplementsTwoPhase == TP!Spec

(* Ascending requests never deadlock: every transaction ends.              *)
EveryTxnEnds == \A t \in Thread : pc[t] # "idle" ~> pc[t] = "idle"

(* What txn_begin, txn_lock and the two ends of a transaction owe each      *)
(* other between calls: a thread that is in a transaction has its slot and  *)
(* its locks in it, whoever else begins or ends meanwhile, and a thread     *)
(* that is not has neither.                                                 *)
SlotsAndLocksAgree ==
    TypeOK /\ TxnSurvivesItsCalls /\ SlotsAreReclaimed /\ NoLockLeaks /\ LockListsFit
=============================================================================
