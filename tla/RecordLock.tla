----------------------------- MODULE RecordLock -----------------------------
(***************************************************************************)
(* What the record-level lock table promises its callers: a thread holds a *)
(* record in SHARED or in EXCLUSIVE mode, and a lock is granted only when  *)
(* it is compatible with the locks the other threads hold (the matrix in   *)
(* the header comment of server/txn/lock_manager.c).  LockManager is the   *)
(* detailed specification that implements this one; TwoPhase builds on it. *)
(***************************************************************************)

CONSTANTS Thread,   \* the threads that take locks
          Record    \* the (table, record id) pairs that can be locked

VARIABLE held       \* held[t][r]: the mode in which thread t holds record r

Mode == {"SHARED", "EXCLUSIVE"}

(* Nobody may hold the record exclusively; an exclusive request also needs *)
(* the record to be free of sharers.                                       *)
Compatible(r, m) ==
    \A u \in Thread : held[u][r] = "none" \/ (m = "SHARED" /\ held[u][r] = "SHARED")

Acquire(t, r, m) ==
    /\ held[t][r] = "none"
    /\ Compatible(r, m)
    /\ held' = [held EXCEPT ![t][r] = m]

Release(t, r) ==
    /\ held[t][r] # "none"
    /\ held' = [held EXCEPT ![t][r] = "none"]

Init == held = [t \in Thread |-> [r \in Record |-> "none"]]

Next == \E t \in Thread, r \in Record : Release(t, r) \/ \E m \in Mode : Acquire(t, r, m)

Spec == Init /\ [][Next]_held

-----------------------------------------------------------------------------
HeldType == held \in [Thread -> [Record -> Mode \cup {"none"}]]

(* The compatibility matrix of lock_manager.c:14-20 as a state predicate:  *)
(* a record held exclusively by one thread is not held at all by another.  *)
MutualExclusion ==
    \A r \in Record : \A t, u \in Thread :
        t # u /\ held[t][r] = "EXCLUSIVE" => held[u][r] = "none"
=============================================================================
