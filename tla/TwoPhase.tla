------------------------------ MODULE TwoPhase ------------------------------
(***************************************************************************)
(* What the transaction manager promises the booking engine: strict        *)
(* two-phase locking over record locks.  A transaction takes exclusive     *)
(* locks one by one while it grows; commit and abort end the growing       *)
(* phase, after which it only gives locks back.  TxnManager implements     *)
(* this specification and BookingEngine is built on it.                    *)
(***************************************************************************)
EXTENDS Naturals, FiniteSets

CONSTANTS Thread, Record,
          MaxActiveTxns     \* how many transactions may be growing at a time

VARIABLES held,             \* the record locks, as in RecordLock
          phase             \* phase[t]: of the transaction thread t runs, if any

RL == INSTANCE RecordLock

Growing == {t \in Thread : phase[t] = "growing"}
LocksOf(t) == {r \in Record : held[t][r] # "none"}

Init == RL!Init /\ phase = [t \in Thread |-> "none"]

SlotIsFree == Cardinality(Growing) < MaxActiveTxns

Begin(t) ==
    /\ phase[t] = "none" /\ SlotIsFree
    /\ phase' = [phase EXCEPT ![t] = "growing"]
    /\ UNCHANGED held

Lock(t, r) ==
    /\ phase[t] = "growing"
    /\ RL!Acquire(t, r, "EXCLUSIVE")
    /\ UNCHANGED phase

End(t) ==                   \* commit or abort: the slot is given back first
    /\ phase[t] = "growing"
    /\ phase' = [phase EXCEPT ![t] = "shrinking"]
    /\ UNCHANGED held

Unlock(t, r) ==
    /\ phase[t] = "shrinking"
    /\ RL!Release(t, r)
    /\ UNCHANGED phase

Finish(t) ==                \* the call returns when every lock is released
    /\ phase[t] = "shrinking" /\ LocksOf(t) = {}
    /\ phase' = [phase EXCEPT ![t] = "none"]
    /\ UNCHANGED held

Next ==
    \E t \in Thread :
        \/ Begin(t) \/ End(t) \/ Finish(t)
        \/ \E r \in Record : Lock(t, r) \/ Unlock(t, r)

Spec == Init /\ [][Next]_<<held, phase>>
=============================================================================
