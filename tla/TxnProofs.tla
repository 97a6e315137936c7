----------------------------- MODULE TxnProofs -----------------------------
(***************************************************************************)
(* The transaction manager keeps its slots, its lock lists and its log in  *)
(* step with the threads that run transactions, and implements two-phase   *)
(* locking: for every number of threads, records, slots and locks per      *)
(* transaction, as long as the ids have not wrapped (MaxTxns < TxnIdSpace).*)
(***************************************************************************)
EXTENDS TxnManager, FiniteSetTheorems, SequenceTheorems, WellFoundedInduction, TLAPS

-----------------------------------------------------------------------------
(* The inductive invariant.                                                *)

\* Slot s is the one of the transaction that thread t is running.
Owns(t, s) == InTxn(t) /\ txns[s].active /\ txns[s].id = my[t].id

LocksHeld(t) == {r \in Record : held[t][r] # "none"}
Ascending(q) == \A i, j \in DOMAIN q : i < j => q[i] < q[j]

\* An id is handed out once: the next one is above all that were.
IdsAreFresh ==
    /\ begun < MaxTxns => next_txn_id = begun + 1
    /\ \A s \in Slot : txns[s].active => txns[s].id \in 1..begun
    /\ \A i \in Id : result[i] # "none" => i \in 1..begun

\* A running transaction has one slot, and a slot in use has one id.
SlotsAreOwned ==
    /\ \A t \in Thread : InTxn(t) => \E s \in Slot : Owns(t, s)
    /\ \A s1, s2 \in Slot : txns[s1].active /\ txns[s2].active /\ txns[s1].id = txns[s2].id => s1 = s2
    /\ \A t, u \in Thread : InTxn(t) /\ InTxn(u) /\ my[t].id = my[u].id => t = u

\* NoLockLeaks, with the slot quantified over instead of chosen.
LocksAreOwned ==
    /\ \A t \in Thread, r \in Record : held[t][r] \in {"none", "EXCLUSIVE"}
    /\ \A t \in Thread : pc[t] = "idle" => LocksHeld(t) = {}
    /\ \A t \in Thread : pc[t] = "releasing" => LocksHeld(t) = ToSet(my[t].locks_copy)
    /\ \A t \in Thread, s \in Slot : Owns(t, s) =>
          LocksHeld(t) = ToSet(txns[s].locks) \cup (IF pc[t] = "granted" THEN {my[t].want} ELSE {})

\* The lists are ascending, so no lock is in one twice and the release loop
\* never comes to a lock it has already given back.
ListsAscend ==
    /\ \A s \in Slot : Ascending(txns[s].locks) /\ Len(txns[s].locks) <= MaxLocksPerTxn
    /\ \A t \in Thread : Ascending(my[t].locks_copy) /\ Len(my[t].locks_copy) <= MaxLocksPerTxn
    /\ \A t \in Thread, s \in Slot : Owns(t, s) /\ pc[t] \in {"locking", "granted"} =>
          my[t].want \in Record /\ InOrder(s, my[t].want) /\ ~AtLockLimit(s)

\* The log against the results: a live transaction has no result yet, an
\* ABORT record belongs to an aborted transaction.
EndsAreRecorded ==
    /\ \A i \in Id, s \in Slot : result[i] # "none" /\ txns[s].active => txns[s].id # i
    /\ \A i \in Id : <<"ABORT", i>> \in log => result[i] = "aborted"
    /\ \A i \in Id : result[i] = "committed" => <<"COMMIT", i>> \in durable

TxnInv ==
    /\ TypeOK /\ IdsAreFresh /\ SlotsAreOwned /\ SlotsAreReclaimed
    /\ LocksAreOwned /\ ListsAscend /\ EndsAreRecorded

-----------------------------------------------------------------------------
(* The operators the actions are built from.                               *)

\* txn_begin takes the first free slot: a nonempty set of slots has a least.
\* The sets of slots below each of them are well-founded under inclusion.
LEMMA LeastSlot ==
    ASSUME NEW S \in SUBSET Nat, IsFiniteSet(S), S # {}
    PROVE  Min(S) \in S /\ \A y \in S : Min(S) <= y
<1>. DEFINE Below(x) == {y \in S : y < x}
            T == {Below(x) : x \in S}
<1>1. T \subseteq FiniteSubsetsOf(S) /\ T # {}
  <2>1. \A x \in S : Below(x) \in SUBSET S
    OBVIOUS
  <2>2. \A x \in S : Below(x) \in FiniteSubsetsOf(S)
    BY <2>1, FS_Subset DEF FiniteSubsetsOf
  <2>. QED
    BY <2>2
<1>2. PICK B \in T : \A C \in T : ~(<<C, B>> \in StrictSubsetOrdering(S))
  <2>. HIDE DEF T
  <2>. QED
    BY <1>1, WFMin, FS_StrictSubsetOrderingWellFounded
<1>3. PICK x \in S : B = Below(x)
  OBVIOUS
<1>4. ASSUME NEW y \in S, y < x PROVE FALSE
  <2>1. Below(y) \in T /\ Below(y) \subseteq Below(x) /\ y \in Below(x) /\ y \notin Below(y)
    <3>1. x \in Nat /\ y \in Nat /\ S \subseteq Nat
      OBVIOUS
    <3>2. \A z \in S : z < y => z < x
      BY <1>4, <3>1
    <3>3. y \in Below(x)
      BY <1>4
    <3>4. y \notin Below(y)
      BY <3>1
    <3>. QED
      BY <3>2, <3>3, <3>4
  <2>2. <<Below(y), Below(x)>> \in StrictSubsetOrdering(S)
    BY <2>1 DEF StrictSubsetOrdering
  <2>. QED
    BY <1>2, <1>3, <2>1, <2>2
<1>5. \A y \in S : x <= y
  BY <1>4
<1>. QED
  BY <1>5 DEF Min

\* How the number of slots in use, or of threads in a transaction, follows
\* one of them coming or going.
LEMMA CountingOne ==
    ASSUME NEW U, IsFiniteSet(U), NEW S \in SUBSET U, NEW x
    PROVE  /\ Cardinality(S) \in Nat
           /\ x \notin S => Cardinality(S \cup {x}) = Cardinality(S) + 1
           /\ x \in S => Cardinality(S \ {x}) = Cardinality(S) - 1
<1>1. IsFiniteSet(S)
  BY FS_Subset
<1>. QED
  BY <1>1, FS_CardinalityType, FS_AddElement, FS_RemoveElement

\* The slots are finitely many natural numbers.
LEMMA SlotsAreFinite == IsFiniteSet(Slot) /\ Slot \subseteq Nat
<1>1. IsFiniteSet(1..MaxActiveTxns)
  BY TxnConstants, FS_Interval
<1>2. 1..MaxActiveTxns \subseteq Nat
  BY TxnConstants
<1>. QED
  BY <1>1, <1>2 DEF Slot

\* find_txn finds the slot of the thread's transaction, and only that one.
LEMMA SlotOfOwns ==
    ASSUME TypeOK, SlotsAreOwned, NEW t \in Thread, InTxn(t)
    PROVE  /\ SlotOf(t) \in Slot
           /\ Owns(t, SlotOf(t))
           /\ \A s \in Slot : Owns(t, s) => s = SlotOf(t)
           /\ \A u \in Thread : Owns(u, SlotOf(t)) => u = t
           /\ find_txn(my[t].id) = {SlotOf(t)}
<1>1. PICK s \in Slot : Owns(t, s)
  BY DEF SlotsAreOwned
<1>2. find_txn(my[t].id) = {s}
  BY <1>1 DEF find_txn, Owns, SlotsAreOwned
<1>3. SlotOf(t) = s
  BY <1>2 DEF SlotOf
<1>. QED
  BY <1>1, <1>2, <1>3 DEF SlotsAreOwned, Owns, find_txn

\* Registering a lock keeps the list ascending.
LEMMA AppendAscends ==
    ASSUME NEW q \in Seq(Record), Ascending(q), NEW r \in Record,
           \A i \in DOMAIN q : q[i] < r
    PROVE  /\ Append(q, r) \in Seq(Record)
           /\ Ascending(Append(q, r))
           /\ Len(Append(q, r)) = Len(q) + 1
           /\ ToSet(Append(q, r)) = ToSet(q) \cup {r}
<1>1. /\ Append(q, r) \in Seq(Record) /\ Len(Append(q, r)) = Len(q) + 1
      /\ DOMAIN Append(q, r) = 1..Len(q) + 1 /\ DOMAIN q = 1..Len(q) /\ Len(q) \in Nat
      /\ \A i \in 1..Len(q) : Append(q, r)[i] = q[i]
      /\ Append(q, r)[Len(q) + 1] = r
  BY AppendProperties, LenProperties
<1>2. Ascending(Append(q, r))
  BY <1>1 DEF Ascending
<1>3. ToSet(Append(q, r)) = ToSet(q) \cup {r}
  BY <1>1 DEF ToSet
<1>. QED
  BY <1>1, <1>2, <1>3

\* Releasing the first lock of an ascending list leaves exactly the others.
LEMMA TailAscends ==
    ASSUME NEW q \in Seq(Record), Ascending(q), q # <<>>
    PROVE  /\ Head(q) \in Record /\ Head(q) \in ToSet(q)
           /\ Tail(q) \in Seq(Record)
           /\ Ascending(Tail(q))
           /\ Len(Tail(q)) = Len(q) - 1
           /\ ToSet(Tail(q)) = ToSet(q) \ {Head(q)}
<1>1. /\ Tail(q) \in Seq(Record) /\ Len(Tail(q)) = Len(q) - 1 /\ Len(q) \in Nat \ {0}
      /\ DOMAIN q = 1..Len(q) /\ DOMAIN Tail(q) = 1..Len(q) - 1
      /\ \A i \in 1..Len(q) - 1 : Tail(q)[i] = q[i + 1]
      /\ Head(q) = q[1] /\ \A i \in 1..Len(q) : q[i] \in Record
  BY HeadTailProperties, LenProperties, EmptySeq, ElementOfSeq
<1>2. Ascending(Tail(q))
  BY <1>1 DEF Ascending
<1>3. ToSet(Tail(q)) = ToSet(q) \ {Head(q)}
  <2>1. ASSUME NEW x \in ToSet(q) \ {Head(q)} PROVE x \in ToSet(Tail(q))
    <3>1. PICK i \in 1..Len(q) : x = q[i]
      BY <1>1 DEF ToSet
    <3>2. i - 1 \in 1..Len(q) - 1 /\ Tail(q)[i - 1] = x
      BY <1>1, <2>1, <3>1
    <3>. QED
      BY <1>1, <3>2 DEF ToSet
  <2>2. ASSUME NEW x \in ToSet(Tail(q)) PROVE x \in ToSet(q) \ {Head(q)}
    <3>1. PICK i \in 1..Len(q) - 1 : x = q[i + 1]
      BY <1>1 DEF ToSet
    <3>2. i + 1 \in 1..Len(q) /\ q[1] < q[i + 1] /\ q[1] \in Nat
      BY <1>1 DEF Ascending, Record
    <3>. QED
      BY <1>1, <3>1, <3>2 DEF ToSet, Record
  <2>. QED
    BY <2>1, <2>2
<1>4. Head(q) \in Record /\ Head(q) \in ToSet(q)
  BY <1>1 DEF ToSet
<1>. QED
  BY <1>1, <1>2, <1>3, <1>4

-----------------------------------------------------------------------------
\* Initially no slot is in use and nobody holds a lock.
LEMMA InitTxnInv == Init => TxnInv
<1>. SUFFICES ASSUME Init PROVE TxnInv
  OBVIOUS
<1>. USE TxnConstants
<1>1. TypeOK
  BY DEF Init, TypeOK, NoTxn, NoLocal, Id, INVALID_TXN_ID, RL!Init, TP!RL!HeldType, TP!RL!Mode
<1>2. \A t \in Thread : ~InTxn(t)
  BY DEF Init, InTxn
<1>3. \A s \in Slot : ~txns[s].active /\ txns[s].locks = <<>>
  BY DEF Init, NoTxn
<1>4. SlotsAreReclaimed
  <2>1. {s \in Slot : txns[s].active} = {} /\ {t \in Thread : InTxn(t)} = {}
    BY <1>2, <1>3
  <2>. QED
    BY <2>1 DEF SlotsAreReclaimed
<1>5. LocksAreOwned
  BY <1>2 DEF LocksAreOwned, Init, RL!Init, LocksHeld, Owns
<1>6. ListsAscend
  BY <1>2, <1>3 DEF ListsAscend, Ascending, Init, NoLocal, Owns
<1>7. IdsAreFresh /\ SlotsAreOwned /\ EndsAreRecorded
  BY <1>2, <1>3 DEF IdsAreFresh, SlotsAreOwned, EndsAreRecorded, Init
<1>. QED
  BY <1>1, <1>4, <1>5, <1>6, <1>7 DEF TxnInv

-----------------------------------------------------------------------------
(* One lemma per action: the action preserves the invariant.               *)

\* txn_begin: the id is fresh and the slot was free, so the new transaction
\* is the only one with either.
LEMMA BeginStep ==
    ASSUME TxnInv, NEW t \in Thread, txn_begin(t)
    PROVE  TxnInv'
<1>. USE TxnConstants DEF TxnInv
<1>1. PICK s0 \in Slot :
        /\ ~txns[s0].active
        /\ txns' = [txns EXCEPT ![s0] = [id |-> next_txn_id, active |-> TRUE, locks |-> <<>>]]
  <2>1. FreeSlots \in SUBSET Nat /\ IsFiniteSet(FreeSlots) /\ FreeSlots # {}
    <3>1. FreeSlots \in SUBSET Slot /\ FreeSlots # {}
      BY DEF FreeSlots, txn_begin
    <3>. QED
      BY <3>1, SlotsAreFinite, FS_Subset
  <2>2. Min(FreeSlots) \in FreeSlots
    BY <2>1, LeastSlot
  <2>. QED
    BY <2>2 DEF FreeSlots, txn_begin
<1>2. /\ next_txn_id = begun + 1 /\ begun \in Nat /\ begun < MaxTxns /\ begun' = begun + 1
      /\ begun + 1 \in Id /\ next_txn_id' = NextId(next_txn_id) /\ pc[t] = "idle"
      /\ pc' = [pc EXCEPT ![t] = "open"]
      /\ my' = [my EXCEPT ![t] = [id |-> begun + 1, want |-> 0, locks_copy |-> <<>>]]
      /\ UNCHANGED <<log, durable, result, held, faults>>
  <2>1. next_txn_id = begun + 1 /\ begun \in Nat /\ begun < MaxTxns
    BY DEF txn_begin, IdsAreFresh, TypeOK
  <2>2. begun + 1 \in Id
    BY <2>1 DEF Id
  <2>3. [NoLocal EXCEPT !.id = next_txn_id] = [id |-> begun + 1, want |-> 0, locks_copy |-> <<>>]
    BY <2>1 DEF NoLocal
  <2>. QED
    BY <2>1, <2>2, <2>3 DEF txn_begin, goto
<1>3. next_txn_id' \in Id \ {INVALID_TXN_ID} /\ (begun' < MaxTxns => next_txn_id' = begun' + 1)
  BY <1>2 DEF NextId, Id, INVALID_TXN_ID
<1>4. TypeOK'
  BY <1>1, <1>2, <1>3 DEF TypeOK, TP!RL!HeldType
<1>5. /\ \A s \in Slot : s # s0 => txns'[s] = txns[s]
      /\ txns'[s0].id = begun + 1 /\ txns'[s0].active /\ txns'[s0].locks = <<>>
      /\ \A u \in Thread : u # t => pc'[u] = pc[u] /\ my'[u] = my[u]
      /\ pc'[t] = "open" /\ my'[t].id = begun + 1 /\ my'[t].locks_copy = <<>>
  BY <1>1, <1>2 DEF TypeOK
<1>6. /\ \A u \in Thread : u # t => (InTxn(u)' <=> InTxn(u))
      /\ InTxn(t)' /\ ~InTxn(t)
  BY <1>2, <1>5 DEF InTxn
<1>7. /\ \A s \in Slot : txns[s].active => txns[s].id \in 1..begun
      /\ \A u \in Thread : InTxn(u) => my[u].id \in 1..begun
  BY DEF IdsAreFresh, SlotsAreOwned, Owns
<1>8. /\ Owns(t, s0)'
      /\ \A u \in Thread, s \in Slot : Owns(u, s)' =>
            \/ u = t /\ s = s0
            \/ u # t /\ s # s0 /\ Owns(u, s) /\ pc'[u] = pc[u] /\ my'[u] = my[u] /\ txns'[s] = txns[s]
      /\ \A u \in Thread, s \in Slot : Owns(u, s) => Owns(u, s)'
  BY <1>1, <1>2, <1>5, <1>6, <1>7 DEF Owns
<1>9. IdsAreFresh'
  BY <1>2, <1>3, <1>5, <1>7 DEF IdsAreFresh
<1>10. SlotsAreOwned'
  BY <1>2, <1>5, <1>6, <1>7, <1>8 DEF SlotsAreOwned
<1>11. SlotsAreReclaimed'
  <2>1. {s \in Slot : txns'[s].active} = {s \in Slot : txns[s].active} \cup {s0}
    BY <1>1, <1>5
  <2>2. {u \in Thread : InTxn(u)'} = {u \in Thread : InTxn(u)} \cup {t}
    BY <1>6
  <2>3. Cardinality({s \in Slot : txns'[s].active}) = Cardinality({s \in Slot : txns[s].active}) + 1
    BY <1>1, <2>1, CountingOne, SlotsAreFinite
  <2>4. Cardinality({u \in Thread : InTxn(u)'}) = Cardinality({u \in Thread : InTxn(u)}) + 1
    BY <1>6, <2>2, CountingOne
  <2>. QED
    BY <2>3, <2>4 DEF SlotsAreReclaimed
<1>12. LocksAreOwned'
  <2>1. \A u \in Thread : LocksHeld(u)' = LocksHeld(u)
    BY <1>2 DEF LocksHeld
  <2>2. LocksHeld(t)' = {} /\ ToSet(txns'[s0].locks) = {}
    BY <1>2, <1>5, <2>1 DEF LocksAreOwned, ToSet
  <2>. QED
    BY <1>2, <1>5, <1>8, <2>1, <2>2 DEF LocksAreOwned
<1>13. ListsAscend'
  <2>1. Ascending(<<>>) /\ Len(<<>>) = 0
    BY DEF Ascending
  <2>2. \A u \in Thread, s \in Slot : u # t /\ s # s0 => (InOrder(s, my[u].want)' <=> InOrder(s, my[u].want)) /\ (AtLockLimit(s)' <=> AtLockLimit(s))
    BY <1>5 DEF InOrder, AtLockLimit
  <2>. QED
    BY <1>5, <1>8, <2>1, <2>2 DEF ListsAscend
<1>14. EndsAreRecorded'
  BY <1>2, <1>5, <1>7 DEF EndsAreRecorded, IdsAreFresh
<1>. QED
  BY <1>4, <1>9, <1>10, <1>11, <1>12, <1>13, <1>14

\* txn_lock, up to the call of lock_mgr_lock.
LEMMA LockStep ==
    ASSUME TxnInv, NEW t \in Thread, NEW r \in Record, txn_lock(t, r)
    PROVE  TxnInv'
<1>. USE TxnConstants DEF TxnInv
<1>1. /\ pc[t] = "open" /\ InOrder(SlotOf(t), r)
      /\ my' = [my EXCEPT ![t].want = r]
      /\ pc' = [pc EXCEPT ![t] = IF AtLockLimit(SlotOf(t)) THEN "aborting" ELSE "locking"]
      /\ UNCHANGED <<txns, next_txn_id, log, durable, result, held, begun, faults>>
  BY DEF txn_lock, goto
<1>2. InTxn(t)
  BY <1>1 DEF InTxn
<1>3. TypeOK'
  <2>1. r \in 0..MaxRecord
    BY DEF Record
  <2>2. my' \in [Thread -> [id : Id, want : 0..MaxRecord, locks_copy : Seq(Record)]]
    BY <1>1, <2>1 DEF TypeOK
  <2>. QED
    BY <1>1, <2>2 DEF TypeOK, TP!RL!HeldType
<1>4. /\ \A u \in Thread : u # t => pc'[u] = pc[u] /\ my'[u] = my[u]
      /\ pc'[t] = "locking" \/ pc'[t] = "aborting"
      /\ pc'[t] = "locking" => ~AtLockLimit(SlotOf(t))
      /\ \A u \in Thread : my'[u].id = my[u].id /\ my'[u].locks_copy = my[u].locks_copy
      /\ my'[t].want = r
  BY <1>1 DEF TypeOK
<1>5. \A u \in Thread : (InTxn(u)' <=> InTxn(u))
  BY <1>2, <1>4 DEF InTxn
<1>6. \A u \in Thread, s \in Slot : (Owns(u, s)' <=> Owns(u, s)) /\ (Owns(t, s) => s = SlotOf(t))
  BY <1>1, <1>2, <1>4, <1>5, SlotOfOwns DEF Owns
<1>7. IdsAreFresh' /\ SlotsAreOwned' /\ EndsAreRecorded' /\ SlotsAreReclaimed'
  <2>1. IdsAreFresh'
    BY <1>1, <1>4, <1>5 DEF IdsAreFresh
  <2>2. SlotsAreOwned'
    BY <1>1, <1>4, <1>5, <1>6 DEF SlotsAreOwned
  <2>3. EndsAreRecorded'
    BY <1>1 DEF EndsAreRecorded
  <2>4. SlotsAreReclaimed'
    BY <1>1, <1>5 DEF SlotsAreReclaimed
  <2>. QED
    BY <2>1, <2>2, <2>3, <2>4
<1>8. LocksAreOwned'
  <2>1. \A u \in Thread : LocksHeld(u)' = LocksHeld(u)
    BY <1>1 DEF LocksHeld
  <2>. QED
    BY <1>1, <1>4, <1>6, <2>1 DEF LocksAreOwned
<1>9. ListsAscend'
  <2>1. \A s \in Slot : (AtLockLimit(s)' <=> AtLockLimit(s)) /\ \A x : (InOrder(s, x)' <=> InOrder(s, x))
    BY <1>1 DEF AtLockLimit, InOrder
  <2>. QED
    BY <1>1, <1>4, <1>6, <2>1 DEF ListsAscend, InOrder
<1>. QED
  BY <1>3, <1>7, <1>8, <1>9

\* lock_mgr_lock: the record is granted, or memory runs out.
LEMMA LockMgrStep ==
    ASSUME TxnInv, NEW t \in Thread, lock_mgr_lock(t)
    PROVE  TxnInv'
<1>. USE TxnConstants DEF TxnInv
<1>1. /\ pc[t] = "locking"
      /\ UNCHANGED <<txns, next_txn_id, log, durable, result, my, begun>>
  BY DEF lock_mgr_lock
<1>2. InTxn(t)
  BY <1>1 DEF InTxn
<1>3. /\ SlotOf(t) \in Slot /\ Owns(t, SlotOf(t))
      /\ my[t].want \in Record /\ my[t].locks_copy \in Seq(Record)
  BY <1>1, <1>2, SlotOfOwns DEF ListsAscend, TypeOK
<1>4. \A s \in Slot : (AtLockLimit(s)' <=> AtLockLimit(s)) /\ \A x : (InOrder(s, x)' <=> InOrder(s, x))
  BY <1>1 DEF AtLockLimit, InOrder
<1>5. CASE RL!Acquire(t, my[t].want, "EXCLUSIVE") /\ goto(t, "granted") /\ UNCHANGED faults
  <2>1. /\ held' = [held EXCEPT ![t][my[t].want] = "EXCLUSIVE"]
        /\ pc' = [pc EXCEPT ![t] = "granted"] /\ faults' = faults
    BY <1>5 DEF RL!Acquire, goto
  <2>2. held' \in [Thread -> [Record -> TP!RL!Mode \cup {"none"}]]
    BY <1>3, <2>1 DEF TypeOK, TP!RL!HeldType, TP!RL!Mode
  <2>3. TypeOK'
    BY <1>1, <2>1, <2>2 DEF TypeOK, TP!RL!HeldType
  <2>4. /\ \A u \in Thread : u # t => pc'[u] = pc[u] /\ held'[u] = held[u]
        /\ pc'[t] = "granted" /\ held'[t][my[t].want] = "EXCLUSIVE"
        /\ \A x \in Record : x # my[t].want => held'[t][x] = held[t][x]
    BY <1>3, <2>1 DEF TypeOK, TP!RL!HeldType
  <2>5. \A u \in Thread : (InTxn(u)' <=> InTxn(u))
    BY <1>2, <2>4 DEF InTxn
  <2>6. \A u \in Thread, s \in Slot : (Owns(u, s)' <=> Owns(u, s))
    BY <1>1, <2>5 DEF Owns
  <2>7. IdsAreFresh' /\ SlotsAreOwned' /\ EndsAreRecorded' /\ SlotsAreReclaimed'
    BY <1>1, <2>5, <2>6 DEF IdsAreFresh, SlotsAreOwned, EndsAreRecorded, SlotsAreReclaimed
  <2>8. LocksAreOwned'
    <3>1. \A u \in Thread : u # t => LocksHeld(u)' = LocksHeld(u)
      BY <2>4 DEF LocksHeld
    <3>2. LocksHeld(t)' = LocksHeld(t) \cup {my[t].want}
      BY <1>3, <2>4 DEF LocksHeld
    <3>3. \A u \in Thread, x \in Record : held'[u][x] \in {"none", "EXCLUSIVE"}
      BY <2>4 DEF LocksAreOwned
    <3>. QED
      BY <1>1, <2>4, <2>6, <3>1, <3>2, <3>3 DEF LocksAreOwned
  <2>9. ListsAscend'
    BY <1>1, <1>4, <2>4, <2>6 DEF ListsAscend
  <2>. QED
    BY <2>3, <2>7, <2>8, <2>9
<1>6. CASE faults < MaxFaults /\ faults' = faults + 1 /\ goto(t, "aborting") /\ UNCHANGED held
  <2>1. pc' = [pc EXCEPT ![t] = "aborting"] /\ held' = held /\ faults' \in 0..MaxFaults
    BY <1>6 DEF goto, TypeOK
  <2>2. TypeOK'
    BY <1>1, <2>1 DEF TypeOK, TP!RL!HeldType
  <2>3. (\A u \in Thread : u # t => pc'[u] = pc[u]) /\ pc'[t] = "aborting"
    BY <2>1 DEF TypeOK
  <2>4. \A u \in Thread : (InTxn(u)' <=> InTxn(u))
    BY <1>2, <2>3 DEF InTxn
  <2>5. \A u \in Thread, s \in Slot : (Owns(u, s)' <=> Owns(u, s))
    BY <1>1, <2>4 DEF Owns
  <2>6. IdsAreFresh' /\ SlotsAreOwned' /\ EndsAreRecorded' /\ SlotsAreReclaimed'
    BY <1>1, <2>4, <2>5 DEF IdsAreFresh, SlotsAreOwned, EndsAreRecorded, SlotsAreReclaimed
  <2>7. LocksAreOwned'
    BY <1>1, <2>1, <2>3, <2>5 DEF LocksAreOwned, LocksHeld
  <2>8. ListsAscend'
    BY <1>1, <1>4, <2>3, <2>5 DEF ListsAscend
  <2>. QED
    BY <2>2, <2>6, <2>7, <2>8
<1>. QED
  BY <1>5, <1>6 DEF lock_mgr_lock

\* The end of txn_lock: the slot is still there, and the lock it registers is
\* above every lock of the list.
LEMMA RegisterLockStep ==
    ASSUME TxnInv, NEW t \in Thread, RegisterLock(t)
    PROVE  TxnInv'
<1>. USE TxnConstants DEF TxnInv
<1>. DEFINE s0 == SlotOf(t)
            r == my[t].want
            q == txns[s0].locks
<1>1. /\ pc[t] = "granted" /\ pc' = [pc EXCEPT ![t] = "open"]
      /\ txns' = [txns EXCEPT ![s0].locks = Append(q, r)]
      /\ UNCHANGED <<next_txn_id, log, durable, result, held, my, begun, faults>>
  BY DEF RegisterLock, goto
<1>2. InTxn(t)
  BY <1>1 DEF InTxn
<1>3. /\ s0 \in Slot /\ Owns(t, s0)
      /\ \A s \in Slot : Owns(t, s) => s = s0
      /\ \A u \in Thread : Owns(u, s0) => u = t
  BY <1>2, SlotOfOwns
<1>4. /\ q \in Seq(Record) /\ Ascending(q) /\ r \in Record
      /\ \A i \in DOMAIN q : q[i] < r
      /\ Len(q) \in Nat /\ Len(q) < MaxLocksPerTxn
  BY <1>1, <1>3, LenProperties DEF ListsAscend, TypeOK, InOrder, AtLockLimit
<1>5. /\ Append(q, r) \in Seq(Record) /\ Ascending(Append(q, r))
      /\ Len(Append(q, r)) <= MaxLocksPerTxn
      /\ ToSet(Append(q, r)) = ToSet(q) \cup {r}
  BY <1>4, AppendAscends
<1>. HIDE DEF s0
<1>6. TypeOK'
  <2>1. txns' \in [Slot -> [id : Id, active : BOOLEAN, locks : Seq(Record)]]
    <3>1. PICK z \in Seq(Record) : z = Append(q, r)
      BY <1>5
    <3>2. txns' = [txns EXCEPT ![s0].locks = z]
      BY <1>1, <3>1
    <3>3. txns \in [Slot -> [id : Id, active : BOOLEAN, locks : Seq(Record)]]
      BY DEF TypeOK
    <3>. QED
      BY <1>3, <3>2, <3>3
  <2>. QED
    BY <1>1, <2>1 DEF TypeOK, TP!RL!HeldType
<1>7. /\ \A u \in Thread : u # t => pc'[u] = pc[u]
      /\ pc'[t] = "open" /\ my' = my
      /\ \A s \in Slot : s # s0 => txns'[s] = txns[s]
      /\ \A s \in Slot : txns'[s].id = txns[s].id /\ txns'[s].active = txns[s].active
      /\ txns'[s0].locks = Append(q, r)
  BY <1>1, <1>3 DEF TypeOK
<1>8. \A u \in Thread : (InTxn(u)' <=> InTxn(u))
  BY <1>2, <1>7 DEF InTxn
<1>9. \A u \in Thread, s \in Slot : (Owns(u, s)' <=> Owns(u, s))
  BY <1>7, <1>8 DEF Owns
<1>10. IdsAreFresh' /\ SlotsAreOwned' /\ EndsAreRecorded' /\ SlotsAreReclaimed'
  <2>1. {s \in Slot : txns'[s].active} = {s \in Slot : txns[s].active} /\ {u \in Thread : InTxn(u)'} = {u \in Thread : InTxn(u)}
    BY <1>7, <1>8
  <2>2. SlotsAreReclaimed'
    BY <2>1 DEF SlotsAreReclaimed
  <2>. QED
    BY <1>1, <1>7, <1>8, <1>9, <2>2 DEF IdsAreFresh, SlotsAreOwned, EndsAreRecorded
<1>11. LocksAreOwned'
  <2>1. \A u \in Thread : LocksHeld(u)' = LocksHeld(u)
    BY <1>1 DEF LocksHeld
  <2>2. LocksHeld(t) = ToSet(q) \cup {r}
    BY <1>1, <1>3 DEF LocksAreOwned
  <2>3. \A u \in Thread, s \in Slot : Owns(u, s) =>
          LocksHeld(u) = ToSet(txns'[s].locks) \cup (IF pc'[u] = "granted" THEN {my'[u].want} ELSE {})
    <3>1. ASSUME NEW s \in Slot, Owns(t, s)
          PROVE  LocksHeld(t) = ToSet(txns'[s].locks) /\ pc'[t] # "granted"
      BY <1>3, <1>5, <1>7, <2>2, <3>1
    <3>2. ASSUME NEW u \in Thread, u # t, NEW s \in Slot, Owns(u, s)
          PROVE  txns'[s] = txns[s] /\ pc'[u] = pc[u] /\ my'[u] = my[u]
      BY <1>3, <1>7, <3>2
    <3>. QED
      BY <3>1, <3>2 DEF LocksAreOwned
  <2>. QED
    BY <1>1, <1>7, <1>9, <2>1, <2>3 DEF LocksAreOwned
<1>12. ListsAscend'
  <2>1. \A s \in Slot : s # s0 => (AtLockLimit(s)' <=> AtLockLimit(s)) /\ \A x : (InOrder(s, x)' <=> InOrder(s, x))
    BY <1>7 DEF AtLockLimit, InOrder
  <2>. QED
    BY <1>3, <1>5, <1>7, <1>9, <2>1 DEF ListsAscend
<1>. QED
  BY <1>6, <1>10, <1>11, <1>12

\* The end of txn_commit and txn_abort: the list moves from the slot to the
\* stack, the slot is free, and the transaction has its result.  The log may
\* have grown, but not by an ABORT record of another transaction, nor by one
\* of a transaction that commits.
LEMMA EndTxnStep ==
    ASSUME TxnInv, NEW t \in Thread, pc[t] \in {"open", "aborting"},
           NEW outcome \in {"committed", "aborted"}, EndTxn(t, outcome),
           UNCHANGED <<next_txn_id, held, begun>>, faults' \in 0..MaxFaults,
           log' \in SUBSET ({"COMMIT", "ABORT"} \X Id),
           durable' \in SUBSET log', durable \subseteq durable',
           \A i \in Id : <<"ABORT", i>> \in log' => <<"ABORT", i>> \in log \/ (i = my[t].id /\ outcome = "aborted"),
           outcome = "committed" => <<"COMMIT", my[t].id>> \in durable'
    PROVE  TxnInv'
<1>. USE TxnConstants DEF TxnInv
<1>. DEFINE s0 == SlotOf(t)
            q == txns[s0].locks
            id == my[t].id
<1>1. /\ my' = [my EXCEPT ![t].locks_copy = q]
      /\ result' = [result EXCEPT ![id] = outcome]
      /\ txns' = [txns EXCEPT ![s0].active = FALSE, ![s0].locks = <<>>]
      /\ pc' = [pc EXCEPT ![t] = "releasing"]
  BY DEF EndTxn, goto
<1>2. InTxn(t)
  BY DEF InTxn
<1>3. /\ s0 \in Slot /\ Owns(t, s0)
      /\ \A s \in Slot : Owns(t, s) => s = s0
      /\ \A u \in Thread : Owns(u, s0) => u = t
  BY <1>2, SlotOfOwns
<1>4. q \in Seq(Record) /\ Ascending(q) /\ Len(q) <= MaxLocksPerTxn /\ id \in Id
  BY <1>3 DEF ListsAscend, TypeOK
<1>. HIDE DEF s0
<1>5. TypeOK'
  <2>1. txns \in [Slot -> [id : Id, active : BOOLEAN, locks : Seq(Record)]]
    BY DEF TypeOK
  <2>2. txns' \in [Slot -> [id : Id, active : BOOLEAN, locks : Seq(Record)]]
    <3>1. <<>> \in Seq(Record)
      OBVIOUS
    <3>2. txns[s0] \in [id : Id, active : BOOLEAN, locks : Seq(Record)]
      BY <1>3, <2>1
    <3>3. [[txns[s0] EXCEPT !.active = FALSE] EXCEPT !.locks = <<>>] \in [id : Id, active : BOOLEAN, locks : Seq(Record)]
      BY <3>1, <3>2
    <3>4. txns' = [txns EXCEPT ![s0] = [[txns[s0] EXCEPT !.active = FALSE] EXCEPT !.locks = <<>>]]
      BY <1>1, <1>3, <2>1, <3>2
    <3>. QED
      BY <1>3, <2>1, <3>3, <3>4
  <2>3. my' \in [Thread -> [id : Id, want : 0..MaxRecord, locks_copy : Seq(Record)]]
    BY <1>1, <1>4, ZenonT(40) DEF TypeOK
  <2>4. result' \in [Id -> {"none", "committed", "aborted"}]
    BY <1>1, <1>4 DEF TypeOK
  <2>. QED
    BY <1>1, <2>2, <2>3, <2>4 DEF TypeOK, TP!RL!HeldType
<1>6. /\ \A u \in Thread : u # t => pc'[u] = pc[u] /\ my'[u] = my[u]
      /\ pc'[t] = "releasing" /\ my'[t].locks_copy = q
      /\ \A s \in Slot : s # s0 => txns'[s] = txns[s]
      /\ txns'[s0].active = FALSE /\ txns'[s0].locks = <<>>
      /\ \A i \in Id : i # id => result'[i] = result[i]
      /\ result'[id] = outcome
  BY <1>1, <1>3, <1>4 DEF TypeOK
<1>7. /\ \A u \in Thread : u # t => (InTxn(u)' <=> InTxn(u))
      /\ ~InTxn(t)'
  BY <1>6 DEF InTxn
<1>8. \A u \in Thread, s \in Slot : (Owns(u, s)' <=> (Owns(u, s) /\ u # t /\ s # s0))
  BY <1>3, <1>6, <1>7 DEF Owns
<1>9. \A u \in Thread, s \in Slot : Owns(u, s) /\ u # t => Owns(u, s)'
  BY <1>3, <1>8
<1>10. txns[s0].active /\ txns[s0].id = id /\ id \in 1..begun
  BY <1>3 DEF Owns, IdsAreFresh
<1>11. IdsAreFresh'
  BY <1>6, <1>10 DEF IdsAreFresh
<1>12. SlotsAreOwned'
  BY <1>6, <1>7, <1>9 DEF SlotsAreOwned
<1>13. SlotsAreReclaimed'
  <2>1. {s \in Slot : txns'[s].active} = {s \in Slot : txns[s].active} \ {s0}
    BY <1>6
  <2>2. {u \in Thread : InTxn(u)'} = {u \in Thread : InTxn(u)} \ {t}
    BY <1>7
  <2>3. Cardinality({s \in Slot : txns'[s].active}) = Cardinality({s \in Slot : txns[s].active}) - 1
    BY <1>3, <1>10, <2>1, CountingOne, SlotsAreFinite
  <2>4. Cardinality({u \in Thread : InTxn(u)'}) = Cardinality({u \in Thread : InTxn(u)}) - 1
    BY <1>2, <2>2, CountingOne
  <2>. QED
    BY <2>3, <2>4 DEF SlotsAreReclaimed
<1>14. LocksAreOwned'
  <2>1. \A u \in Thread : LocksHeld(u)' = LocksHeld(u)
    BY DEF LocksHeld
  <2>2. LocksHeld(t) = ToSet(q)
    BY <1>3, ZenonT(40) DEF LocksAreOwned
  <2>3. \A u \in Thread, s \in Slot : Owns(u, s)' =>
          LocksHeld(u) = ToSet(txns'[s].locks) \cup (IF pc'[u] = "granted" THEN {my'[u].want} ELSE {})
    BY <1>6, <1>8 DEF LocksAreOwned
  <2>. QED
    BY <1>6, <2>1, <2>2, <2>3 DEF LocksAreOwned
<1>15. ListsAscend'
  <2>1. \A s \in Slot : s # s0 => (AtLockLimit(s)' <=> AtLockLimit(s)) /\ \A x : (InOrder(s, x)' <=> InOrder(s, x))
    BY <1>6 DEF AtLockLimit, InOrder
  <2>2. Ascending(<<>>) /\ Len(<<>>) = 0
    BY DEF Ascending
  <2>. QED
    BY <1>4, <1>6, <1>8, <2>1, <2>2 DEF ListsAscend
<1>16. EndsAreRecorded'
  <2>1. \A i \in Id, s \in Slot : result'[i] # "none" /\ txns'[s].active => txns'[s].id # i
    BY <1>3, <1>4, <1>6, <1>10 DEF EndsAreRecorded, SlotsAreOwned
  <2>2. result[id] = "none"
    BY <1>3, <1>4, <1>10 DEF EndsAreRecorded
  <2>3. \A i \in Id : <<"ABORT", i>> \in log' => result'[i] = "aborted"
    BY <1>6, <2>2 DEF EndsAreRecorded
  <2>4. \A i \in Id : result'[i] = "committed" => <<"COMMIT", i>> \in durable'
    BY <1>6 DEF EndsAreRecorded
  <2>. QED
    BY <2>1, <2>3, <2>4 DEF EndsAreRecorded
<1>. QED
  BY <1>5, <1>11, <1>12, <1>13, <1>14, <1>15, <1>16

\* txn_commit: the COMMIT record is durable before the slot is given back.
LEMMA CommitStep ==
    ASSUME TxnInv, NEW t \in Thread, txn_commit(t)
    PROVE  TxnInv'
<1>1. /\ pc[t] \in {"open", "aborting"} /\ EndTxn(t, "committed")
      /\ log' = log \cup {<<"COMMIT", my[t].id>>} /\ durable' = log'
      /\ UNCHANGED <<next_txn_id, held, begun, faults>>
  BY DEF txn_commit
<1>2. /\ my[t].id \in Id /\ log \in SUBSET ({"COMMIT", "ABORT"} \X Id)
      /\ durable \in SUBSET log /\ faults \in 0..MaxFaults
  BY DEF TxnInv, TypeOK
<1>3. /\ log' \in SUBSET ({"COMMIT", "ABORT"} \X Id) /\ durable \subseteq durable'
      /\ \A i \in Id : <<"ABORT", i>> \in log' => <<"ABORT", i>> \in log
      /\ <<"COMMIT", my[t].id>> \in durable'
  BY <1>1, <1>2
<1>. QED
  BY <1>1, <1>2, <1>3, EndTxnStep

\* txn_abort: the ABORT record is written or its write has failed.
LEMMA AbortStep ==
    ASSUME TxnInv, NEW t \in Thread, txn_abort(t)
    PROVE  TxnInv'
<1>1. /\ pc[t] \in {"open", "aborting"} /\ EndTxn(t, "aborted")
      /\ UNCHANGED <<next_txn_id, durable, held, begun>>
      /\ \/ log' = log \cup {<<"ABORT", my[t].id>>} /\ faults' = faults
         \/ faults < MaxFaults /\ faults' = faults + 1 /\ log' = log
  BY DEF txn_abort
<1>2. /\ my[t].id \in Id /\ log \in SUBSET ({"COMMIT", "ABORT"} \X Id)
      /\ durable \in SUBSET log /\ faults \in 0..MaxFaults
  BY DEF TxnInv, TypeOK
<1>3. faults' \in 0..MaxFaults
  BY <1>1, <1>2, TxnConstants
<1>4. /\ log' \in SUBSET ({"COMMIT", "ABORT"} \X Id) /\ durable' \in SUBSET log'
      /\ \A i \in Id : <<"ABORT", i>> \in log' => <<"ABORT", i>> \in log \/ i = my[t].id
  BY <1>1, <1>2
<1>. QED
  BY <1>1, <1>3, <1>4, EndTxnStep

\* txn_commit whose log write or fsync fails: perhaps a COMMIT record that is
\* not durable, and on to txn_abort.
LEMMA CommitFailsStep ==
    ASSUME TxnInv, NEW t \in Thread, CommitFails(t)
    PROVE  TxnInv'
<1>. USE TxnConstants DEF TxnInv
<1>1. /\ pc[t] = "open" /\ pc' = [pc EXCEPT ![t] = "aborting"]
      /\ faults < MaxFaults /\ faults' = faults + 1
      /\ log' \in {log, log \cup {<<"COMMIT", my[t].id>>}}
      /\ UNCHANGED <<txns, next_txn_id, durable, result, held, my, begun>>
  BY DEF CommitFails, goto
<1>2. /\ log' \in SUBSET ({"COMMIT", "ABORT"} \X Id) /\ log \subseteq log'
      /\ \A i \in Id : <<"ABORT", i>> \in log' => <<"ABORT", i>> \in log
  BY <1>1 DEF TypeOK
<1>3. TypeOK'
  BY <1>1, <1>2 DEF TypeOK, TP!RL!HeldType
<1>4. (\A u \in Thread : u # t => pc'[u] = pc[u]) /\ pc'[t] = "aborting"
  BY <1>1 DEF TypeOK
<1>5. \A u \in Thread : (InTxn(u)' <=> InTxn(u))
  BY <1>1, <1>4 DEF InTxn
<1>6. \A u \in Thread, s \in Slot : (Owns(u, s)' <=> Owns(u, s))
  BY <1>1, <1>5 DEF Owns
<1>7. IdsAreFresh' /\ SlotsAreOwned' /\ SlotsAreReclaimed'
  BY <1>1, <1>5, <1>6 DEF IdsAreFresh, SlotsAreOwned, SlotsAreReclaimed
<1>8. EndsAreRecorded'
  BY <1>1, <1>2 DEF EndsAreRecorded
<1>9. LocksAreOwned'
  BY <1>1, <1>4, <1>6 DEF LocksAreOwned, LocksHeld
<1>10. ListsAscend'
  <2>1. \A s \in Slot : (AtLockLimit(s)' <=> AtLockLimit(s)) /\ \A x : (InOrder(s, x)' <=> InOrder(s, x))
    BY <1>1 DEF AtLockLimit, InOrder
  <2>. QED
    BY <1>1, <1>4, <1>6, <2>1 DEF ListsAscend
<1>. QED
  BY <1>3, <1>7, <1>8, <1>9, <1>10

\* One round of the release loop.
LEMMA ReleaseLockStep ==
    ASSUME TxnInv, NEW t \in Thread, ReleaseLock(t)
    PROVE  TxnInv'
<1>. USE TxnConstants DEF TxnInv
<1>. DEFINE q == my[t].locks_copy
            r == Head(my[t].locks_copy)
<1>1. /\ pc[t] = "releasing" /\ q # <<>>
      /\ held' = [held EXCEPT ![t][r] = "none"]
      /\ my' = [my EXCEPT ![t].locks_copy = Tail(q)]
      /\ UNCHANGED <<txns, next_txn_id, log, durable, result, pc, begun, faults>>
  BY DEF ReleaseLock, RL!Release
<1>2. q \in Seq(Record) /\ Ascending(q) /\ Len(q) <= MaxLocksPerTxn /\ Len(q) \in Nat
  BY LenProperties DEF TypeOK, ListsAscend
<1>3. /\ r \in Record /\ Tail(q) \in Seq(Record) /\ Ascending(Tail(q))
      /\ Len(Tail(q)) = Len(q) - 1
      /\ ToSet(Tail(q)) = ToSet(q) \ {r}
  BY <1>1, <1>2, TailAscends
<1>4. TypeOK'
  <2>1. held' \in [Thread -> [Record -> TP!RL!Mode \cup {"none"}]]
    BY <1>1, <1>3 DEF TypeOK, TP!RL!HeldType
  <2>2. my' \in [Thread -> [id : Id, want : 0..MaxRecord, locks_copy : Seq(Record)]]
    <3>1. PICK z \in Seq(Record) : z = Tail(q)
      BY <1>3
    <3>. QED
      BY <1>1, <3>1 DEF TypeOK
  <2>. QED
    BY <1>1, <2>1, <2>2 DEF TypeOK, TP!RL!HeldType
<1>5. /\ \A u \in Thread : u # t => my'[u] = my[u] /\ held'[u] = held[u]
      /\ my'[t].locks_copy = Tail(q) /\ my'[t].id = my[t].id
      /\ held'[t][r] = "none" /\ \A x \in Record : x # r => held'[t][x] = held[t][x]
  BY <1>1, <1>3 DEF TypeOK, TP!RL!HeldType
<1>6. (\A u \in Thread : (InTxn(u)' <=> InTxn(u))) /\ ~InTxn(t)
  BY <1>1 DEF InTxn
<1>7. \A u \in Thread, s \in Slot : (Owns(u, s)' <=> Owns(u, s)) /\ ~Owns(t, s)
  BY <1>1, <1>5, <1>6 DEF Owns
<1>8. IdsAreFresh' /\ SlotsAreOwned' /\ EndsAreRecorded' /\ SlotsAreReclaimed'
  <2>1. IdsAreFresh'
    BY <1>1, <1>5, <1>6 DEF IdsAreFresh
  <2>2. SlotsAreOwned'
    BY <1>1, <1>5, <1>6, <1>7 DEF SlotsAreOwned
  <2>3. EndsAreRecorded'
    BY <1>1 DEF EndsAreRecorded
  <2>4. SlotsAreReclaimed'
    BY <1>1, <1>6 DEF SlotsAreReclaimed
  <2>. QED
    BY <2>1, <2>2, <2>3, <2>4
<1>9. LocksAreOwned'
  <2>1. \A u \in Thread : u # t => LocksHeld(u)' = LocksHeld(u)
    BY <1>5 DEF LocksHeld
  <2>2. LocksHeld(t)' = LocksHeld(t) \ {r}
    BY <1>3, <1>5 DEF LocksHeld
  <2>3. LocksHeld(t)' = ToSet(my'[t].locks_copy)
    BY <1>1, <1>3, <1>5, <2>2 DEF LocksAreOwned
  <2>4. \A u \in Thread, x \in Record : held'[u][x] \in {"none", "EXCLUSIVE"}
    BY <1>5 DEF LocksAreOwned
  <2>. QED
    BY <1>1, <1>5, <1>7, <2>1, <2>3, <2>4 DEF LocksAreOwned
<1>10. ListsAscend'
  <2>1. \A s \in Slot : (AtLockLimit(s)' <=> AtLockLimit(s)) /\ \A x : (InOrder(s, x)' <=> InOrder(s, x))
    BY <1>1 DEF AtLockLimit, InOrder
  <2>2. Len(Tail(q)) <= MaxLocksPerTxn
    BY <1>2, <1>3
  <2>. QED
    BY <1>1, <1>3, <1>5, <1>7, <2>1, <2>2 DEF ListsAscend
<1>. QED
  BY <1>4, <1>8, <1>9, <1>10

\* The call returns with every lock released.
LEMMA ReturnStep ==
    ASSUME TxnInv, NEW t \in Thread, Return(t)
    PROVE  TxnInv'
<1>. USE TxnConstants DEF TxnInv
<1>1. /\ pc[t] = "releasing" /\ my[t].locks_copy = <<>>
      /\ pc' = [pc EXCEPT ![t] = "idle"] /\ my' = [my EXCEPT ![t] = NoLocal]
      /\ UNCHANGED <<txns, next_txn_id, log, durable, result, held, begun, faults>>
  BY DEF Return, goto
<1>2. NoLocal \in [id : Id, want : 0..MaxRecord, locks_copy : Seq(Record)] /\ NoLocal.locks_copy = <<>>
  BY DEF NoLocal, INVALID_TXN_ID, Id
<1>3. TypeOK'
  BY <1>1, <1>2 DEF TypeOK, TP!RL!HeldType
<1>4. /\ \A u \in Thread : u # t => pc'[u] = pc[u] /\ my'[u] = my[u]
      /\ pc'[t] = "idle" /\ my'[t].locks_copy = <<>>
  BY <1>1, <1>2 DEF TypeOK
<1>5. (\A u \in Thread : (InTxn(u)' <=> InTxn(u))) /\ ~InTxn(t)
  BY <1>1, <1>4 DEF InTxn
<1>6. \A u \in Thread, s \in Slot : (Owns(u, s)' <=> Owns(u, s)) /\ ~Owns(t, s)
  BY <1>1, <1>4, <1>5 DEF Owns
<1>7. IdsAreFresh' /\ SlotsAreOwned' /\ EndsAreRecorded' /\ SlotsAreReclaimed'
  BY <1>1, <1>4, <1>5, <1>6 DEF IdsAreFresh, SlotsAreOwned, EndsAreRecorded, SlotsAreReclaimed
<1>8. LocksAreOwned'
  <2>1. \A u \in Thread : LocksHeld(u)' = LocksHeld(u)
    BY <1>1 DEF LocksHeld
  <2>2. LocksHeld(t) = {}
    BY <1>1 DEF LocksAreOwned, ToSet
  <2>. QED
    BY <1>1, <1>4, <1>6, <2>1, <2>2 DEF LocksAreOwned
<1>9. ListsAscend'
  <2>1. \A s \in Slot : (AtLockLimit(s)' <=> AtLockLimit(s)) /\ \A x : (InOrder(s, x)' <=> InOrder(s, x))
    BY <1>1 DEF AtLockLimit, InOrder
  <2>2. Ascending(<<>>) /\ Len(<<>>) = 0
    BY DEF Ascending
  <2>. QED
    BY <1>1, <1>4, <1>6, <2>1, <2>2 DEF ListsAscend
<1>. QED
  BY <1>3, <1>7, <1>8, <1>9

-----------------------------------------------------------------------------
\* Every step of every thread preserves the invariant.
LEMMA NextTxnInv == TxnInv /\ [Next]_vars => TxnInv'
<1>. SUFFICES ASSUME TxnInv, [Next]_vars PROVE TxnInv'
  OBVIOUS
<1>1. CASE UNCHANGED vars
  BY <1>1 DEF vars, TxnInv, TypeOK, IdsAreFresh, SlotsAreOwned, SlotsAreReclaimed, LocksAreOwned,
     ListsAscend, EndsAreRecorded, Owns, InTxn, LocksHeld, InOrder, AtLockLimit, TP!RL!HeldType
<1>2. ASSUME NEW t \in Thread, txn_begin(t) \/ CommitFails(t) \/ Step(t) \/ \E r \in Record : txn_lock(t, r)
      PROVE  TxnInv'
  BY <1>2, BeginStep, CommitFailsStep, LockStep, LockMgrStep, RegisterLockStep, ReleaseLockStep,
     ReturnStep, CommitStep, AbortStep DEF Step
<1>. QED
  BY <1>1, <1>2 DEF Next

\* The invariant holds in every reachable state.
THEOREM TxnInvHolds == Spec => []TxnInv
<1>. QED
  BY InitTxnInv, NextTxnInv, PTL DEF Spec

\* The invariant says what the run checks: SlotOf chooses the one slot that
\* the thread owns.
LEMMA TxnInvAgrees == TxnInv => SlotsAndLocksAgree
<1>. SUFFICES ASSUME TxnInv PROVE SlotsAndLocksAgree
  OBVIOUS
<1>. USE DEF TxnInv
<1>1. TxnSurvivesItsCalls
  <2>1. ASSUME NEW t \in Thread, InTxn(t) PROVE Cardinality(find_txn(my[t].id)) = 1
    BY <2>1, SlotOfOwns, FS_Singleton
  <2>. QED
    BY <2>1 DEF TxnSurvivesItsCalls, SlotsAreOwned
<1>2. NoLockLeaks
  <2>1. ASSUME NEW t \in Thread, InTxn(t)
        PROVE  LocksHeld(t) = ToSet(txns[SlotOf(t)].locks) \cup (IF pc[t] = "granted" THEN {my[t].want} ELSE {})
    BY <2>1, SlotOfOwns DEF LocksAreOwned
  <2>. QED
    BY <2>1 DEF NoLockLeaks, LocksAreOwned, LocksHeld, InTxn
<1>. QED
  BY <1>1, <1>2 DEF SlotsAndLocksAgree, LockListsFit, ListsAscend

(* Whatever the threads do between each other's calls, a thread in a        *)
(* transaction finds its one slot again after every wait, the slots in use  *)
(* are as many as the running transactions, the locks held are the ones     *)
(* registered, about to be registered or about to be released, and no list  *)
(* overruns MAX_LOCKS_PER_TXN (txn_begin, txn_lock, txn_commit, txn_abort). *)
THEOREM SlotsAndLocksAgreeHolds == Spec => []SlotsAndLocksAgree
<1>. QED
  BY TxnInvHolds, TxnInvAgrees, PTL

(* A transaction whose txn_commit returned 0 has a durable COMMIT record    *)
(* and no ABORT record, although txn_commit falls back to txn_abort when    *)
(* the log fails.                                                           *)
THEOREM CommittedIsDurableHolds == Spec => []CommittedIsDurable
<1>1. TxnInv => CommittedIsDurable
  BY DEF TxnInv, EndsAreRecorded, CommittedIsDurable
<1>. QED
  BY <1>1, TxnInvHolds, PTL

-----------------------------------------------------------------------------
(* The refinement of two-phase locking.                                     *)

\* How the phase of a thread follows its program counter.
LEMMA PhaseFollows ==
    ASSUME TypeOK, NEW t \in Thread
    PROVE  /\ pc' = [pc EXCEPT ![t] = "releasing"] => phaseOf' = [phaseOf EXCEPT ![t] = "shrinking"]
           /\ pc' = [pc EXCEPT ![t] = "idle"] => phaseOf' = [phaseOf EXCEPT ![t] = "none"]
           /\ \A l \in {"open", "locking", "granted", "aborting"} :
                 pc' = [pc EXCEPT ![t] = l] => phaseOf' = [phaseOf EXCEPT ![t] = "growing"]
<1>1. ASSUME NEW l, pc' = [pc EXCEPT ![t] = l]
      PROVE  (\A u \in Thread : u # t => pc'[u] = pc[u]) /\ pc'[t] = l
  BY <1>1 DEF TypeOK
<1>. QED
  BY <1>1 DEF phaseOf

\* A free slot in the array is a free slot of the abstract specification.
LEMMA FreeSlotIsFree ==
    ASSUME TxnInv, FreeSlots # {}
    PROVE  TP!SlotIsFree
<1>1. PICK s0 \in Slot : ~txns[s0].active
  BY DEF FreeSlots
<1>2. TP!Growing = {t \in Thread : InTxn(t)}
  BY DEF TP!Growing, phaseOf, InTxn
<1>3. Cardinality({s \in Slot : txns[s].active}) < MaxActiveTxns
  <2>1. Cardinality(Slot) = MaxActiveTxns /\ IsFiniteSet(Slot)
    BY FS_Interval, TxnConstants DEF Slot
  <2>2. Cardinality(Slot \ {s0}) = MaxActiveTxns - 1 /\ IsFiniteSet(Slot \ {s0})
    BY <2>1, FS_RemoveElement
  <2>3. {s \in Slot : txns[s].active} \in SUBSET (Slot \ {s0})
    BY <1>1
  <2>4. Cardinality({s \in Slot : txns[s].active}) <= MaxActiveTxns - 1
    BY <2>2, <2>3, FS_Subset
  <2>5. Cardinality({s \in Slot : txns[s].active}) \in Nat
    BY <2>1, CountingOne
  <2>. QED
    BY <2>4, <2>5, TxnConstants
<1>4. Cardinality({t \in Thread : InTxn(t)}) < MaxActiveTxns
  BY <1>3 DEF TxnInv, SlotsAreReclaimed
<1>. QED
  BY <1>2, <1>4 DEF TP!SlotIsFree, TP!Cardinality, Cardinality

\* Each step of the transaction manager is a step of two-phase locking, or
\* leaves the phases and the locks alone.
LEMMA StepsAreTwoPhase == TxnInv /\ [Next]_vars => [TP!Next]_<<held, phaseOf>>
<1>. SUFFICES ASSUME TxnInv, [Next]_vars PROVE [TP!Next]_<<held, phaseOf>>
  OBVIOUS
<1>0. TypeOK
  BY DEF TxnInv
<1>1. CASE UNCHANGED vars
  BY <1>1 DEF vars, phaseOf
<1>2. ASSUME NEW t \in Thread, txn_begin(t) PROVE TP!Begin(t)
  <2>1. phaseOf[t] = "none" /\ phaseOf' = [phaseOf EXCEPT ![t] = "growing"] /\ held' = held
    <3>1. phaseOf[t] = "none"
      BY <1>2 DEF txn_begin, phaseOf
    <3>. QED
      BY <1>0, <1>2, <3>1, PhaseFollows DEF txn_begin, goto
  <2>2. TP!SlotIsFree
    BY <1>2, FreeSlotIsFree DEF txn_begin
  <2>. QED
    BY <2>1, <2>2 DEF TP!Begin
<1>3. ASSUME NEW t \in Thread, NEW l \in {"open", "aborting", "locking"},
             pc[t] \notin {"idle", "releasing"}, goto(t, l), held' = held
      PROVE  UNCHANGED <<held, phaseOf>>
  <2>1. phaseOf' = [phaseOf EXCEPT ![t] = "growing"] /\ phaseOf[t] = "growing"
    BY <1>0, <1>3, PhaseFollows DEF goto, phaseOf
  <2>. QED
    BY <1>3, <2>1 DEF phaseOf
<1>4. ASSUME NEW t \in Thread, NEW r \in Record, txn_lock(t, r) PROVE UNCHANGED <<held, phaseOf>>
  BY <1>3, <1>4 DEF txn_lock
<1>5. ASSUME NEW t \in Thread, CommitFails(t) \/ RegisterLock(t) PROVE UNCHANGED <<held, phaseOf>>
  BY <1>3, <1>5 DEF CommitFails, RegisterLock
<1>6. ASSUME NEW t \in Thread, lock_mgr_lock(t)
      PROVE  my[t].want \in Record /\ (UNCHANGED <<held, phaseOf>> \/ TP!Lock(t, my[t].want))
  <2>1. pc[t] = "locking" /\ InTxn(t)
    BY <1>6 DEF lock_mgr_lock, InTxn
  <2>2. my[t].want \in Record
    BY <2>1, SlotOfOwns DEF TxnInv, ListsAscend
  <2>3. CASE RL!Acquire(t, my[t].want, "EXCLUSIVE") /\ goto(t, "granted")
    <3>1. phaseOf' = [phaseOf EXCEPT ![t] = "growing"] /\ phaseOf[t] = "growing"
      BY <1>0, <2>1, <2>3, PhaseFollows DEF goto, phaseOf
    <3>2. phaseOf' = phaseOf
      BY <3>1 DEF phaseOf
    <3>3. TP!RL!Acquire(t, my[t].want, "EXCLUSIVE")
      BY <2>3 DEF RL!Acquire, TP!RL!Acquire, RL!Compatible, TP!RL!Compatible
    <3>. QED
      BY <2>2, <3>1, <3>2, <3>3 DEF TP!Lock
  <2>4. CASE goto(t, "aborting") /\ UNCHANGED held
    BY <1>3, <2>1, <2>2, <2>4
  <2>. QED
    BY <1>6, <2>3, <2>4 DEF lock_mgr_lock
<1>7. ASSUME NEW t \in Thread, txn_commit(t) \/ txn_abort(t) PROVE TP!End(t)
  <2>1. phaseOf[t] = "growing"
    BY <1>7 DEF txn_commit, txn_abort, phaseOf
  <2>2. pc' = [pc EXCEPT ![t] = "releasing"] /\ held' = held
    BY <1>7 DEF txn_commit, txn_abort, EndTxn, goto
  <2>. QED
    BY <1>0, <2>1, <2>2, PhaseFollows DEF TP!End
<1>8. ASSUME NEW t \in Thread, ReleaseLock(t)
      PROVE  TP!Unlock(t, Head(my[t].locks_copy)) /\ Head(my[t].locks_copy) \in Record
  <2>1. Head(my[t].locks_copy) \in Record
    BY <1>8, TailAscends DEF ReleaseLock, TxnInv, TypeOK, ListsAscend
  <2>2. phaseOf[t] = "shrinking" /\ phaseOf' = phaseOf
    BY <1>8 DEF ReleaseLock, phaseOf
  <2>. QED
    BY <1>8, <2>1, <2>2 DEF ReleaseLock, TP!Unlock, RL!Release, TP!RL!Release
<1>9. ASSUME NEW t \in Thread, Return(t) PROVE TP!Finish(t)
  <2>1. pc[t] = "releasing" /\ my[t].locks_copy = <<>> /\ held' = held /\ pc' = [pc EXCEPT ![t] = "idle"]
    BY <1>9 DEF Return, goto
  <2>2. LocksHeld(t) = {}
    BY <2>1 DEF TxnInv, LocksAreOwned, ToSet
  <2>3. phaseOf[t] = "shrinking" /\ phaseOf' = [phaseOf EXCEPT ![t] = "none"]
    <3>1. phaseOf[t] = "shrinking"
      BY <2>1 DEF phaseOf
    <3>. QED
      BY <1>0, <2>1, <3>1, PhaseFollows
  <2>. QED
    BY <2>1, <2>2, <2>3 DEF TP!Finish, TP!LocksOf, LocksHeld
<1>. QED
  BY <1>1, <1>2, <1>4, <1>5, <1>6, <1>7, <1>8, <1>9 DEF Next, Step, TP!Next

(* The transaction manager implements strict two-phase locking: locks are   *)
(* taken only while a transaction grows, commit and abort end the growing   *)
(* phase before the first lock is released, a call returns only when all    *)
(* are released, and never more than MAX_ACTIVE_TXNS transactions grow.     *)
THEOREM TxnManagerIsTwoPhase == Spec => ImplementsTwoPhase
<1>1. Init => TP!Init
  BY DEF Init, TP!Init, RL!Init, TP!RL!Init, phaseOf
<1>. QED
  BY <1>1, TxnInvHolds, StepsAreTwoPhase, PTL DEF Spec, ImplementsTwoPhase, TP!Spec
=============================================================================
