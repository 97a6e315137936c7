------------------------- MODULE LockManagerProofs -------------------------
(***************************************************************************)
(* The lock table keeps its invariant and implements the abstract record   *)
(* lock, for every set of threads, records, buckets and addresses.         *)
(***************************************************************************)
EXTENDS LockManager, FiniteSetTheorems, TLAPS

-----------------------------------------------------------------------------
(* Sets of threads and their cardinalities.                                *)

\* A set of threads is finite, and its cardinality follows the addition and
\* the removal of one thread: how the counters of an entry follow its holders.
LEMMA ThreadCounting ==
    ASSUME NEW S \in SUBSET Thread, NEW t \in Thread
    PROVE  /\ Cardinality(S) \in Nat
           /\ Cardinality(S) = 0 <=> S = {}
           /\ t \notin S => Cardinality(S \cup {t}) = Cardinality(S) + 1
           /\ t \in S => Cardinality(S \ {t}) = Cardinality(S) - 1
<1>1. IsFiniteSet(S)
  BY LockConstants, FS_Subset
<1>. QED
  BY <1>1, FS_CardinalityType, FS_EmptySet, FS_AddElement, FS_RemoveElement

\* The wait condition on an exact entry is the incompatibility of the
\* abstract lock: ~Conflict says that the request is Compatible.
LEMMA NoConflictIsCompatible ==
    ASSUME RL!HeldType, NEW r \in Record, NEW m \in Mode, NEW e \in Entry,
           e.shared_count = Cardinality(Holders(held, r, "SHARED")),
           e.exclusive_held <=> (Holders(held, r, "EXCLUSIVE") # {}),
           ~Conflict(e, m)
    PROVE  /\ RL!Compatible(r, m)
           /\ Holders(held, r, "EXCLUSIVE") = {}
           /\ m = "EXCLUSIVE" => Holders(held, r, "SHARED") = {}
<1>1. Holders(held, r, "EXCLUSIVE") = {}
  BY DEF Conflict
<1>2. m = "EXCLUSIVE" => Holders(held, r, "SHARED") = {}
  <2>1. Holders(held, r, "SHARED") \in SUBSET Thread
    BY DEF Holders
  <2>2. Cardinality(Holders(held, r, "SHARED")) \in Nat /\ (Cardinality(Holders(held, r, "SHARED")) = 0 <=> Holders(held, r, "SHARED") = {})
    <3>1. CASE Thread = {}
      BY <3>1, <2>1, FS_EmptySet
    <3>2. CASE Thread # {}
      BY <3>2, <2>1, ThreadCounting
    <3>. QED  BY <3>1, <3>2
  <2>. QED
    BY <2>2 DEF Conflict
<1>3. ASSUME NEW u \in Thread
      PROVE  held[u][r] = "none" \/ (m = "SHARED" /\ held[u][r] = "SHARED")
  BY <1>1, <1>2 DEF Holders, RL!HeldType, Mode, RL!Mode
<1>. QED
  BY <1>1, <1>2, <1>3 DEF RL!Compatible

-----------------------------------------------------------------------------
\* Initially the table is empty and nobody holds or waits for anything.
LEMMA InitIInv == Init => IInv
<1>. SUFFICES ASSUME Init PROVE IInv
  OBVIOUS
<1>1. TypeOK
  BY DEF Init, TypeOK, NoReq, NoEntry, NewEntry, Entry, Mode, RL!Mode, RL!Init, RL!HeldType
<1>2. Live = {}
  BY DEF Init, Live
<1>. QED
  BY <1>1, <1>2 DEF Init, IInv, BucketsAreWellFormed, RequestsAreWellFormed,
     HeldRecordsHaveEntries, WaitersEntryIsAlive, CountersAreExact, MutualExclusion,
     RL!MutualExclusion, NoLostWakeup, RL!Init

-----------------------------------------------------------------------------
(* One lemma per action: the action preserves the invariant.               *)

\* Granting r in mode m to t through the exact entry e at address p.  Both
\* LockGranted and WakeGranted end in this way.
LEMMA GrantIsExact ==
    ASSUME RL!HeldType, MutualExclusion,
           NEW t \in Thread, NEW r \in Record, NEW m \in Mode, NEW e \in Entry,
           e.shared_count = Cardinality(Holders(held, r, "SHARED")),
           e.exclusive_held <=> (Holders(held, r, "EXCLUSIVE") # {}),
           ~Conflict(e, m),
           held[t][r] = "none",
           held' = [held EXCEPT ![t][r] = m]
    PROVE  /\ Grant(e, m) \in Entry
           /\ Grant(e, m).rec = e.rec
           /\ Grant(e, m).waiters = e.waiters
           /\ InUse(Grant(e, m))
           /\ Grant(e, m).shared_count = Cardinality(Holders(held', r, "SHARED"))
           /\ Grant(e, m).exclusive_held <=> (Holders(held', r, "EXCLUSIVE") # {})
           /\ \A x \in Record : x # r => Holders(held', x, "SHARED") = Holders(held, x, "SHARED") /\ Holders(held', x, "EXCLUSIVE") = Holders(held, x, "EXCLUSIVE")
           /\ RL!HeldType'
           /\ MutualExclusion'
           /\ RL!Acquire(t, r, m)
<1>1. /\ RL!Compatible(r, m)
      /\ Holders(held, r, "EXCLUSIVE") = {}
      /\ m = "EXCLUSIVE" => Holders(held, r, "SHARED") = {}
  BY NoConflictIsCompatible
<1>2. RL!HeldType' /\ held'[t][r] = m /\ \A u \in Thread, x \in Record :
          (u # t \/ x # r) => held'[u][x] = held[u][x]
  BY DEF RL!HeldType, Mode, RL!Mode
<1>3. \A x \in Record : x # r => Holders(held', x, "SHARED") = Holders(held, x, "SHARED") /\ Holders(held', x, "EXCLUSIVE") = Holders(held, x, "EXCLUSIVE")
  BY <1>2 DEF Holders
<1>4. CASE m = "SHARED"
  <2>1. Holders(held', r, "SHARED") = Holders(held, r, "SHARED") \cup {t} /\ t \notin Holders(held, r, "SHARED") /\ Holders(held', r, "EXCLUSIVE") = {}
    BY <1>1, <1>2, <1>4 DEF Holders
  <2>2. Cardinality(Holders(held', r, "SHARED")) = e.shared_count + 1
    BY <2>1, ThreadCounting DEF Holders
  <2>3. Grant(e, m) = [e EXCEPT !.shared_count = @ + 1]
    BY <1>4 DEF Grant
  <2>4. MutualExclusion'
    BY <1>2, <1>4, <2>1 DEF MutualExclusion, RL!MutualExclusion, Holders
  <2>5. Grant(e, m).exclusive_held <=> (Holders(held', r, "EXCLUSIVE") # {})
    BY <1>1, <2>1, <2>3 DEF Entry
  <2>6. /\ Grant(e, m) \in Entry /\ Grant(e, m).rec = e.rec
        /\ Grant(e, m).waiters = e.waiters /\ InUse(Grant(e, m))
        /\ Grant(e, m).shared_count = Cardinality(Holders(held', r, "SHARED"))
    BY <2>2, <2>3 DEF Entry, InUse
  <2>. QED
    BY <1>1, <1>2, <1>3, <2>4, <2>5, <2>6 DEF RL!Acquire
<1>5. CASE m = "EXCLUSIVE"
  <2>1. Holders(held', r, "SHARED") = Holders(held, r, "SHARED") /\ Holders(held', r, "EXCLUSIVE") = {t}
    BY <1>1, <1>2, <1>5 DEF Holders
  <2>2. Grant(e, m) = [e EXCEPT !.exclusive_held = TRUE]
    BY <1>5 DEF Grant
  <2>3. MutualExclusion'
    BY <1>1, <1>2, <1>5 DEF MutualExclusion, RL!MutualExclusion, RL!Compatible, RL!HeldType
  <2>. QED
    BY <1>1, <1>2, <1>3, <2>1, <2>2, <2>3 DEF Entry, InUse, RL!Acquire
<1>. QED
  BY <1>4, <1>5 DEF Mode, RL!Mode

\* lock_mgr_lock that is granted at once.
LEMMA LockGrantedStep ==
    ASSUME IInv, NEW t \in Thread, NEW r \in Record, NEW m \in Mode, LockGranted(t, r, m)
    PROVE  IInv' /\ RL!Acquire(t, r, m)
<1>. USE DEF IInv
<1>1. PICK p \in find_or_create(r) :
        LET e == IF p \in find_entry(r) THEN entry[p] ELSE NewEntry(r) IN
        /\ ~Conflict(e, m)
        /\ entry' = [entry EXCEPT ![p] = Grant(e, m)]
        /\ bucket' = [bucket EXCEPT ![Hash[r]] = @ \cup {p}]
  BY DEF LockGranted
<1>0. PICK e : e = IF p \in find_entry(r) THEN entry[p] ELSE NewEntry(r)
  OBVIOUS
<1>2. /\ pc[t] = "running" /\ held[t][r] = "none"
      /\ held' = [held EXCEPT ![t][r] = m] /\ pc' = pc /\ req' = req
  BY DEF LockGranted
<1>3. Hash[r] \in Bucket /\ p \in Ptr /\ e \in Entry /\ e.rec = r
  BY <1>0, LockConstants DEF find_or_create, find_entry, TypeOK, Entry, NewEntry
<1>4. p \in find_entry(r) \/ (find_entry(r) = {} /\ p \notin Live)
  BY DEF find_or_create
<1>5. /\ e.shared_count = Cardinality(Holders(held, r, "SHARED"))
      /\ e.exclusive_held <=> (Holders(held, r, "EXCLUSIVE") # {})
      /\ e.waiters = Cardinality(Waiters(p))
  <2>1. CASE p \in find_entry(r)
    BY <2>1, <1>0, <1>3 DEF CountersAreExact, find_entry, Live
  <2>2. CASE find_entry(r) = {} /\ p \notin Live
    <3>1. Holders(held, r, "SHARED") = {} /\ Holders(held, r, "EXCLUSIVE") = {}
      BY <2>2 DEF HeldRecordsHaveEntries, Holders
    <3>2. Waiters(p) = {}
      BY <2>2, LockConstants DEF WaitersEntryIsAlive, RequestsAreWellFormed, Waiters, find_entry, Live
    <3>. QED
      BY <1>0, <2>2, <3>1, <3>2, FS_EmptySet DEF NewEntry
  <2>. QED  BY <1>4, <2>1, <2>2
<1>6. ~Conflict(e, m)
  BY <1>0, <1>1
<1>7. /\ Grant(e, m) \in Entry
      /\ Grant(e, m).rec = r
      /\ Grant(e, m).waiters = e.waiters
      /\ InUse(Grant(e, m))
      /\ Grant(e, m).shared_count = Cardinality(Holders(held', r, "SHARED"))
      /\ Grant(e, m).exclusive_held <=> (Holders(held', r, "EXCLUSIVE") # {})
      /\ \A x \in Record : x # r => Holders(held', x, "SHARED") = Holders(held, x, "SHARED") /\ Holders(held', x, "EXCLUSIVE") = Holders(held, x, "EXCLUSIVE")
      /\ RL!HeldType'
      /\ MutualExclusion'
      /\ RL!Acquire(t, r, m)
  <2>1. RL!HeldType /\ MutualExclusion
    BY DEF TypeOK
  <2>. HIDE DEF IInv
  <2>2. Grant(e, m) \in Entry /\ InUse(Grant(e, m))
    BY <1>2, <1>3, <1>5, <1>6, <2>1, GrantIsExact
  <2>3. Grant(e, m).rec = r /\ Grant(e, m).waiters = e.waiters
    BY <1>2, <1>3, <1>5, <1>6, <2>1, GrantIsExact, ZenonT(40)
  <2>4. Grant(e, m).shared_count = Cardinality(Holders(held', r, "SHARED"))
    BY <1>2, <1>3, <1>5, <1>6, <2>1, GrantIsExact, ZenonT(40)
  <2>5. Grant(e, m).exclusive_held <=> (Holders(held', r, "EXCLUSIVE") # {})
    BY <1>2, <1>3, <1>5, <1>6, <2>1, GrantIsExact
  <2>6. RL!HeldType' /\ MutualExclusion' /\ RL!Acquire(t, r, m)
    BY <1>2, <1>3, <1>5, <1>6, <2>1, GrantIsExact
  <2>7. \A x \in Record : x # r => /\ Holders(held', x, "SHARED") = Holders(held, x, "SHARED")
                                  /\ Holders(held', x, "EXCLUSIVE") = Holders(held, x, "EXCLUSIVE")
    BY <1>2, <1>3, <1>5, <1>6, <2>1, GrantIsExact
  <2>. QED
    BY <2>2, <2>3, <2>4, <2>5, <2>6, <2>7
<1>8. entry' = [entry EXCEPT ![p] = Grant(e, m)] /\ bucket' = [bucket EXCEPT ![Hash[r]] = @ \cup {p}]
  BY <1>0, <1>1
<1>9. TypeOK'
  BY <1>2, <1>3, <1>7, <1>8 DEF TypeOK
<1>10. Live' = Live \cup {p}
  BY <1>3, <1>8 DEF Live, TypeOK
<1>11. \A q \in Live : q # p => entry'[q] = entry[q] /\ entry[q].rec # r
  <2>. SUFFICES ASSUME NEW q \in Live, q # p PROVE entry'[q] = entry[q] /\ entry[q].rec # r
    OBVIOUS
  <2>1. q \in Ptr
    BY DEF Live, TypeOK
  <2>2. entry[q].rec = r => q \in find_entry(r)
    BY <1>3 DEF BucketsAreWellFormed, find_entry, Live
  <2>. QED
    BY <1>3, <1>4, <1>8, <2>1, <2>2 DEF TypeOK, BucketsAreWellFormed, find_entry, Live
<1>12. entry'[p] = Grant(e, m) /\ p \in bucket'[Hash[r]]
  BY <1>3, <1>8 DEF TypeOK
<1>13. BucketsAreWellFormed'
  <2>1. ASSUME NEW b \in Bucket, NEW q \in bucket'[b]
        PROVE  entry'[q].rec \in Record /\ Hash[entry'[q].rec] = b
    BY <1>3, <1>4, <1>7, <1>8, <1>11, <1>12 DEF BucketsAreWellFormed, TypeOK, Live, find_entry
  <2>2. ASSUME NEW q1 \in Live', NEW q2 \in Live', entry'[q1].rec = entry'[q2].rec
        PROVE  q1 = q2
    BY <1>7, <1>10, <1>11, <1>12, <2>2 DEF BucketsAreWellFormed
  <2>3. ASSUME NEW q \in Live'
        PROVE  InUse(entry'[q])
    BY <1>7, <1>10, <1>11, <1>12 DEF BucketsAreWellFormed
  <2>4. ASSUME NEW q \in Live'
        PROVE  InUse(entry[q])'
    BY <2>3 DEF InUse
  <2>. QED
    BY <2>1, <2>2, <2>4 DEF BucketsAreWellFormed
<1>14. RequestsAreWellFormed'
  BY <1>2, <1>3 DEF RequestsAreWellFormed, TypeOK, RL!HeldType
<1>15. \A x \in Record : find_entry(x) \subseteq find_entry(x)'
  BY <1>3, <1>4, <1>7, <1>8, <1>11, <1>12, LockConstants DEF find_entry, Live, TypeOK
<1>16. HeldRecordsHaveEntries'
  <2>1. p \in find_entry(r)'
    BY <1>7, <1>12 DEF find_entry
  <2>. QED
    BY <1>2, <1>15, <2>1 DEF HeldRecordsHaveEntries, TypeOK, RL!HeldType
<1>17. WaitersEntryIsAlive'
  BY <1>2, <1>15 DEF WaitersEntryIsAlive, RequestsAreWellFormed
<1>18. CountersAreExact'
  <2>. SUFFICES ASSUME NEW q \in Live', NEW x, x = entry'[q].rec
                PROVE  /\ entry'[q].shared_count = Cardinality(Holders(held', x, "SHARED"))
                       /\ entry'[q].exclusive_held <=> (Holders(held', x, "EXCLUSIVE") # {})
                       /\ entry'[q].waiters = Cardinality(Waiters(q)')
    BY DEF CountersAreExact, Holders, Waiters
  <2>1. Waiters(q)' = Waiters(q)
    BY <1>2 DEF Waiters
  <2>2. CASE q = p
    BY <1>5, <1>7, <1>12, <2>1, <2>2
  <2>3. CASE q # p
    <3>1. q \in Live /\ entry'[q] = entry[q] /\ x # r /\ x \in Record
      BY <1>10, <1>11, <2>3 DEF BucketsAreWellFormed, Live
    <3>. QED
      BY <1>7, <2>1, <3>1 DEF CountersAreExact
  <2>. QED  BY <2>2, <2>3
<1>19. NoLostWakeup'
  <2>. SUFFICES ASSUME NEW u \in Thread, pc[u] = "asleep"
                PROVE  Conflict(entry'[req[u].ptr], req[u].mode)
    BY <1>2 DEF NoLostWakeup, Conflict
  <2>1. req[u].ptr \in Live /\ Conflict(entry[req[u].ptr], req[u].mode)
    BY LockConstants DEF NoLostWakeup, WaitersEntryIsAlive, RequestsAreWellFormed, find_entry, Live
  <2>2. CASE req[u].ptr # p
    BY <1>11, <2>1, <2>2
  <2>3. CASE req[u].ptr = p
    <3>1. e = entry[p]
      BY <1>0, <1>4, <2>1, <2>3
    <3>. QED
      BY <1>3, <1>12, <2>1, <2>3, <3>1 DEF Conflict, Grant, Entry
  <2>. QED  BY <2>2, <2>3
<1>. QED
  BY <1>7, <1>9, <1>13, <1>14, <1>16, <1>17, <1>18, <1>19

\* What every thread in cond_wait can rely on.
LEMMA WaitingThread ==
    ASSUME IInv, NEW u \in Thread, pc[u] # "running"
    PROVE  /\ req[u].rec \in Record /\ req[u].mode \in Mode
           /\ req[u].ptr \in Live /\ req[u].ptr \in Ptr /\ entry[req[u].ptr] \in Entry
           /\ entry[req[u].ptr].rec = req[u].rec
           /\ held[u][req[u].rec] = "none"
<1>1. req[u].rec \in Record /\ held[u][req[u].rec] = "none" /\ req[u].mode \in Mode
  BY DEF IInv, RequestsAreWellFormed, TypeOK
<1>2. req[u].ptr \in bucket[Hash[req[u].rec]] /\ entry[req[u].ptr].rec = req[u].rec
  BY DEF IInv, WaitersEntryIsAlive, find_entry
<1>3. Hash[req[u].rec] \in Bucket
  BY <1>1, LockConstants
<1>. QED
  BY <1>1, <1>2, <1>3 DEF IInv, TypeOK, Live

\* lock_mgr_lock that has to wait: only the waiters counter changes.
LEMMA LockWaitsStep ==
    ASSUME IInv, NEW t \in Thread, NEW r \in Record, NEW m \in Mode, LockWaits(t, r, m)
    PROVE  IInv' /\ held' = held
<1>. USE DEF IInv
<1>1. PICK p \in find_entry(r) :
        /\ Conflict(entry[p], m)
        /\ entry' = [entry EXCEPT ![p].waiters = @ + 1]
        /\ req' = [req EXCEPT ![t] = [rec |-> r, mode |-> m, ptr |-> p]]
  BY DEF LockWaits
<1>2. /\ pc[t] = "running" /\ held[t][r] = "none"
      /\ pc' = [pc EXCEPT ![t] = "asleep"] /\ bucket' = bucket /\ held' = held
  BY DEF LockWaits
<1>3. Hash[r] \in Bucket /\ p \in Ptr /\ p \in Live /\ entry[p] \in Entry /\ entry[p].rec = r
  BY LockConstants DEF find_entry, TypeOK, Live
<1>4. Live' = Live
  BY <1>2 DEF Live
<1>5. /\ entry'[p] = [entry[p] EXCEPT !.waiters = @ + 1]
      /\ \A q \in Ptr : q # p => entry'[q] = entry[q]
  BY <1>1, <1>3 DEF TypeOK
<1>6. /\ entry'[p] \in Entry /\ entry'[p].waiters = entry[p].waiters + 1
      /\ entry'[p].rec = r /\ entry'[p].shared_count = entry[p].shared_count
      /\ entry'[p].exclusive_held = entry[p].exclusive_held
  BY <1>3, <1>5 DEF Entry
<1>7. /\ pc'[t] = "asleep" /\ req'[t] = [rec |-> r, mode |-> m, ptr |-> p]
      /\ \A u \in Thread : u # t => pc'[u] = pc[u] /\ req'[u] = req[u]
  BY <1>1, <1>2 DEF TypeOK
<1>8. TypeOK'
  <2>1. entry' \in [Ptr -> Entry]
    BY <1>1, <1>3, <1>5, <1>6 DEF TypeOK
  <2>2. req' \in [Thread -> [rec : Record \cup {NULL}, mode : Mode, ptr : Ptr \cup {NULL}]]
    BY <1>1, <1>3 DEF TypeOK
  <2>. QED
    BY <1>2, <2>1, <2>2 DEF TypeOK, RL!HeldType
<1>9. \A q \in Live : q \in Ptr /\ entry'[q].rec = entry[q].rec
  <2>1. \A q \in Live : q \in Ptr
    BY DEF Live, TypeOK
  <2>. QED
    BY <1>3, <1>5, <1>6, <2>1
<1>10. BucketsAreWellFormed'
  <2>1. ASSUME NEW q \in Live PROVE InUse(entry[q])'
    BY <1>3, <1>5, <1>6, <1>9 DEF BucketsAreWellFormed, InUse, Entry
  <2>. QED
    BY <1>2, <1>4, <1>9, <2>1 DEF BucketsAreWellFormed, Live
<1>11. RequestsAreWellFormed'
  BY <1>2, <1>7 DEF RequestsAreWellFormed
<1>12. \A x \in Record : find_entry(x)' = find_entry(x)
  BY <1>2, <1>9, LockConstants DEF find_entry, Live
<1>13. HeldRecordsHaveEntries'
  BY <1>2, <1>12 DEF HeldRecordsHaveEntries
<1>14. WaitersEntryIsAlive'
  <2>. SUFFICES ASSUME NEW u \in Thread, pc'[u] # "running"
                PROVE  /\ req'[u].ptr \in bucket[Hash[req'[u].rec]]
                       /\ entry'[req'[u].ptr].rec = req'[u].rec
    BY <1>2 DEF WaitersEntryIsAlive, find_entry
  <2>1. CASE u = t
    BY <1>3, <1>6, <1>7, <2>1 DEF find_entry
  <2>2. CASE u # t
    BY <1>7, <1>9, <2>2, WaitingThread DEF WaitersEntryIsAlive, find_entry
  <2>. QED  BY <2>1, <2>2
<1>15. CountersAreExact'
  <2>. SUFFICES ASSUME NEW q \in Live
                PROVE  /\ entry'[q].shared_count = Cardinality(Holders(held, entry[q].rec, "SHARED"))
                       /\ entry'[q].exclusive_held <=> (Holders(held, entry[q].rec, "EXCLUSIVE") # {})
                       /\ entry'[q].waiters = Cardinality(Waiters(q)')
    <3>1. \A q \in Live' : /\ entry'[q].shared_count = Cardinality(Holders(held', entry'[q].rec, "SHARED"))
                           /\ entry'[q].exclusive_held <=> (Holders(held', entry'[q].rec, "EXCLUSIVE") # {})
                           /\ entry'[q].waiters = Cardinality(Waiters(q)')
      BY <1>2, <1>4, <1>9
    <3>. QED
      BY <3>1 DEF CountersAreExact, Holders, Waiters
  <2>1. CASE q = p
    <3>1. Waiters(p)' = Waiters(p) \cup {t} /\ t \notin Waiters(p) /\ Waiters(p) \in SUBSET Thread
      BY <1>2, <1>7 DEF Waiters
    <3>2. Cardinality(Waiters(p)') = Cardinality(Waiters(p)) + 1
      BY <3>1, ThreadCounting
    <3>. QED
      BY <1>3, <1>6, <2>1, <3>2 DEF CountersAreExact
  <2>2. CASE q # p
    <3>1. Waiters(q)' = Waiters(q)
      BY <1>2, <1>7, <2>2 DEF Waiters
    <3>. QED
      BY <1>5, <1>9, <2>2, <3>1 DEF CountersAreExact
  <2>. QED  BY <2>1, <2>2
<1>16. MutualExclusion'
  BY <1>2 DEF MutualExclusion, RL!MutualExclusion
<1>17. NoLostWakeup'
  <2>. SUFFICES ASSUME NEW u \in Thread, pc'[u] = "asleep"
                PROVE  Conflict(entry'[req'[u].ptr], req'[u].mode)
    BY DEF NoLostWakeup, Conflict
  <2>1. CASE u = t
    BY <1>1, <1>6, <1>7, <2>1 DEF Conflict
  <2>2. CASE u # t
    <3>1. Conflict(entry[req[u].ptr], req[u].mode) /\ req[u].ptr \in Ptr
      BY <1>7, <2>2, WaitingThread DEF NoLostWakeup
    <3>. QED
      BY <1>5, <1>6, <1>7, <2>2, <3>1 DEF Conflict
  <2>. QED  BY <2>1, <2>2
<1>. QED
  BY <1>2, <1>8, <1>10, <1>11, <1>13, <1>14, <1>15, <1>16, <1>17

\* A thread that returns from cond_wait and is granted its lock.
LEMMA WakeGrantedStep ==
    ASSUME IInv, NEW t \in Thread, WakeGranted(t)
    PROVE  IInv' /\ RL!Acquire(t, req[t].rec, req[t].mode) /\ req[t].rec \in Record /\ req[t].mode \in Mode
<1>. USE DEF IInv
<1>1. PICK p, r, m, e : /\ p = req[t].ptr /\ r = req[t].rec /\ m = req[t].mode
                        /\ e = [entry[p] EXCEPT !.waiters = @ - 1]
  OBVIOUS
<1>2. /\ pc[t] = "awake" /\ ~Conflict(e, m)
      /\ entry' = [entry EXCEPT ![p] = Grant(e, m)]
      /\ held' = [held EXCEPT ![t][r] = m]
      /\ pc' = [pc EXCEPT ![t] = "running"]
      /\ req' = [req EXCEPT ![t] = NoReq]
      /\ bucket' = bucket
  BY <1>1 DEF WakeGranted
<1>3. /\ r \in Record /\ m \in Mode /\ p \in Live /\ p \in Ptr /\ entry[p] \in Entry
      /\ entry[p].rec = r /\ held[t][r] = "none"
  BY <1>1, <1>2, WaitingThread
<1>4. /\ entry[p].shared_count = Cardinality(Holders(held, r, "SHARED"))
      /\ entry[p].exclusive_held <=> (Holders(held, r, "EXCLUSIVE") # {})
      /\ entry[p].waiters = Cardinality(Waiters(p))
  BY <1>3 DEF CountersAreExact
<1>5. /\ Waiters(p)' = Waiters(p) \ {t} /\ t \in Waiters(p) /\ Waiters(p) \in SUBSET Thread
      /\ \A q \in Ptr : q # p => Waiters(q)' = Waiters(q)
  BY <1>1, <1>2, LockConstants DEF Waiters, TypeOK, NoReq
<1>6. Cardinality(Waiters(p)') = Cardinality(Waiters(p)) - 1 /\ Cardinality(Waiters(p)) # 0
      /\ Cardinality(Waiters(p)) \in Nat
  BY <1>5, ThreadCounting
<1>7. /\ e \in Entry /\ e.rec = r /\ e.waiters = Cardinality(Waiters(p)')
      /\ e.shared_count = entry[p].shared_count
      /\ e.exclusive_held = entry[p].exclusive_held
  BY <1>1, <1>3, <1>4, <1>6 DEF Entry
<1>8. /\ Grant(e, m) \in Entry /\ InUse(Grant(e, m)) /\ Grant(e, m).rec = r
      /\ Grant(e, m).waiters = e.waiters
      /\ Grant(e, m).shared_count = Cardinality(Holders(held', r, "SHARED"))
      /\ Grant(e, m).exclusive_held <=> (Holders(held', r, "EXCLUSIVE") # {})
      /\ \A x \in Record : x # r => /\ Holders(held', x, "SHARED") = Holders(held, x, "SHARED")
                                   /\ Holders(held', x, "EXCLUSIVE") = Holders(held, x, "EXCLUSIVE")
      /\ RL!HeldType' /\ MutualExclusion' /\ RL!Acquire(t, r, m)
  <2>1. RL!HeldType /\ MutualExclusion
    BY DEF TypeOK
  <2>2. /\ e.shared_count = Cardinality(Holders(held, r, "SHARED"))
        /\ e.exclusive_held <=> (Holders(held, r, "EXCLUSIVE") # {})
    BY <1>4, <1>7
  <2>. HIDE DEF IInv
  <2>3. Grant(e, m) \in Entry /\ InUse(Grant(e, m))
    BY <1>2, <1>3, <1>7, <2>1, <2>2, GrantIsExact
  <2>4. Grant(e, m).rec = r /\ Grant(e, m).waiters = e.waiters
    BY <1>2, <1>3, <1>7, <2>1, <2>2, GrantIsExact
  <2>5. Grant(e, m).shared_count = Cardinality(Holders(held', r, "SHARED"))
    BY <1>2, <1>3, <1>7, <2>1, <2>2, GrantIsExact, ZenonT(40)
  <2>6. Grant(e, m).exclusive_held <=> (Holders(held', r, "EXCLUSIVE") # {})
    BY <1>2, <1>3, <1>7, <2>1, <2>2, GrantIsExact
  <2>7. RL!HeldType' /\ MutualExclusion' /\ RL!Acquire(t, r, m)
    BY <1>2, <1>3, <1>7, <2>1, <2>2, GrantIsExact
  <2>8. \A x \in Record : x # r => /\ Holders(held', x, "SHARED") = Holders(held, x, "SHARED")
                                  /\ Holders(held', x, "EXCLUSIVE") = Holders(held, x, "EXCLUSIVE")
    BY <1>2, <1>3, <1>7, <2>1, <2>2, GrantIsExact
  <2>. QED
    BY <2>3, <2>4, <2>5, <2>6, <2>7, <2>8
<1>9. /\ entry'[p] = Grant(e, m)
      /\ \A q \in Ptr : q # p => entry'[q] = entry[q]
      /\ pc'[t] = "running" /\ req'[t] = NoReq
      /\ \A u \in Thread : u # t => pc'[u] = pc[u] /\ req'[u] = req[u]
  BY <1>2, <1>3 DEF TypeOK
<1>10. TypeOK'
  <2>1. entry' \in [Ptr -> Entry]
    BY <1>2, <1>3, <1>8 DEF TypeOK
  <2>2. req' \in [Thread -> [rec : Record \cup {NULL}, mode : Mode, ptr : Ptr \cup {NULL}]]
    BY <1>2 DEF TypeOK, NoReq, Mode, RL!Mode
  <2>. QED
    BY <1>2, <1>8, <2>1, <2>2 DEF TypeOK
<1>11. Live' = Live /\ \A q \in Live : q \in Ptr /\ entry'[q].rec = entry[q].rec
  <2>1. \A q \in Live : q \in Ptr
    BY DEF Live, TypeOK
  <2>2. Live' = Live
    BY <1>2 DEF Live
  <2>. QED
    BY <1>3, <1>8, <1>9, <2>1, <2>2
<1>12. BucketsAreWellFormed'
  <2>1. ASSUME NEW q \in Live PROVE InUse(entry[q])'
    <3>1. InUse(entry'[q])
      BY <1>8, <1>9, <1>11 DEF BucketsAreWellFormed
    <3>. QED
      BY <3>1 DEF InUse
  <2>. QED
    BY <1>2, <1>11, <2>1 DEF BucketsAreWellFormed, Live
<1>13. RequestsAreWellFormed'
  <2>. SUFFICES ASSUME NEW u \in Thread, u # t, pc[u] # "running"
                PROVE  req[u].rec \in Record /\ held'[u][req[u].rec] = "none"
    BY <1>9 DEF RequestsAreWellFormed
  <2>. QED
    BY <1>2, <1>3, WaitingThread DEF TypeOK, RL!HeldType
<1>14. \A x \in Record : find_entry(x)' = find_entry(x)
  BY <1>2, <1>11, LockConstants DEF find_entry, Live
<1>15. HeldRecordsHaveEntries'
  <2>1. p \in find_entry(r)
    BY <1>1, <1>2 DEF WaitersEntryIsAlive
  <2>. QED
    BY <1>2, <1>14, <2>1 DEF HeldRecordsHaveEntries, TypeOK, RL!HeldType
<1>16. WaitersEntryIsAlive'
  <2>. SUFFICES ASSUME NEW u \in Thread, u # t, pc[u] # "running"
                PROVE  req[u].ptr \in find_entry(req[u].rec)'
    BY <1>9 DEF WaitersEntryIsAlive, find_entry
  <2>. QED
    BY <1>2, <1>11, WaitingThread DEF WaitersEntryIsAlive, find_entry
<1>17. CountersAreExact'
  <2>. SUFFICES ASSUME NEW q \in Live, NEW x, x = entry'[q].rec
                PROVE  /\ entry'[q].shared_count = Cardinality(Holders(held', x, "SHARED"))
                       /\ entry'[q].exclusive_held <=> (Holders(held', x, "EXCLUSIVE") # {})
                       /\ entry'[q].waiters = Cardinality(Waiters(q)')
    BY <1>11 DEF CountersAreExact, Holders, Waiters
  <2>1. CASE q = p
    BY <1>7, <1>8, <1>9, <2>1
  <2>2. CASE q # p
    <3>1. entry'[q] = entry[q] /\ x # r /\ x \in Record /\ Waiters(q)' = Waiters(q)
      BY <1>3, <1>5, <1>9, <1>11, <2>2 DEF BucketsAreWellFormed, Live
    <3>. QED
      BY <1>8, <3>1 DEF CountersAreExact
  <2>. QED  BY <2>1, <2>2
<1>18. NoLostWakeup'
  <2>. SUFFICES ASSUME NEW u \in Thread, u # t, pc[u] = "asleep"
                PROVE  Conflict(entry'[req[u].ptr], req[u].mode)
    BY <1>9 DEF NoLostWakeup, Conflict
  <2>1. Conflict(entry[req[u].ptr], req[u].mode) /\ req[u].ptr \in Ptr
    BY WaitingThread DEF NoLostWakeup
  <2>2. CASE req[u].ptr # p
    BY <1>9, <2>1, <2>2
  <2>3. CASE req[u].ptr = p
    <3>1. Conflict(e, req[u].mode)
      BY <1>7, <2>1, <2>3 DEF Conflict
    <3>. QED
      BY <1>7, <1>9, <2>3, <3>1 DEF Conflict, Grant, Entry
  <2>. QED  BY <2>2, <2>3
<1>. QED
  BY <1>1, <1>3, <1>8, <1>10, <1>12, <1>13, <1>15, <1>16, <1>17, <1>18

\* A thread that goes back to sleep, or wakes up for no reason, changes
\* nothing but its own state inside cond_wait.
LEMMA SleepStep ==
    ASSUME IInv, NEW t \in Thread, WakeWaits(t) \/ SpuriousWakeup(t)
    PROVE  IInv' /\ held' = held
<1>. USE DEF IInv
<1>1. /\ pc[t] # "running" /\ bucket' = bucket /\ entry' = entry /\ req' = req /\ held' = held
      /\ \/ pc' = [pc EXCEPT ![t] = "awake"]
         \/ pc' = [pc EXCEPT ![t] = "asleep"] /\ Conflict(entry[req[t].ptr], req[t].mode)
  BY DEF WakeWaits, SpuriousWakeup
<1>2. /\ pc' \in [Thread -> {"running", "asleep", "awake"}]
      /\ \A u \in Thread : pc'[u] = "running" <=> pc[u] = "running"
      /\ \A u \in Thread : pc'[u] = "asleep" => Conflict(entry[req[u].ptr], req[u].mode)
  BY <1>1 DEF TypeOK, NoLostWakeup
<1>3. TypeOK' /\ BucketsAreWellFormed' /\ MutualExclusion' /\ HeldRecordsHaveEntries'
  BY <1>1, <1>2 DEF TypeOK, BucketsAreWellFormed, MutualExclusion, RL!MutualExclusion,
     HeldRecordsHaveEntries, find_entry, Live, RL!HeldType, InUse
<1>4. RequestsAreWellFormed' /\ WaitersEntryIsAlive' /\ NoLostWakeup'
  BY <1>1, <1>2 DEF RequestsAreWellFormed, WaitersEntryIsAlive, NoLostWakeup, find_entry, Conflict
<1>5. CountersAreExact'
  <2>1. Live' = Live
    BY <1>1 DEF Live
  <2>2. \A q \in Live : Waiters(q)' = Waiters(q)
    BY <1>1, <1>2 DEF Waiters
  <2>. QED
    BY <1>1, <2>1, <2>2 DEF CountersAreExact, Holders
<1>. QED
  BY <1>1, <1>3, <1>4, <1>5

\* Dropping the lock of t on r from the exact entry e: what lock_mgr_unlock
\* removes, without knowing who calls it, is the lock of its caller.
LEMMA UngrantIsExact ==
    ASSUME RL!HeldType, MutualExclusion,
           NEW t \in Thread, NEW r \in Record, NEW e \in Entry,
           e.shared_count = Cardinality(Holders(held, r, "SHARED")),
           e.exclusive_held <=> (Holders(held, r, "EXCLUSIVE") # {}),
           held[t][r] # "none",
           held' = [held EXCEPT ![t][r] = "none"]
    PROVE  /\ Ungrant(e) \in Entry
           /\ Ungrant(e).rec = e.rec
           /\ Ungrant(e).waiters = e.waiters
           /\ Ungrant(e).shared_count = Cardinality(Holders(held', r, "SHARED"))
           /\ Ungrant(e).exclusive_held <=> (Holders(held', r, "EXCLUSIVE") # {})
           /\ \A x \in Record : x # r => /\ Holders(held', x, "SHARED") = Holders(held, x, "SHARED")
                                        /\ Holders(held', x, "EXCLUSIVE") = Holders(held, x, "EXCLUSIVE")
           /\ RL!HeldType'
           /\ MutualExclusion'
           /\ \A u \in Thread, x \in Record : held'[u][x] # "none" => held[u][x] # "none"
<1>1. RL!HeldType' /\ held'[t][r] = "none" /\ \A u \in Thread, x \in Record :
          (u # t \/ x # r) => held'[u][x] = held[u][x]
  BY DEF RL!HeldType
<1>2. MutualExclusion'
  BY <1>1 DEF MutualExclusion, RL!MutualExclusion, RL!HeldType
<1>3. \A x \in Record : x # r => /\ Holders(held', x, "SHARED") = Holders(held, x, "SHARED")
                                /\ Holders(held', x, "EXCLUSIVE") = Holders(held, x, "EXCLUSIVE")
  BY <1>1 DEF Holders
<1>4. CASE e.exclusive_held
  <2>1. Ungrant(e) = [e EXCEPT !.exclusive_held = FALSE]
    BY <1>4 DEF Ungrant
  <2>2. held[t][r] = "EXCLUSIVE" /\ \A u \in Thread : u # t => held[u][r] = "none"
    BY <1>4 DEF Holders, MutualExclusion, RL!MutualExclusion
  <2>3. Holders(held', r, "EXCLUSIVE") = {} /\ Holders(held', r, "SHARED") = Holders(held, r, "SHARED")
    BY <1>1, <2>2 DEF Holders
  <2>4. /\ Ungrant(e) \in Entry /\ Ungrant(e).rec = e.rec /\ Ungrant(e).waiters = e.waiters
        /\ Ungrant(e).shared_count = Cardinality(Holders(held', r, "SHARED"))
    BY <2>1, <2>3 DEF Entry
  <2>5. Ungrant(e).exclusive_held <=> (Holders(held', r, "EXCLUSIVE") # {})
    BY <2>1, <2>3 DEF Entry
  <2>. QED
    BY <1>1, <1>2, <1>3, <2>4, <2>5
<1>5. CASE ~e.exclusive_held
  <2>1. Ungrant(e) = [e EXCEPT !.shared_count = @ - 1]
    BY <1>5 DEF Ungrant
  <2>2. held[t][r] = "SHARED"
    BY <1>5 DEF Holders, RL!HeldType, RL!Mode
  <2>3. /\ Holders(held', r, "EXCLUSIVE") = {} /\ Holders(held, r, "SHARED") \in SUBSET Thread
        /\ Holders(held', r, "SHARED") = Holders(held, r, "SHARED") \ {t} /\ t \in Holders(held, r, "SHARED")
    BY <1>1, <1>5, <2>2 DEF Holders
  <2>4. /\ Cardinality(Holders(held, r, "SHARED")) \in Nat /\ Cardinality(Holders(held, r, "SHARED")) # 0
        /\ Cardinality(Holders(held', r, "SHARED")) = Cardinality(Holders(held, r, "SHARED")) - 1
    <3>1. ASSUME NEW S \in SUBSET Thread, t \in S
          PROVE  Cardinality(S) \in Nat /\ Cardinality(S) # 0 /\ Cardinality(S \ {t}) = Cardinality(S) - 1
      BY <3>1, ThreadCounting
    <3>. QED
      BY <2>3, <3>1
  <2>5. /\ Ungrant(e) \in Entry /\ Ungrant(e).rec = e.rec /\ Ungrant(e).waiters = e.waiters
        /\ Ungrant(e).shared_count = Cardinality(Holders(held', r, "SHARED"))
    BY <2>1, <2>4 DEF Entry
  <2>6. Ungrant(e).exclusive_held <=> (Holders(held', r, "EXCLUSIVE") # {})
    BY <1>5, <2>1, <2>3 DEF Entry
  <2>. QED
    BY <1>1, <1>2, <1>3, <2>5, <2>6
<1>. QED
  BY <1>4, <1>5

\* lock_mgr_unlock: the lock is dropped, the waiters are woken, and the entry
\* is freed if nobody holds it and nobody waits for it.
LEMMA UnlockStep ==
    ASSUME IInv, NEW t \in Thread, NEW r \in Record, Unlock(t, r)
    PROVE  IInv' /\ RL!Release(t, r)
<1>. USE DEF IInv
<1>1. PICK p \in find_entry(r) :
        /\ entry' = [entry EXCEPT ![p] = IF InUse(Ungrant(entry[p])) THEN Ungrant(entry[p]) ELSE NoEntry]
        /\ bucket' = [bucket EXCEPT ![Hash[r]] = IF InUse(Ungrant(entry[p])) THEN @ ELSE @ \ {p}]
        /\ pc' = Broadcast(p)
  BY DEF Unlock
<1>2. /\ pc[t] = "running" /\ held[t][r] # "none"
      /\ held' = [held EXCEPT ![t][r] = "none"] /\ req' = req
  BY DEF Unlock
<1>3. Hash[r] \in Bucket /\ p \in Ptr /\ p \in Live /\ entry[p] \in Entry /\ entry[p].rec = r
  BY LockConstants DEF find_entry, TypeOK, Live
<1>4. PICK e : e = entry[p]
  OBVIOUS
<1>5. /\ e.shared_count = Cardinality(Holders(held, r, "SHARED"))
      /\ e.exclusive_held <=> (Holders(held, r, "EXCLUSIVE") # {})
      /\ e.waiters = Cardinality(Waiters(p))
  BY <1>3, <1>4 DEF CountersAreExact
<1>6. /\ Ungrant(e) \in Entry /\ Ungrant(e).rec = r
      /\ Ungrant(e).waiters = e.waiters
      /\ Ungrant(e).shared_count = Cardinality(Holders(held', r, "SHARED"))
      /\ Ungrant(e).exclusive_held <=> (Holders(held', r, "EXCLUSIVE") # {})
      /\ \A x \in Record : x # r => /\ Holders(held', x, "SHARED") = Holders(held, x, "SHARED")
                                   /\ Holders(held', x, "EXCLUSIVE") = Holders(held, x, "EXCLUSIVE")
      /\ RL!HeldType' /\ MutualExclusion'
      /\ \A u \in Thread, x \in Record : held'[u][x] # "none" => held[u][x] # "none"
  <2>1. RL!HeldType /\ MutualExclusion /\ e \in Entry /\ e.rec = r
    BY <1>3, <1>4 DEF TypeOK
  <2>. HIDE DEF IInv
  <2>2. Ungrant(e) \in Entry /\ Ungrant(e).rec = r /\ Ungrant(e).waiters = e.waiters
    BY <1>2, <1>5, <2>1, UngrantIsExact, ZenonT(40)
  <2>3. Ungrant(e).shared_count = Cardinality(Holders(held', r, "SHARED"))
    BY <1>2, <1>5, <2>1, UngrantIsExact
  <2>4. Ungrant(e).exclusive_held <=> (Holders(held', r, "EXCLUSIVE") # {})
    BY <1>2, <1>5, <2>1, UngrantIsExact, ZenonT(60)
  <2>5. RL!HeldType' /\ MutualExclusion'
    BY <1>2, <1>5, <2>1, UngrantIsExact
  <2>6. \A x \in Record : x # r => /\ Holders(held', x, "SHARED") = Holders(held, x, "SHARED")
                                  /\ Holders(held', x, "EXCLUSIVE") = Holders(held, x, "EXCLUSIVE")
    BY <1>2, <1>5, <2>1, UngrantIsExact
  <2>7. \A u \in Thread, x \in Record : held'[u][x] # "none" => held[u][x] # "none"
    BY <1>2, <1>5, <2>1, UngrantIsExact
  <2>. QED
    BY <2>2, <2>3, <2>4, <2>5, <2>6, <2>7
<1>7. /\ pc' \in [Thread -> {"running", "asleep", "awake"}]
      /\ \A u \in Thread : pc'[u] = "running" <=> pc[u] = "running"
      /\ \A u \in Thread : pc'[u] = "asleep" => pc[u] = "asleep" /\ req[u].ptr # p
  BY <1>1 DEF Broadcast, TypeOK
<1>8. \A q \in Ptr : Waiters(q)' = Waiters(q)
  BY <1>2, <1>7 DEF Waiters
<1>9. /\ entry'[p] = IF InUse(Ungrant(e)) THEN Ungrant(e) ELSE NoEntry
      /\ \A q \in Ptr : q # p => entry'[q] = entry[q]
  BY <1>1, <1>3, <1>4 DEF TypeOK
<1>10. \A q \in Live : q \in Ptr
  BY DEF Live, TypeOK
<1>11. /\ Live' \subseteq Live
       /\ p \in Live' => InUse(Ungrant(e))
       /\ \A b \in Bucket : bucket'[b] \subseteq bucket[b]
       /\ \A q \in Live : q # p => \A b \in Bucket : q \in bucket[b] => q \in bucket'[b]
  <2>1. \A b \in Bucket : bucket'[b] \subseteq bucket[b]
    BY <1>1, <1>3 DEF TypeOK
  <2>2. \A b \in Bucket : p \in bucket[b] => b = Hash[r]
    BY <1>3 DEF BucketsAreWellFormed
  <2>3. ~InUse(Ungrant(e)) => p \notin Live'
    BY <1>1, <1>3, <1>4, <2>1, <2>2 DEF TypeOK, Live
  <2>. QED
    BY <1>1, <1>3, <2>1, <2>3 DEF TypeOK, Live
<1>12. TypeOK'
  <2>1. entry' \in [Ptr -> Entry]
    BY <1>1, <1>3, <1>4, <1>6 DEF TypeOK, NoEntry, NewEntry, Entry
  <2>2. bucket' \in [Bucket -> SUBSET Ptr]
    BY <1>1 DEF TypeOK
  <2>. QED
    BY <1>2, <1>6, <1>7, <2>1, <2>2 DEF TypeOK
<1>13. \A q \in Live' : q \in Live /\ q \in Ptr /\ entry'[q].rec = entry[q].rec
  BY <1>3, <1>4, <1>6, <1>9, <1>10, <1>11
<1>14. BucketsAreWellFormed'
  <2>1. ASSUME NEW q \in Live' PROVE InUse(entry[q])'
    <3>1. InUse(entry'[q])
      BY <1>9, <1>11, <1>13 DEF BucketsAreWellFormed
    <3>. QED
      BY <3>1 DEF InUse
  <2>2. \A b \in Bucket : \A q \in bucket'[b] : q \in Live' /\ q \in bucket[b]
    BY <1>11 DEF Live
  <2>. QED
    BY <1>13, <2>1, <2>2 DEF BucketsAreWellFormed
<1>15. RequestsAreWellFormed'
  BY <1>2, <1>6, <1>7 DEF RequestsAreWellFormed
<1>16. Waiters(p) # {} => InUse(Ungrant(e))
  <2>1. Waiters(p) \in SUBSET Thread
    BY DEF Waiters
  <2>2. Waiters(p) # {} => Cardinality(Waiters(p)) \in Nat /\ Cardinality(Waiters(p)) # 0
    BY <2>1, ThreadCounting
  <2>. QED
    BY <1>5, <1>6, <2>2 DEF InUse
<1>17. \A x \in Record : x # r \/ InUse(Ungrant(e)) => find_entry(x) \subseteq find_entry(x)'
  <2>. SUFFICES ASSUME NEW x \in Record, x # r \/ InUse(Ungrant(e)), NEW q \in find_entry(x)
                PROVE  q \in find_entry(x)'
    OBVIOUS
  <2>1. Hash[x] \in Bucket /\ q \in Live /\ q \in bucket[Hash[x]] /\ entry[q].rec = x
    BY LockConstants DEF find_entry, Live
  <2>2. CASE q # p
    BY <1>9, <1>10, <1>11, <2>1, <2>2 DEF find_entry
  <2>3. CASE q = p
    <3>1. InUse(Ungrant(e)) /\ x = r
      BY <1>3, <2>1, <2>3
    <3>. QED
      BY <1>1, <1>3, <1>4, <1>6, <1>9, <2>1, <2>3, <3>1 DEF find_entry, TypeOK
  <2>. QED  BY <2>2, <2>3
<1>18. HeldRecordsHaveEntries'
  <2>. SUFFICES ASSUME NEW u \in Thread, NEW x \in Record, held'[u][x] # "none"
                PROVE  find_entry(x)' # {}
    BY DEF HeldRecordsHaveEntries, find_entry
  <2>1. find_entry(x) # {}
    BY <1>6 DEF HeldRecordsHaveEntries
  <2>2. x = r => InUse(Ungrant(e))
    <3>. SUFFICES ASSUME x = r PROVE InUse(Ungrant(e))
      OBVIOUS
    <3>1. u \in Holders(held', r, "SHARED") \/ u \in Holders(held', r, "EXCLUSIVE")
      BY <1>6 DEF Holders, RL!HeldType, RL!Mode
    <3>2. Holders(held', r, "SHARED") \in SUBSET Thread
      BY DEF Holders
    <3>3. u \in Holders(held', r, "SHARED") => Cardinality(Holders(held', r, "SHARED")) \in Nat \ {0}
      BY <3>2, ThreadCounting
    <3>. QED
      BY <1>6, <3>1, <3>3 DEF InUse
  <2>. QED
    BY <1>17, <2>1, <2>2
<1>19. WaitersEntryIsAlive'
  <2>. SUFFICES ASSUME NEW u \in Thread, pc[u] # "running"
                PROVE  req[u].ptr \in find_entry(req[u].rec)'
    BY <1>2, <1>7 DEF WaitersEntryIsAlive, find_entry
  <2>1. req[u].rec \in Record /\ req[u].ptr \in find_entry(req[u].rec) /\ req[u].ptr \in Live
        /\ entry[req[u].ptr].rec = req[u].rec
    BY WaitingThread DEF WaitersEntryIsAlive
  <2>2. req[u].rec = r => req[u].ptr = p
    BY <1>3, <2>1 DEF BucketsAreWellFormed
  <2>3. req[u].rec # r \/ InUse(Ungrant(e))
    BY <1>16, <2>2 DEF Waiters
  <2>4. \A x \in Record : x # r \/ InUse(Ungrant(e)) =>
           \A q \in Ptr : q \in bucket[Hash[x]] /\ entry[q].rec = x => q \in bucket'[Hash[x]] /\ entry'[q].rec = x
    BY <1>17 DEF find_entry
  <2>. QED
    BY <1>2, <2>1, <2>3, <2>4, <1>10 DEF find_entry
<1>20. CountersAreExact'
  <2>. SUFFICES ASSUME NEW q \in Live', NEW x, x = entry'[q].rec
                PROVE  /\ entry'[q].shared_count = Cardinality(Holders(held', x, "SHARED"))
                       /\ entry'[q].exclusive_held <=> (Holders(held', x, "EXCLUSIVE") # {})
                       /\ entry'[q].waiters = Cardinality(Waiters(q)')
    BY DEF CountersAreExact, Holders, Waiters
  <2>1. CASE q = p
    BY <1>3, <1>5, <1>6, <1>8, <1>9, <1>11, <2>1
  <2>2. CASE q # p
    <3>1. entry'[q] = entry[q] /\ x # r /\ x \in Record /\ Waiters(q)' = Waiters(q) /\ q \in Live
      BY <1>3, <1>8, <1>9, <1>13, <2>2 DEF BucketsAreWellFormed, Live
    <3>. QED
      BY <1>6, <3>1 DEF CountersAreExact
  <2>. QED  BY <2>1, <2>2
<1>21. NoLostWakeup'
  <2>. SUFFICES ASSUME NEW u \in Thread, pc'[u] = "asleep"
                PROVE  Conflict(entry'[req[u].ptr], req[u].mode)
    BY <1>2 DEF NoLostWakeup, Conflict
  <2>1. pc[u] = "asleep" /\ req[u].ptr # p
    BY <1>7
  <2>2. Conflict(entry[req[u].ptr], req[u].mode) /\ req[u].ptr \in Ptr
    BY <2>1, WaitingThread DEF NoLostWakeup
  <2>. QED
    BY <1>9, <2>1, <2>2
<1>22. RL!Release(t, r)
  BY <1>2 DEF RL!Release
<1>. QED
  BY <1>6, <1>12, <1>14, <1>15, <1>18, <1>19, <1>20, <1>21, <1>22

-----------------------------------------------------------------------------
\* Every step keeps the invariant and is, for the abstract lock, an
\* acquisition, a release, or a step that changes nothing.
LEMMA NextIInv == IInv /\ [Next]_vars => IInv' /\ [RL!Next]_held
<1>. SUFFICES ASSUME IInv, [Next]_vars PROVE IInv' /\ [RL!Next]_held
  OBVIOUS
<1>1. ASSUME NEW t \in Thread, NEW r \in Record, NEW m \in Mode, LockGranted(t, r, m)
      PROVE  IInv' /\ [RL!Next]_held
  BY <1>1, LockGrantedStep DEF RL!Next, Mode
<1>2. ASSUME NEW t \in Thread, NEW r \in Record, NEW m \in Mode, LockWaits(t, r, m)
      PROVE  IInv' /\ [RL!Next]_held
  BY <1>2, LockWaitsStep
<1>3. ASSUME NEW t \in Thread, NEW r \in Record, Unlock(t, r)
      PROVE  IInv' /\ [RL!Next]_held
  BY <1>3, UnlockStep DEF RL!Next
<1>4. ASSUME NEW t \in Thread, WakeGranted(t)
      PROVE  IInv' /\ [RL!Next]_held
  BY <1>4, WakeGrantedStep DEF RL!Next, Mode
<1>5. ASSUME NEW t \in Thread, WakeWaits(t) \/ SpuriousWakeup(t)
      PROVE  IInv' /\ [RL!Next]_held
  BY <1>5, SleepStep
<1>6. CASE UNCHANGED vars
  <2>. USE <1>6 DEF vars, IInv
  <2>1. TypeOK' /\ RequestsAreWellFormed' /\ MutualExclusion'
    BY DEF TypeOK, RL!HeldType, RequestsAreWellFormed, MutualExclusion, RL!MutualExclusion
  <2>2. BucketsAreWellFormed'
    BY DEF BucketsAreWellFormed, Live, InUse
  <2>3. HeldRecordsHaveEntries' /\ WaitersEntryIsAlive' /\ NoLostWakeup'
    BY DEF HeldRecordsHaveEntries, WaitersEntryIsAlive, NoLostWakeup, find_entry, Conflict
  <2>4. CountersAreExact'
    BY DEF CountersAreExact, Live, Holders, Waiters
  <2>. QED
    BY <2>1, <2>2, <2>3, <2>4
<1>. QED
  BY <1>1, <1>2, <1>3, <1>4, <1>5, <1>6 DEF Next

(* The invariant of the lock table holds in every reachable state.         *)
THEOREM LockTableInvariant == Spec => []IInv
<1>1. Init => IInv
  BY InitIInv
<1>2. IInv /\ [Next]_vars => IInv'
  BY NextIInv
<1>. QED
  BY <1>1, <1>2, PTL DEF Spec

(* lock_mgr_lock never grants two incompatible locks, whatever the number  *)
(* of threads, records and buckets and however their calls interleave.     *)
THEOREM LockTableMutualExclusion == Spec => []MutualExclusion
<1>1. IInv => MutualExclusion
  BY DEF IInv
<1>. QED
  BY <1>1, LockTableInvariant, PTL

(* No thread returns from pthread_cond_wait to an entry that was freed.    *)
THEOREM NoUseAfterFree == Spec => []WaitersEntryIsAlive
<1>1. IInv => WaitersEntryIsAlive
  BY DEF IInv
<1>. QED
  BY <1>1, LockTableInvariant, PTL

(* No thread sleeps on a record it could be granted.                       *)
THEOREM WakeupsAreNotLost == Spec => []NoLostWakeup
<1>1. IInv => NoLostWakeup
  BY DEF IInv
<1>. QED
  BY <1>1, LockTableInvariant, PTL

(* The counters of an entry are exact.                                     *)
THEOREM LockCountersAreExact == Spec => []CountersAreExact
<1>1. IInv => CountersAreExact
  BY DEF IInv
<1>. QED
  BY <1>1, LockTableInvariant, PTL

(* A record has exactly one entry while somebody holds it or waits for it, *)
(* and none otherwise: entries neither leak nor split.                     *)
THEOREM EntriesFollowUse == Spec => []OneEntryPerRecordInUse
<1>1. IInv => OneEntryPerRecordInUse
  <2>. SUFFICES ASSUME IInv, NEW r \in Record
                PROVE  /\ find_entry(r) # {} <=> \E t \in Thread : held[t][r] # "none" \/ req[t].rec = r
                       /\ \A p, q \in find_entry(r) : p = q
    BY DEF OneEntryPerRecordInUse
  <2>1. \A p \in find_entry(r) : p \in Live /\ entry[p].rec = r
    BY LockConstants DEF find_entry, Live
  <2>2. ASSUME NEW t \in Thread, req[t].rec = r PROVE find_entry(r) # {}
    BY <2>2, LockConstants DEF IInv, RequestsAreWellFormed, WaitersEntryIsAlive, NoReq
  <2>3. ASSUME NEW p \in find_entry(r)
        PROVE  \E t \in Thread : held[t][r] # "none" \/ req[t].rec = r
    <3>1. /\ InUse(entry[p]) /\ entry[p].shared_count = Cardinality(Holders(held, r, "SHARED"))
          /\ entry[p].waiters = Cardinality(Waiters(p))
      BY <2>1 DEF IInv, BucketsAreWellFormed, CountersAreExact
    <3>2. entry[p].exclusive_held => Holders(held, r, "EXCLUSIVE") # {}
      BY <2>1 DEF IInv, CountersAreExact
    <3>3. Cardinality({}) = 0
      BY FS_EmptySet
    <3>4. Holders(held, r, "SHARED") # {} \/ Holders(held, r, "EXCLUSIVE") # {} \/ Waiters(p) # {}
      BY <3>1, <3>2, <3>3 DEF InUse
    <3>5. \A t \in Waiters(p) : t \in Thread /\ req[t].rec = r
      BY <2>1, WaitingThread DEF Waiters
    <3>. QED
      BY <3>4, <3>5 DEF Holders
  <2>. QED
    BY <2>1, <2>2, <2>3 DEF IInv, HeldRecordsHaveEntries, BucketsAreWellFormed
<1>. QED
  BY <1>1, LockTableInvariant, PTL

(* The lock table of lock_manager.c implements the abstract record lock.   *)
THEOREM LockTableImplementsRecordLock == Spec => ImplementsRecordLock
<1>1. Init => RL!Init
  BY DEF Init
<1>2. IInv /\ [Next]_vars => [RL!Next]_held
  BY NextIInv
<1>. QED
  BY <1>1, <1>2, LockTableInvariant, PTL DEF Spec, ImplementsRecordLock, RL!Spec
=============================================================================
