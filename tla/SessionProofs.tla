--------------------------- MODULE SessionProofs ---------------------------
(***************************************************************************)
(* A handler only ever works with its own session and within its role,     *)
(* although descriptors and session slots are used again and every command *)
(* checks in one step and acts in another: for every set of connections,   *)
(* descriptors, slots and names.                                           *)
(***************************************************************************)
EXTENDS Sessions, FiniteSetTheorems, SequenceTheorems, WellFoundedInduction, TLAPS

-----------------------------------------------------------------------------
(* The inductive invariant.                                                *)

\* The role of the account a connection is logged in to.
RoleOf(c) == IF acct[c] = 0 THEN ROLE_GUEST ELSE users[acct[c]].role

RowsFit == Len(users) <= MaxUsers /\ Len(events) <= MaxEvents

\* A descriptor is open from accept to close, for one connection, and as many at
\* most as there are slots.
DescriptorsAreOpen ==
  /\ \A c \in Conns : fd[c] = NoFd <=> handler[c] \in {"none", "closed"}
  /\ \A c, d \in Conns : fd[c] = fd[d] /\ fd[c] # NoFd => c = d
  /\ Cardinality({d \in Conns : fd[d] # NoFd}) <= Cardinality(Slots)

\* A slot in use is the one of a handler in session, with its descriptor.
SlotsAreTaken ==
  /\ \A c \in InSession : slot[c] \in Slots /\ Session(c).fd = fd[c]
  /\ \A s \in Slots : sessions[s].fd # NoFd => \E c \in InSession : slot[c] = s

\* The session shows the account of the connection: the first of its name.
SessionsShowAccounts ==
  /\ \A c \in Conns : acct[c] \in 0 .. Len(users)
  /\ \A c \in Conns : c \notin InSession => acct[c] = 0
  /\ \A c \in InSession :
       /\ Session(c).user = acct[c]
       /\ Session(c).role = RoleOf(c)
       /\ Session(c).auth <=> acct[c] # 0
  /\ \A c \in Conns : \A i \in 1 .. Len(users) : i < acct[c] => users[i].name # users[acct[c]].name

\* What a handler has checked still holds when it acts on it.
ChecksStayTrue ==
  /\ \A c \in Conns : handler[c] = "register" =>
       /\ args[c].name \in Names
       /\ args[c].role = ROLE_CUSTOMER \/ (args[c].role = ROLE_ORGANIZER /\ RoleOf(c) = ROLE_ADMIN)
  /\ \A c \in Conns : handler[c] = "login" =>
       /\ args[c].id \in 1 .. Len(users)
       /\ \A i \in 1 .. Len(users) : i < args[c].id => users[i].name # users[args[c].id].name
  /\ \A c \in Conns : handler[c] = "delete" =>
       /\ args[c].id \in 1 .. Len(events)
       /\ events[args[c].id].org = acct[c] \/ (acct[c] # 0 /\ users[acct[c]].role = ROLE_ADMIN)

\* Rows refer to rows that exist, and a recorded deletion is a deletion.
RowsAreKnown ==
  /\ \A e \in 1 .. Len(events) : events[e].org \in 1 .. Len(users)
  /\ removedBy \subseteq (1 .. Len(events)) \X (0 .. Len(users))
  /\ \A r \in removedBy : events[r[1]].deleted

\* The handlers that active_connections counts.
Working == {c \in Conns : handler[c] \notin {"none", "accepted", "closed"}}

SessionType == [fd : Fds \cup {NoFd}, user : 0 .. MaxUsers, role : Roles, auth : BOOLEAN]
ArgsType == [name : Names \cup {NoName}, role : Roles, id : 0 .. MaxUsers + MaxEvents]
InSessionAt == {"ready", "register", "login", "delete", "cleanup"}

SessInv ==
  /\ TypeOK /\ RowsFit /\ DescriptorsAreOpen /\ SlotsAreTaken /\ SessionsShowAccounts
  /\ ChecksStayTrue /\ RowsAreKnown /\ RolesAreRespected /\ EveryHandlerFindsASlot

-----------------------------------------------------------------------------
(* The operators the actions are built from.                               *)

\* A finite nonempty set of naturals has a least element: the free slot and
\* the first row that the code's loops find.  The sets of elements below each
\* are well-founded under inclusion.
LEMMA LeastElement ==
  ASSUME NEW S \in SUBSET Nat, IsFiniteSet(S), S # {}
  PROVE  \E x \in S : \A y \in S : x <= y
<1>. DEFINE Below(x) == {y \in S : y < x}
            T == {Below(x) : x \in S}
<1>1. T \subseteq FiniteSubsetsOf(S) /\ T # {}
  <2>1. \A x \in S : Below(x) \in SUBSET S
    OBVIOUS
  <2>2. \A x \in S : Below(x) \in FiniteSubsetsOf(S)
    BY <2>1, FS_Subset DEF FiniteSubsetsOf
  <2>. QED
    BY <2>2
<1>2. PICK B \in T : \A C \in T : ~(<<C, B>> \in StrictSubsetOrdering(S))
  <2>. HIDE DEF T
  <2>. QED
    BY <1>1, WFMin, FS_StrictSubsetOrderingWellFounded
<1>3. PICK x \in S : B = Below(x)
  OBVIOUS
<1>4. ASSUME NEW y \in S, y < x PROVE FALSE
  <2>1. Below(y) \in T /\ Below(y) \subseteq Below(x) /\ y \in Below(x) /\ y \notin Below(y)
    <3>1. x \in Nat /\ y \in Nat /\ S \subseteq Nat
      OBVIOUS
    <3>2. \A z \in S : z < y => z < x
      BY <1>4, <3>1
    <3>3. y \in Below(x)
      BY <1>4
    <3>4. y \notin Below(y)
      BY <3>1
    <3>. QED
      BY <3>2, <3>3, <3>4
  <2>2. <<Below(y), Below(x)>> \in StrictSubsetOrdering(S)
    BY <2>1 DEF StrictSubsetOrdering
  <2>. QED
    BY <1>2, <1>3, <2>1, <2>2
<1>. QED
  BY <1>4

\* How the number of free slots, or of handlers at work, follows one of them
\* coming or going.
LEMMA CountingOne ==
  ASSUME NEW U, IsFiniteSet(U), NEW S \in SUBSET U, NEW x
  PROVE  /\ Cardinality(S) \in Nat /\ Cardinality(S) <= Cardinality(U) /\ Cardinality(U) \in Nat
         /\ x \notin S => Cardinality(S \cup {x}) = Cardinality(S) + 1
         /\ x \in S => Cardinality(S \ {x}) = Cardinality(S) - 1
<1>1. IsFiniteSet(S) /\ Cardinality(S) <= Cardinality(U)
  BY FS_Subset
<1>. QED
  BY <1>1, FS_CardinalityType, FS_AddElement, FS_RemoveElement

\* The bounds are natural numbers, and the roles are the numbers 0 to 3.
LEMMA Bounds ==
  /\ MaxUsers \in Nat /\ MaxUsers >= 1 /\ MaxEvents \in Nat /\ MaxFaults \in Nat
  /\ Roles = 0 .. 3 /\ 0 \in 0 .. MaxUsers + MaxEvents
<1>1. MaxUsers \in Nat /\ MaxUsers >= 1 /\ MaxEvents \in Nat /\ MaxFaults \in Nat
  BY BoundsAssumption
<1>. QED
  BY <1>1 DEF Roles, ROLE_GUEST, ROLE_ADMIN

\* The search by descriptor finds the handler's slot and no other, and no
\* other handler uses that slot.
LEMMA SearchFindsOwnSlot ==
  ASSUME DescriptorsAreOpen, SlotsAreTaken, NEW c \in InSession
  PROVE  /\ SlotsOf(fd[c]) = {slot[c]}
         /\ fd[c] # NoFd
         /\ \A d \in InSession : slot[d] = slot[c] => d = c
<1>1. c \in Conns /\ fd[c] # NoFd
  BY DEF InSession, DescriptorsAreOpen
<1>2. slot[c] \in Slots /\ sessions[slot[c]].fd = fd[c]
  BY DEF SlotsAreTaken, Session
<1>3. ASSUME NEW d \in InSession, slot[d] = slot[c] PROVE d = c
  <2>1. d \in Conns /\ fd[d] = fd[c]
    BY <1>2, <1>3 DEF SlotsAreTaken, Session, InSession
  <2>. QED
    BY <1>1, <2>1 DEF DescriptorsAreOpen
<1>4. ASSUME NEW s \in Slots, sessions[s].fd = fd[c] PROVE s = slot[c]
  <2>1. PICK d \in InSession : slot[d] = s
    BY <1>1, <1>4 DEF SlotsAreTaken
  <2>2. d \in Conns /\ fd[d] = fd[c]
    BY <1>4, <2>1 DEF SlotsAreTaken, Session, InSession
  <2>. QED
    BY <1>1, <2>1, <2>2 DEF DescriptorsAreOpen
<1>. QED
  BY <1>1, <1>2, <1>3, <1>4 DEF SlotsOf

\* A row that is appended to a table changes no other row.
LEMMA AppendRow ==
  ASSUME NEW T, NEW q \in Seq(T), NEW x \in T
  PROVE  /\ Append(q, x) \in Seq(T) /\ Len(Append(q, x)) = Len(q) + 1 /\ Len(q) \in Nat
         /\ \A i \in 1 .. Len(q) : Append(q, x)[i] = q[i]
         /\ Append(q, x)[Len(q) + 1] = x
         /\ DOMAIN q = 1 .. Len(q) /\ DOMAIN Append(q, x) = 1 .. Len(q) + 1
BY AppendProperties, LenProperties

-----------------------------------------------------------------------------
\* Initially no connection exists, and the users table is empty or holds the
\* admin account of an earlier run.
LEMMA InitSessInv == Init => SessInv
<1>. SUFFICES ASSUME Init PROVE SessInv
  OBVIOUS
<1>. USE NamesAssumption, SlotsAssumption, BoundsAssumption
<1>. DEFINE admin == [name |-> AdminName, role |-> ROLE_ADMIN, by |-> ROLE_ADMIN]
<1>0. MaxUsers \in Nat /\ MaxUsers >= 1 /\ MaxEvents \in Nat /\ MaxFaults \in Nat
  BY BoundsAssumption
<1>a. /\ events = <<>> /\ sessions = [s \in Slots |-> FreeSession] /\ active = 0
      /\ handler = [c \in Conns |-> "none"] /\ fd = [c \in Conns |-> NoFd]
      /\ slot = [c \in Conns |-> NoSlot] /\ args = [c \in Conns |-> NoArgs]
      /\ booted = FALSE /\ faults = 0 /\ acct = [c \in Conns |-> 0] /\ removedBy = {}
  BY DEF Init
<1>1. InSession = {} /\ {c \in Conns : handler[c] \notin {"none", "accepted", "closed"}} = {}
  BY DEF Init, InSession
<1>2. FreeSlots = Slots
  BY DEF Init, FreeSlots, FreeSession, session_init
<1>3. EveryHandlerFindsASlot
  <2>1. Cardinality(Slots) \in Nat
    BY FiniteAssumption, FS_CardinalityType
  <2>2. Cardinality(InSession) = 0 /\ Cardinality({c \in Conns : handler[c] \notin {"none", "accepted", "closed"}}) = 0
    BY <1>1, FS_EmptySet
  <2>. QED
    BY <1>2, <2>1, <2>2 DEF EveryHandlerFindsASlot, Init
<1>4. Cardinality(Conns) \in Nat
  BY FiniteAssumption, FS_CardinalityType
<1>5. users \in Seq([name : Names, role : Roles, by : Roles]) /\ Len(users) \in Nat /\ Len(users) <= 1 /\ (Len(users) = 1 => users[1] = admin)
  <2>1. admin \in [name : Names, role : Roles, by : Roles]
    BY DEF Roles, ROLE_ADMIN, ROLE_GUEST
  <2>2. CASE users = <<>>
    BY <2>2
  <2>3. CASE users = <<admin>>
    BY <2>1, <2>3
  <2>. QED
    BY <2>2, <2>3 DEF Init
<1>. HIDE DEF admin
<1>6. TypeOK
  <2>1. FreeSession \in [fd : Fds \cup {NoFd}, user : 0 .. MaxUsers, role : Roles, auth : BOOLEAN]
    BY DEF FreeSession, session_init, Roles, ROLE_GUEST, ROLE_ADMIN
  <2>2. NoArgs \in [name : Names \cup {NoName}, role : Roles, id : 0 .. MaxUsers + MaxEvents]
    BY DEF NoArgs, Roles, ROLE_GUEST, ROLE_ADMIN
  <2>3. events \in Seq([org : 0 .. MaxUsers, deleted : BOOLEAN])
    BY DEF Init
  <2>. QED
    <3>1. /\ sessions \in [Slots -> [fd : Fds \cup {NoFd}, user : 0 .. MaxUsers, role : Roles, auth : BOOLEAN]]
          /\ args \in [Conns -> [name : Names \cup {NoName}, role : Roles, id : 0 .. MaxUsers + MaxEvents]]
      BY <1>a, <2>1, <2>2
    <3>2. active \in 0 .. Cardinality(Conns) /\ faults \in 0 .. MaxFaults /\ acct \in [Conns -> 0 .. MaxUsers]
      BY <1>0, <1>a, <1>4
    <3>. QED
      BY <1>a, <1>5, <2>3, <3>1, <3>2 DEF TypeOK
<1>7. RowsFit /\ DescriptorsAreOpen
  <2>1. Len(events) = 0
    BY DEF Init
  <2>2. RowsFit
    BY <1>0, <1>5, <2>1 DEF RowsFit
  <2>3. {d \in Conns : fd[d] # NoFd} = {} /\ Cardinality({d \in Conns : fd[d] # NoFd}) = 0
    BY <1>a, FS_EmptySet
  <2>4. Cardinality(Slots) \in Nat
    BY FiniteAssumption, FS_CardinalityType
  <2>5. DescriptorsAreOpen
    BY <1>a, <2>3, <2>4 DEF DescriptorsAreOpen
  <2>. QED
    BY <2>2, <2>5
<1>8. SlotsAreTaken /\ SessionsShowAccounts
  BY <1>1, <1>5 DEF Init, SlotsAreTaken, SessionsShowAccounts, FreeSession, session_init
<1>9. ChecksStayTrue /\ RowsAreKnown
  BY DEF Init, ChecksStayTrue, RowsAreKnown
<1>10. RolesAreRespected
  BY <1>5, LenProperties DEF admin, Init, RolesAreRespected, ROLE_ADMIN, ROLE_ORGANIZER
<1>. QED
  BY <1>3, <1>6, <1>7, <1>8, <1>9, <1>10 DEF SessInv

-----------------------------------------------------------------------------
(* One lemma per action: the action preserves the invariant.               *)

\* A handler that stays in session: who is in session, and who is counted, is
\* as before.
LEMMA StaysInSession ==
  ASSUME TypeOK, NEW c \in Conns, NEW h \in InSessionAt, handler[c] \in InSessionAt,
         handler' = [handler EXCEPT ![c] = h]
  PROVE  /\ InSession' = InSession /\ c \in InSession
         /\ Working' = Working
         /\ handler' \in [Conns -> {"none", "accepted", "start", "ready", "register", "login",
                                    "delete", "cleanup", "leaving", "full", "closed"}]
         /\ handler'[c] = h /\ \A d \in Conns : d # c => handler'[d] = handler[d]
         /\ \A d \in Conns : handler'[d] \in {"none", "closed"} <=> handler[d] \in {"none", "closed"}
<1>1. handler'[c] = h /\ \A d \in Conns : d # c => handler'[d] = handler[d]
  BY DEF TypeOK
<1>2. \A d \in Conns : handler'[d] \in {"none", "closed"} <=> handler[d] \in {"none", "closed"}
  BY <1>1 DEF InSessionAt
<1>3. InSession' = InSession /\ c \in InSession
  BY <1>1 DEF InSession, InSessionAt
<1>4. Working' = Working
  BY <1>1 DEF Working, InSessionAt
<1>5. handler' \in [Conns -> {"none", "accepted", "start", "ready", "register", "login",
                              "delete", "cleanup", "leaving", "full", "closed"}]
  BY DEF TypeOK, InSessionAt
<1>. QED
  BY <1>1, <1>2, <1>3, <1>4, <1>5

\* The first half of a command, or the end of the command loop: the handler
\* moves on with what it has read and checked.
LEMMA ReadStep ==
  ASSUME SessInv, NEW c \in Conns, NEW h \in {"register", "login", "delete", "cleanup"},
         NEW a \in ArgsType,
         Move(c, "ready", h), args' = [args EXCEPT ![c] = a],
         UNCHANGED <<users, events, sessions, active, fd, slot, booted, faults, acct, removedBy>>,
         h = "register" =>
           /\ a.name \in Names
           /\ a.role = ROLE_CUSTOMER \/ (a.role = ROLE_ORGANIZER /\ RoleOf(c) = ROLE_ADMIN),
         h = "login" =>
           /\ a.id \in 1 .. Len(users)
           /\ \A i \in 1 .. Len(users) : i < a.id => users[i].name # users[a.id].name,
         h = "delete" =>
           /\ a.id \in 1 .. Len(events)
           /\ events[a.id].org = acct[c] \/ (acct[c] # 0 /\ users[acct[c]].role = ROLE_ADMIN)
  PROVE  SessInv'
<1>. USE DEF SessInv
<1>1. /\ InSession' = InSession /\ Working' = Working
      /\ handler' \in [Conns -> {"none", "accepted", "start", "ready", "register", "login",
                                 "delete", "cleanup", "leaving", "full", "closed"}]
      /\ handler'[c] = h /\ \A d \in Conns : d # c => handler'[d] = handler[d]
      /\ \A d \in Conns : handler'[d] \in {"none", "closed"} <=> handler[d] \in {"none", "closed"}
  BY StaysInSession DEF Move, InSessionAt
<1>2. args'[c] = a /\ (\A d \in Conns : d # c => args'[d] = args[d]) /\ args' \in [Conns -> ArgsType]
  BY DEF TypeOK, ArgsType
<1>3. TypeOK'
  BY <1>1, <1>2 DEF TypeOK, ArgsType
<1>4. \A d \in Conns : RoleOf(d)' = RoleOf(d)
  BY DEF RoleOf
<1>5. RowsFit' /\ DescriptorsAreOpen' /\ RowsAreKnown' /\ RolesAreRespected'
  BY <1>1 DEF RowsFit, DescriptorsAreOpen, RowsAreKnown, RolesAreRespected
<1>6. SlotsAreTaken' /\ SessionsShowAccounts'
  <2>1. \A d \in Conns : Session(d)' = Session(d)
    BY DEF Session
  <2>2. SlotsAreTaken'
    BY <1>1, <2>1 DEF SlotsAreTaken, InSession
  <2>3. SessionsShowAccounts'
    BY <1>1, <1>4, <2>1 DEF SessionsShowAccounts, InSession
  <2>. QED
    BY <2>2, <2>3
<1>7. ChecksStayTrue'
  BY <1>1, <1>2, <1>4 DEF ChecksStayTrue
<1>8. EveryHandlerFindsASlot'
  BY <1>1 DEF EveryHandlerFindsASlot, FreeSlots, Working
<1>. QED
  BY <1>3, <1>5, <1>6, <1>7, <1>8

\* What a handler may rely on when it passes rbac_check.
LEMMA OwnRole ==
  ASSUME SessInv, NEW c \in Conns, handler[c] = "ready"
  PROVE  /\ c \in InSession
         /\ Session(c).role = RoleOf(c) /\ Session(c).user = acct[c]
         /\ Session(c).role # ROLE_GUEST => acct[c] # 0 /\ users[acct[c]].role = Session(c).role
         /\ Session(c).auth <=> acct[c] # 0
         /\ Session(c).role \in 0 .. 3
BY DEF SessInv, InSession, SessionsShowAccounts, RoleOf, SlotsAreTaken, TypeOK, Session, Roles,
   ROLE_GUEST, ROLE_ADMIN

\* QUIT, a lost connection or the shutdown.
LEMMA HandlerEndsStep ==
  ASSUME SessInv, NEW c \in Conns, HandlerEnds(c)
  PROVE  SessInv'
<1>1. args' = [args EXCEPT ![c] = args[c]] /\ args[c] \in ArgsType
  BY DEF HandlerEnds, SessInv, TypeOK, ArgsType
<1>. QED
  BY <1>1, ReadStep DEF HandlerEnds, UnchangedTables, UnchangedHistory

\* REGISTER, up to the scan for the name.
LEMMA RegisterScansStep ==
  ASSUME SessInv, NEW c \in Conns, NEW n \in Names, NEW role \in {ROLE_CUSTOMER, ROLE_ORGANIZER},
         RegisterScans(c, n, role)
  PROVE  SessInv'
<1>. DEFINE a == [name |-> n, role |-> role, id |-> 0]
<1>1. a \in ArgsType /\ a.name = n /\ a.role = role
  <2>1. role \in Roles
    BY Bounds DEF ROLE_CUSTOMER, ROLE_ORGANIZER
  <2>. QED
    BY <2>1, Bounds DEF ArgsType
<1>2. handler[c] = "ready" /\ MayRegister(c, role) /\ Move(c, "ready", "register")
      /\ args' = [args EXCEPT ![c] = a]
      /\ UNCHANGED <<users, events, sessions, active, fd, slot, booted, faults, acct, removedBy>>
  BY DEF RegisterScans, Permitted, UnchangedTables
<1>3. role = ROLE_ORGANIZER => RoleOf(c) = ROLE_ADMIN
  BY <1>2, OwnRole DEF MayRegister
<1>. HIDE DEF a
<1>. QED
  BY <1>1, <1>2, <1>3, ReadStep

\* table_scan finds the first row of a name that is taken.
LEMMA FirstRowIsFirst ==
  ASSUME TypeOK, NEW n \in Names, Taken(n) # {}
  PROVE  /\ FirstRow(n) \in 1 .. Len(users)
         /\ users[FirstRow(n)].name = n
         /\ \A i \in 1 .. Len(users) : i < FirstRow(n) => users[i].name # n
<1>1. DOMAIN users = 1 .. Len(users) /\ Len(users) \in Nat
  BY LenProperties DEF TypeOK
<1>2. Taken(n) \in SUBSET (1 .. Len(users))
  BY <1>1 DEF Taken
<1>3. IsFiniteSet(Taken(n)) /\ Taken(n) \in SUBSET Nat
  <2>1. IsFiniteSet(1 .. Len(users))
    BY <1>1, FS_Interval
  <2>. QED
    BY <1>1, <1>2, <2>1, FS_Subset
<1>4. \E x \in Taken(n) : \A y \in Taken(n) : x <= y
  BY <1>3, LeastElement
<1>5. FirstRow(n) \in Taken(n) /\ \A j \in Taken(n) : FirstRow(n) <= j
  BY <1>4 DEF FirstRow
<1>. QED
  BY <1>1, <1>2, <1>5 DEF Taken

\* LOGIN, up to the scan for the name.
LEMMA LoginScansStep ==
  ASSUME SessInv, NEW c \in Conns, NEW n \in Names, LoginScans(c, n)
  PROVE  SessInv'
<1>. DEFINE a == [name |-> n, role |-> ROLE_GUEST, id |-> FirstRow(n)]
<1>1. /\ FirstRow(n) \in 1 .. Len(users) /\ users[FirstRow(n)].name = n
      /\ \A i \in 1 .. Len(users) : i < FirstRow(n) => users[i].name # n
  BY FirstRowIsFirst DEF LoginScans, SessInv
<1>2. FirstRow(n) \in 0 .. MaxUsers + MaxEvents
  BY <1>1, Bounds, LenProperties DEF SessInv, RowsFit, TypeOK
<1>3. a \in ArgsType /\ a.id = FirstRow(n)
  <2>1. ROLE_GUEST \in Roles /\ a.id = FirstRow(n)
    BY Bounds DEF ROLE_GUEST
  <2>. QED
    BY <1>2, <2>1 DEF ArgsType
<1>4. Move(c, "ready", "login") /\ args' = [args EXCEPT ![c] = a]
      /\ UNCHANGED <<users, events, sessions, active, fd, slot, booted, faults, acct, removedBy>>
  BY DEF LoginScans, UnchangedTables
<1>. HIDE DEF a
<1>. QED
  BY <1>1, <1>3, <1>4, ReadStep

\* DELETE_EVENT, up to the test of the owner.
LEMMA DeleteReadsStep ==
  ASSUME SessInv, NEW c \in Conns, NEW e \in DOMAIN events, DeleteReads(c, e)
  PROVE  SessInv'
<1>. DEFINE a == [NoArgs EXCEPT !.id = e]
<1>1. e \in 1 .. Len(events) /\ Len(events) \in Nat /\ Len(events) <= MaxEvents
  BY LenProperties DEF SessInv, TypeOK, RowsFit
<1>2. a \in ArgsType /\ a.id = e
  <2>1. a = [name |-> NoName, role |-> 0, id |-> e]
    BY DEF NoArgs, ROLE_GUEST
  <2>. QED
    BY <1>1, <2>1, Bounds DEF ArgsType
<1>3. handler[c] = "ready" /\ MayDelete(c, e) /\ Move(c, "ready", "delete")
      /\ args' = [args EXCEPT ![c] = a]
      /\ UNCHANGED <<users, events, sessions, active, fd, slot, booted, faults, acct, removedBy>>
  BY DEF DeleteReads, Permitted, UnchangedTables
<1>4. events[e].org = acct[c] \/ (acct[c] # 0 /\ users[acct[c]].role = ROLE_ADMIN)
  BY <1>3, OwnRole DEF MayDelete, ROLE_ADMIN, ROLE_GUEST
<1>. HIDE DEF a
<1>. QED
  BY <1>1, <1>2, <1>3, <1>4, ReadStep

\* Rows are only ever added to the users table, so whatever was known of an
\* account stays true.
LEMMA UsersGrow ==
  ASSUME SessInv,
         users' \in Seq([name : Names, role : Roles, by : Roles]),
         Len(users) <= Len(users'), Len(users') <= MaxUsers,
         \A i \in 1 .. Len(users) : users'[i] = users[i],
         \A i \in 1 .. Len(users') : i > Len(users) /\ users'[i].role = ROLE_ORGANIZER => users'[i].by = ROLE_ADMIN,
         UNCHANGED <<events, acct, removedBy>>
  PROVE  /\ RowsFit' /\ RowsAreKnown' /\ RolesAreRespected'
         /\ Len(users) \in Nat /\ Len(users') \in Nat
         /\ \A d \in Conns : RoleOf(d)' = RoleOf(d) /\ acct[d] \in 0 .. Len(users')
         /\ \A d \in Conns : \A i \in 1 .. Len(users') : i < acct[d] => users'[i].name # users'[acct[d]].name
<1>. USE DEF SessInv
<1>1. /\ Len(users) \in Nat /\ Len(users') \in Nat /\ Len(events) \in Nat
      /\ DOMAIN users = 1 .. Len(users) /\ DOMAIN users' = 1 .. Len(users') /\ DOMAIN events = 1 .. Len(events)
  BY LenProperties DEF TypeOK
<1>2. \A d \in Conns : acct[d] \in 0 .. Len(users) /\ acct[d] \in 0 .. Len(users')
  BY <1>1 DEF SessionsShowAccounts
<1>3. \A d \in Conns : RoleOf(d)' = RoleOf(d)
  BY <1>1, <1>2 DEF RoleOf
<1>4. \A d \in Conns : \A i \in 1 .. Len(users') : i < acct[d] => users'[i].name # users'[acct[d]].name
  BY <1>1, <1>2 DEF SessionsShowAccounts
<1>5. RowsFit' /\ RowsAreKnown'
  BY <1>1 DEF RowsFit, RowsAreKnown
<1>6. RolesAreRespected'
  <2>1. \A i \in 1 .. Len(users') : users'[i].role = ROLE_ORGANIZER => users'[i].by = ROLE_ADMIN
    BY <1>1 DEF RolesAreRespected
  <2>2. \A e \in 1 .. Len(events) : events[e].org \in 1 .. Len(users) /\ users'[events[e].org] = users[events[e].org]
    BY <1>1 DEF RowsAreKnown
  <2>3. \A r \in removedBy : r[2] \in 0 .. Len(users) /\ (r[2] # 0 => users'[r[2]] = users[r[2]])
    BY <1>1 DEF RowsAreKnown
  <2>. QED
    BY <1>1, <2>1, <2>2, <2>3 DEF RolesAreRespected
<1>. QED
  BY <1>1, <1>2, <1>3, <1>4, <1>5, <1>6

\* auth_bootstrap_admin, before the first connection.
LEMMA BootstrapStep ==
  ASSUME SessInv, auth_bootstrap_admin
  PROVE  SessInv'
<1>. USE DEF SessInv
<1>. DEFINE admin == [name |-> AdminName, role |-> ROLE_ADMIN, by |-> ROLE_ADMIN]
<1>1. UNCHANGED <<events, sessions, active, handler, fd, slot, args, acct, removedBy>> /\ booted' = TRUE
  BY DEF auth_bootstrap_admin, UnchangedHistory
<1>2. faults' \in 0 .. MaxFaults
  BY Bounds DEF auth_bootstrap_admin, TypeOK
<1>3. /\ users' \in Seq([name : Names, role : Roles, by : Roles])
      /\ Len(users) <= Len(users') /\ Len(users') <= MaxUsers
      /\ \A i \in 1 .. Len(users) : users'[i] = users[i]
      /\ \A i \in 1 .. Len(users') : i > Len(users) /\ users'[i].role = ROLE_ORGANIZER => users'[i].by = ROLE_ADMIN
  <2>1. CASE users' = users
    <3>1. Len(users) \in Nat /\ users \in Seq([name : Names, role : Roles, by : Roles])
      BY LenProperties DEF TypeOK
    <3>. QED
      BY <2>1, <3>1 DEF RowsFit
  <2>2. CASE users = <<>> /\ users' = <<admin>>
    <3>1. admin \in [name : Names, role : Roles, by : Roles]
      BY NamesAssumption, Bounds DEF ROLE_ADMIN
    <3>2. admin.by = ROLE_ADMIN
      OBVIOUS
    <3>. HIDE DEF admin
    <3>3. users' \in Seq([name : Names, role : Roles, by : Roles]) /\ Len(users') = 1 /\ users'[1] = admin /\ Len(users) = 0
      BY <2>2, <3>1
    <3>. QED
      BY <3>2, <3>3, Bounds
  <2>. QED
    BY <2>1, <2>2 DEF auth_bootstrap_admin
<1>4. /\ RowsFit' /\ RowsAreKnown' /\ RolesAreRespected'
      /\ Len(users) \in Nat /\ Len(users') \in Nat
      /\ \A d \in Conns : RoleOf(d)' = RoleOf(d) /\ acct[d] \in 0 .. Len(users')
      /\ \A d \in Conns : \A i \in 1 .. Len(users') : i < acct[d] => users'[i].name # users'[acct[d]].name
  BY <1>1, <1>3, UsersGrow
<1>5. TypeOK'
  BY <1>1, <1>2, <1>3 DEF TypeOK
<1>6. InSession' = InSession /\ \A d \in Conns : Session(d)' = Session(d)
  BY <1>1 DEF InSession, Session
<1>7. DescriptorsAreOpen' /\ EveryHandlerFindsASlot'
  BY <1>1, <1>6 DEF DescriptorsAreOpen, EveryHandlerFindsASlot, FreeSlots
<1>8. SlotsAreTaken'
  BY <1>1, <1>6 DEF SlotsAreTaken, InSession
<1>9. SessionsShowAccounts'
  BY <1>1, <1>4, <1>6 DEF SessionsShowAccounts, InSession
<1>10. ChecksStayTrue'
  <2>1. \A c \in Conns : handler[c] = "login" =>
          /\ args[c].id \in 1 .. Len(users')
          /\ \A i \in 1 .. Len(users') : i < args[c].id => users'[i].name # users'[args[c].id].name
    BY <1>3, <1>4, SMTT(20) DEF ChecksStayTrue
  <2>2. \A c \in Conns : acct[c] # 0 => users'[acct[c]] = users[acct[c]]
    BY <1>3, <1>4, SMTT(20) DEF SessionsShowAccounts
  <2>. QED
    BY <1>1, <1>4, <2>1, <2>2 DEF ChecksStayTrue
<1>. QED
  BY <1>4, <1>5, <1>7, <1>8, <1>9, <1>10

\* The insert of REGISTER: by its role, the caller may create the account, and
\* it is still logged in as when it was checked.
LEMMA RegisterInsertsStep ==
  ASSUME SessInv, NEW c \in Conns, RegisterInserts(c)
  PROVE  SessInv'
<1>. USE DEF SessInv
<1>. DEFINE row == [name |-> args[c].name, role |-> args[c].role, by |-> RoleOf(c)]
<1>1. /\ handler[c] = "register" /\ handler' = [handler EXCEPT ![c] = "ready"]
      /\ args' = [args EXCEPT ![c] = NoArgs]
      /\ UNCHANGED <<events, sessions, active, fd, slot, booted, acct, removedBy>>
      /\ \/ Len(users) < MaxUsers /\ users' = Append(users, row) /\ faults' = faults
         \/ faults < MaxFaults /\ faults' = faults + 1 /\ users' = users
  BY DEF RegisterInserts, Move, UnchangedHistory, RoleOf
<1>2. faults' \in 0 .. MaxFaults
  BY <1>1, Bounds DEF TypeOK
<1>3. /\ row \in [name : Names, role : Roles, by : Roles]
      /\ row.role = ROLE_ORGANIZER => row.by = ROLE_ADMIN
  <2>1. RoleOf(c) \in Roles
    <3>1. acct[c] \in 0 .. Len(users) /\ users \in Seq([name : Names, role : Roles, by : Roles])
      BY DEF SessionsShowAccounts, TypeOK
    <3>2. acct[c] # 0 => users[acct[c]] \in [name : Names, role : Roles, by : Roles]
      <4>1. Len(users) \in Nat
        BY <3>1, LenProperties
      <4>2. \A i \in 1 .. Len(users) : users[i] \in [name : Names, role : Roles, by : Roles]
        BY <3>1, ElementOfSeq
      <4>. QED
        BY <3>1, <4>1, <4>2
    <3>. QED
      BY <3>2, Bounds DEF RoleOf, ROLE_GUEST
  <2>2. args[c].name \in Names /\ args[c].role \in Roles
    BY <1>1 DEF ChecksStayTrue, TypeOK
  <2>3. args[c].role = ROLE_ORGANIZER => RoleOf(c) = ROLE_ADMIN
    BY <1>1 DEF ChecksStayTrue, ROLE_CUSTOMER, ROLE_ORGANIZER
  <2>. QED
    BY <2>1, <2>2, <2>3
<1>. HIDE DEF row
<1>4. /\ users' \in Seq([name : Names, role : Roles, by : Roles])
      /\ Len(users) <= Len(users') /\ Len(users') <= MaxUsers
      /\ \A i \in 1 .. Len(users) : users'[i] = users[i]
      /\ \A i \in 1 .. Len(users') : i > Len(users) /\ users'[i].role = ROLE_ORGANIZER => users'[i].by = ROLE_ADMIN
  <2>1. Len(users) \in Nat /\ users \in Seq([name : Names, role : Roles, by : Roles]) /\ Len(users) <= MaxUsers
    BY LenProperties DEF TypeOK, RowsFit
  <2>2. CASE users' = users
    BY <2>1, <2>2
  <2>3. CASE Len(users) < MaxUsers /\ users' = Append(users, row)
    <3>1. /\ users' \in Seq([name : Names, role : Roles, by : Roles]) /\ Len(users') = Len(users) + 1
          /\ \A i \in 1 .. Len(users) : users'[i] = users[i]
          /\ users'[Len(users) + 1] = row
      BY <1>3, <2>1, <2>3, AppendRow
    <3>. QED
      BY <1>3, <2>1, <2>3, <3>1, Bounds
  <2>. QED
    BY <1>1, <2>2, <2>3
<1>5. /\ RowsFit' /\ RowsAreKnown' /\ RolesAreRespected'
      /\ Len(users) \in Nat /\ Len(users') \in Nat
      /\ \A d \in Conns : RoleOf(d)' = RoleOf(d) /\ acct[d] \in 0 .. Len(users')
      /\ \A d \in Conns : \A i \in 1 .. Len(users') : i < acct[d] => users'[i].name # users'[acct[d]].name
  BY <1>1, <1>4, UsersGrow
<1>6. /\ InSession' = InSession /\ Working' = Working
      /\ handler' \in [Conns -> {"none", "accepted", "start", "ready", "register", "login",
                                 "delete", "cleanup", "leaving", "full", "closed"}]
      /\ handler'[c] = "ready" /\ \A d \in Conns : d # c => handler'[d] = handler[d]
      /\ \A d \in Conns : handler'[d] \in {"none", "closed"} <=> handler[d] \in {"none", "closed"}
  BY <1>1, StaysInSession DEF InSessionAt
<1>7. args' \in [Conns -> ArgsType] /\ \A d \in Conns : d # c => args'[d] = args[d]
  <2>1. NoArgs \in ArgsType
    BY Bounds DEF NoArgs, ArgsType, ROLE_GUEST
  <2>. QED
    BY <1>1, <2>1 DEF TypeOK, ArgsType
<1>8. TypeOK'
  BY <1>1, <1>2, <1>4, <1>6, <1>7 DEF TypeOK, ArgsType
<1>9. \A d \in Conns : Session(d)' = Session(d)
  BY <1>1 DEF Session
<1>10. DescriptorsAreOpen' /\ EveryHandlerFindsASlot'
  BY <1>1, <1>6, ZenonT(40) DEF DescriptorsAreOpen, EveryHandlerFindsASlot, FreeSlots, Working
<1>11. SlotsAreTaken'
  BY <1>1, <1>6, <1>9 DEF SlotsAreTaken, InSession
<1>12. SessionsShowAccounts'
  BY <1>1, <1>5, <1>6, <1>9 DEF SessionsShowAccounts, InSession
<1>13. ChecksStayTrue'
  <2>1. \A d \in Conns : d # c /\ handler[d] = "login" =>
          /\ args[d].id \in 1 .. Len(users')
          /\ \A i \in 1 .. Len(users') : i < args[d].id => users'[i].name # users'[args[d].id].name
    BY <1>4, <1>5 DEF ChecksStayTrue
  <2>2. \A d \in Conns : acct[d] # 0 => users'[acct[d]] = users[acct[d]]
    BY <1>4, <1>5 DEF SessionsShowAccounts
  <2>. QED
    BY <1>1, <1>5, <1>6, <1>7, <2>1, <2>2 DEF ChecksStayTrue
<1>. QED
  BY <1>5, <1>8, <1>10, <1>11, <1>12, <1>13

\* accept: the descriptor is not one that another connection has open.
LEMMA AcceptStep ==
  ASSUME SessInv, NEW c \in Conns, Accept(c)
  PROVE  SessInv'
<1>. USE DEF SessInv
<1>1. PICK f \in Fds \ {fd[d] : d \in Conns} : fd' = [fd EXCEPT ![c] = f]
  BY DEF Accept
<1>2. /\ handler[c] = "none" /\ handler' = [handler EXCEPT ![c] = "accepted"]
      /\ UNCHANGED <<users, events, sessions, active, slot, args, booted, faults, acct, removedBy>>
  BY DEF Accept, Move, UnchangedTables, UnchangedHistory
<1>3. TypeOK'
  BY <1>1, <1>2 DEF TypeOK
<1>4. /\ fd'[c] = f /\ \A d \in Conns : d # c => fd'[d] = fd[d] /\ handler'[d] = handler[d]
      /\ handler'[c] = "accepted" /\ f # NoFd /\ \A d \in Conns : fd[d] # f
  BY <1>1, <1>2, SlotsAssumption DEF TypeOK
<1>5. InSession' = InSession /\ Working' = Working /\ c \notin InSession
  BY <1>2, <1>4 DEF InSession, Working
<1>6. \A d \in Conns : Session(d)' = Session(d) /\ RoleOf(d)' = RoleOf(d)
  BY <1>2 DEF Session, RoleOf
<1>7. DescriptorsAreOpen'
  <2>. DEFINE admitted == {d \in Conns : fd[d] # NoFd}
  <2>1. admitted \in SUBSET Conns /\ c \notin admitted /\ admitted' = admitted \cup {c}
    BY <1>2, <1>4 DEF DescriptorsAreOpen
  <2>2. Cardinality(admitted) < Cardinality(Slots)
    BY DEF Accept, MAX_CONNECTIONS
  <2>3. Cardinality(admitted') <= Cardinality(Slots)
    <3>. HIDE DEF admitted
    <3>1. Cardinality(admitted') = Cardinality(admitted) + 1 /\ Cardinality(admitted) \in Nat
      BY <2>1, FiniteAssumption, CountingOne
    <3>2. Cardinality(Slots) \in Nat
      BY FiniteAssumption, FS_CardinalityType
    <3>. QED
      BY <2>2, <3>1, <3>2
  <2>. QED
    BY <1>2, <1>4, <2>3 DEF DescriptorsAreOpen
<1>8. SlotsAreTaken' /\ SessionsShowAccounts'
  <2>1. SlotsAreTaken'
    BY <1>2, <1>4, <1>5, <1>6 DEF SlotsAreTaken, InSession
  <2>2. SessionsShowAccounts'
    BY <1>2, <1>5, <1>6 DEF SessionsShowAccounts, InSession
  <2>. QED
    BY <2>1, <2>2
<1>9. ChecksStayTrue'
  BY <1>2, <1>4, <1>6 DEF ChecksStayTrue
<1>10. RowsFit' /\ RowsAreKnown' /\ RolesAreRespected' /\ EveryHandlerFindsASlot'
  BY <1>2, <1>4, <1>5 DEF RowsFit, RowsAreKnown, RolesAreRespected, EveryHandlerFindsASlot, FreeSlots, Working
<1>. QED
  BY <1>3, <1>7, <1>8, <1>9, <1>10

\* client_handler counts its connection.
LEMMA HandlerStartsStep ==
  ASSUME SessInv, NEW c \in Conns, HandlerStarts(c)
  PROVE  SessInv'
<1>. USE DEF SessInv
<1>1. /\ handler[c] = "accepted" /\ handler' = [handler EXCEPT ![c] = "start"] /\ active' = active + 1
      /\ UNCHANGED <<users, events, sessions, fd, slot, args, booted, faults, acct, removedBy>>
  BY DEF HandlerStarts, Move, UnchangedTables, UnchangedHistory
<1>2. handler'[c] = "start" /\ \A d \in Conns : d # c => handler'[d] = handler[d]
  BY <1>1 DEF TypeOK
<1>3. InSession' = InSession /\ Working' = Working \cup {c} /\ c \notin Working
  BY <1>1, <1>2 DEF InSession, Working
<1>4. active' = Cardinality(Working') /\ active' \in 0 .. Cardinality(Conns)
  <2>1. Working \in SUBSET Conns /\ Working' \in SUBSET Conns
    BY DEF Working
  <2>2. Cardinality(Working') = Cardinality(Working) + 1 /\ Cardinality(Working) \in Nat
    BY <1>3, <2>1, FiniteAssumption, CountingOne
  <2>3. Cardinality(Working') \in Nat /\ Cardinality(Conns) \in Nat /\ Cardinality(Working') <= Cardinality(Conns)
    BY <2>1, FiniteAssumption, CountingOne
  <2>4. active = Cardinality(Working)
    BY DEF EveryHandlerFindsASlot, Working
  <2>. QED
    BY <1>1, <2>2, <2>3, <2>4
<1>5. TypeOK'
  BY <1>1, <1>4 DEF TypeOK
<1>6. \A d \in Conns : Session(d)' = Session(d) /\ RoleOf(d)' = RoleOf(d)
  BY <1>1 DEF Session, RoleOf
<1>7. DescriptorsAreOpen'
  BY <1>1, <1>2 DEF DescriptorsAreOpen
<1>8. SlotsAreTaken' /\ SessionsShowAccounts'
  <2>1. SlotsAreTaken'
    BY <1>1, <1>3, <1>6 DEF SlotsAreTaken, InSession
  <2>2. SessionsShowAccounts'
    BY <1>1, <1>3, <1>6 DEF SessionsShowAccounts, InSession
  <2>. QED
    BY <2>1, <2>2
<1>9. ChecksStayTrue'
  BY <1>1, <1>2, <1>6 DEF ChecksStayTrue
<1>10. RowsFit' /\ RowsAreKnown' /\ RolesAreRespected'
  BY <1>1 DEF RowsFit, RowsAreKnown, RolesAreRespected
<1>11. EveryHandlerFindsASlot'
  BY <1>1, <1>3, <1>4 DEF EveryHandlerFindsASlot, FreeSlots, Working
<1>. QED
  BY <1>5, <1>7, <1>8, <1>9, <1>10, <1>11

\* The semaphore has let in no more clients than there are slots, and one of
\* them has no session yet.
LEMMA SlotIsFree ==
  ASSUME SessInv, NEW c \in Conns, handler[c] = "start"
  PROVE  FreeSlots # {}
<1>. DEFINE admitted == {d \in Conns : fd[d] # NoFd}
<1>1. /\ InSession \in SUBSET (admitted \ {c}) /\ c \in admitted /\ admitted \in SUBSET Conns
      /\ Cardinality(admitted) <= Cardinality(Slots)
  BY DEF SessInv, DescriptorsAreOpen, InSession
<1>. HIDE DEF admitted
<1>2. Cardinality(admitted \ {c}) = Cardinality(admitted) - 1 /\ Cardinality(admitted) \in Nat
  BY <1>1, FiniteAssumption, CountingOne
<1>3. IsFiniteSet(admitted \ {c})
  BY <1>1, FiniteAssumption, FS_Subset
<1>4. Cardinality(InSession) <= Cardinality(admitted \ {c}) /\ Cardinality(InSession) \in Nat
  BY <1>1, <1>3, CountingOne
<1>5. Cardinality(Slots) \in Nat
  BY FiniteAssumption, FS_CardinalityType
<1>6. Cardinality(FreeSlots) = Cardinality(Slots) - Cardinality(InSession)
  BY DEF SessInv, EveryHandlerFindsASlot
<1>7. Cardinality(FreeSlots) # 0
  BY <1>1, <1>2, <1>4, <1>5, <1>6
<1>. QED
  BY <1>7, FS_EmptySet

\* auth_create_session takes the first free slot and forgets whoever had it.
LEMMA CreateSessionStep ==
  ASSUME SessInv, NEW c \in Conns, auth_create_session(c)
  PROVE  SessInv'
<1>. USE DEF SessInv
<1>0. handler[c] = "start" /\ FreeSlots # {}
  BY SlotIsFree DEF auth_create_session, Move
<1>1. PICK s0 \in FreeSlots :
        /\ sessions' = [sessions EXCEPT ![s0] = session_init(fd[c])]
        /\ slot' = [slot EXCEPT ![c] = s0]
  <2>1. FreeSlots \in SUBSET Nat /\ IsFiniteSet(FreeSlots) /\ FreeSlots # {}
    <3>1. FreeSlots \in SUBSET Slots
      BY DEF FreeSlots
    <3>. QED
      BY <1>0, <3>1, SlotsAssumption, FiniteAssumption, FS_Subset
  <2>2. \E s \in FreeSlots : \A r \in FreeSlots : s <= r
    BY <2>1, LeastElement
  <2>. QED
    BY <1>0, <2>2 DEF auth_create_session
<1>2. /\ handler[c] = "start" /\ handler' = [handler EXCEPT ![c] = "ready"]
      /\ UNCHANGED <<users, events, active, fd, args, booted, faults, acct, removedBy>>
  BY <1>0 DEF auth_create_session, Move, UnchangedTables, UnchangedHistory
<1>3. /\ handler'[c] = "ready" /\ slot'[c] = s0
      /\ \A d \in Conns : d # c => handler'[d] = handler[d] /\ slot'[d] = slot[d]
      /\ s0 \in Slots /\ sessions[s0].fd = NoFd
  BY <1>1, <1>2 DEF TypeOK, FreeSlots
<1>4. /\ fd[c] \in Fds /\ fd[c] # NoFd /\ acct[c] = 0 /\ c \notin InSession
  BY <1>2, SlotsAssumption DEF DescriptorsAreOpen, SessionsShowAccounts, InSession, TypeOK
<1>5. session_init(fd[c]) \in SessionType
  <2>1. 0 \in 0 .. MaxUsers /\ ROLE_GUEST \in Roles
    BY Bounds DEF ROLE_GUEST
  <2>. QED
    BY <1>4, <2>1 DEF SessionType, session_init
<1>6. /\ sessions'[s0] = [fd |-> fd[c], user |-> 0, role |-> ROLE_GUEST, auth |-> FALSE]
      /\ \A s \in Slots : s # s0 => sessions'[s] = sessions[s]
      /\ sessions' \in [Slots -> SessionType]
  BY <1>1, <1>3, <1>5 DEF TypeOK, SessionType, session_init
<1>7. TypeOK'
  BY <1>1, <1>2, <1>3, <1>6 DEF TypeOK, SessionType
<1>8. InSession' = InSession \cup {c} /\ Working' = Working
  BY <1>2, <1>3 DEF InSession, Working
<1>9. \A d \in InSession : d \in Conns /\ d # c /\ slot[d] # s0 /\ slot[d] \in Slots /\ Session(d)' = Session(d)
  <2>1. \A d \in InSession : d \in Conns /\ d # c /\ slot[d] \in Slots /\ sessions[slot[d]].fd = fd[d] /\ fd[d] # NoFd
    BY <1>4 DEF InSession, SlotsAreTaken, Session, DescriptorsAreOpen
  <2>. QED
    BY <1>3, <1>6, <2>1 DEF Session
<1>10. \A d \in Conns : RoleOf(d)' = RoleOf(d)
  BY <1>2 DEF RoleOf
<1>11. DescriptorsAreOpen'
  BY <1>2, <1>3 DEF DescriptorsAreOpen
<1>12. SlotsAreTaken'
  <2>1. \A d \in InSession' : slot'[d] \in Slots /\ Session(d)'.fd = fd'[d]
    BY <1>2, <1>3, <1>6, <1>8, <1>9 DEF SlotsAreTaken, Session
  <2>2. \A s \in Slots : sessions'[s].fd # NoFd => \E d \in InSession' : slot'[d] = s
    BY <1>3, <1>6, <1>8, <1>9 DEF SlotsAreTaken
  <2>. QED
    BY <2>1, <2>2 DEF SlotsAreTaken
<1>13. SessionsShowAccounts'
  <2>1. Session(c)' = [fd |-> fd[c], user |-> 0, role |-> ROLE_GUEST, auth |-> FALSE] /\ RoleOf(c) = ROLE_GUEST
    BY <1>3, <1>4, <1>6 DEF Session, RoleOf
  <2>2. \A d \in InSession' :
          /\ Session(d)'.user = acct[d]
          /\ Session(d)'.role = RoleOf(d)
          /\ Session(d)'.auth <=> acct[d] # 0
    BY <1>4, <1>8, <1>9, <2>1 DEF SessionsShowAccounts
  <2>3. \A d \in InSession' : d \in Conns /\ RoleOf(d)' = RoleOf(d)
    BY <1>10 DEF InSession
  <2>4. \A d \in Conns : d \notin InSession' => acct[d] = 0
    BY <1>8 DEF SessionsShowAccounts
  <2>5. \A d \in Conns : acct[d] \in 0 .. Len(users) /\ \A i \in 1 .. Len(users) : i < acct[d] => users[i].name # users[acct[d]].name
    BY DEF SessionsShowAccounts
  <2>. QED
    BY <1>2, <2>2, <2>3, <2>4, <2>5 DEF SessionsShowAccounts
<1>14. ChecksStayTrue'
  BY <1>2, <1>3, <1>10 DEF ChecksStayTrue
<1>15. RowsFit' /\ RowsAreKnown' /\ RolesAreRespected'
  BY <1>2 DEF RowsFit, RowsAreKnown, RolesAreRespected
<1>16. EveryHandlerFindsASlot'
  <2>1. FreeSlots' = FreeSlots \ {s0}
    BY <1>3, <1>4, <1>6 DEF FreeSlots
  <2>2. FreeSlots \in SUBSET Slots /\ InSession \in SUBSET Conns
    BY DEF FreeSlots, InSession
  <2>3. Cardinality(FreeSlots') = Cardinality(FreeSlots) - 1 /\ Cardinality(FreeSlots) \in Nat /\ Cardinality(Slots) \in Nat
    BY <2>1, <2>2, FiniteAssumption, CountingOne
  <2>4. Cardinality(InSession') = Cardinality(InSession) + 1 /\ Cardinality(InSession) \in Nat
    BY <1>4, <1>8, <2>2, FiniteAssumption, CountingOne
  <2>5. Cardinality(FreeSlots') = Cardinality(Slots) - Cardinality(InSession')
    BY <2>3, <2>4 DEF EveryHandlerFindsASlot
  <2>6. active' = Cardinality(Working')
    BY <1>2, <1>8 DEF EveryHandlerFindsASlot, Working
  <2>. QED
    BY <1>3, <2>5, <2>6 DEF EveryHandlerFindsASlot, Working
<1>. QED
  BY <1>7, <1>11, <1>12, <1>13, <1>14, <1>15, <1>16

\* auth_remove_session frees the slot that has the handler's descriptor: its
\* own, and no other handler's.
LEMMA RemoveSessionStep ==
  ASSUME SessInv, NEW c \in Conns, auth_remove_session(c)
  PROVE  SessInv'
<1>. USE DEF SessInv
<1>1. /\ handler[c] = "cleanup" /\ handler' = [handler EXCEPT ![c] = "leaving"]
      /\ sessions' = [s \in Slots |-> IF s \in SlotsOf(fd[c]) THEN FreeSession ELSE sessions[s]]
      /\ slot' = [slot EXCEPT ![c] = NoSlot] /\ acct' = [acct EXCEPT ![c] = 0]
      /\ UNCHANGED <<users, events, active, fd, args, booted, faults, removedBy>>
  BY DEF auth_remove_session, Move, UnchangedTables
<1>2. c \in InSession
  BY <1>1 DEF InSession
<1>3. /\ SlotsOf(fd[c]) = {slot[c]} /\ fd[c] # NoFd /\ slot[c] \in Slots
      /\ \A d \in InSession : slot[d] = slot[c] => d = c
  BY <1>2, SearchFindsOwnSlot DEF SlotsAreTaken
<1>4. /\ handler'[c] = "leaving" /\ acct'[c] = 0 /\ slot'[c] = NoSlot
      /\ \A d \in Conns : d # c => handler'[d] = handler[d] /\ slot'[d] = slot[d] /\ acct'[d] = acct[d]
  BY <1>1 DEF TypeOK
<1>5. FreeSession \in SessionType /\ FreeSession.fd = NoFd
  <2>1. 0 \in 0 .. MaxUsers /\ ROLE_GUEST \in Roles
    BY Bounds DEF ROLE_GUEST
  <2>. QED
    BY <2>1 DEF FreeSession, session_init, SessionType
<1>6. /\ sessions'[slot[c]] = FreeSession
      /\ \A s \in Slots : s # slot[c] => sessions'[s] = sessions[s]
      /\ sessions' \in [Slots -> SessionType]
  BY <1>1, <1>3, <1>5 DEF TypeOK, SessionType
<1>7. TypeOK'
  <2>1. slot' \in [Conns -> Slots \cup {NoSlot}]
    BY <1>1 DEF TypeOK
  <2>2. acct' \in [Conns -> 0 .. MaxUsers]
    <3>1. 0 \in 0 .. MaxUsers
      BY Bounds
    <3>. QED
      BY <1>1, <3>1 DEF TypeOK
  <2>. QED
    BY <1>1, <1>6, <2>1, <2>2 DEF TypeOK, SessionType
<1>8. InSession' = InSession \ {c} /\ Working' = Working
  BY <1>1, <1>4 DEF InSession, Working
<1>9. \A d \in InSession' : d \in InSession /\ d \in Conns /\ d # c /\ slot'[d] = slot[d] /\ Session(d)' = Session(d) /\ acct'[d] = acct[d] /\ RoleOf(d)' = RoleOf(d)
  <2>1. \A d \in InSession' : d \in InSession /\ d \in Conns /\ d # c /\ slot'[d] = slot[d] /\ slot[d] \in Slots
    BY <1>4, <1>8 DEF InSession, SlotsAreTaken
  <2>2. \A d \in InSession' : Session(d)' = Session(d)
    BY <1>3, <1>6, <2>1 DEF Session
  <2>. QED
    BY <1>1, <1>4, <2>1, <2>2 DEF RoleOf
<1>10. DescriptorsAreOpen'
  BY <1>1, <1>4 DEF DescriptorsAreOpen
<1>11. SlotsAreTaken'
  <2>1. \A s \in Slots : sessions'[s].fd # NoFd => \E d \in InSession' : slot'[d] = s
    BY <1>5, <1>6, <1>8, <1>9 DEF SlotsAreTaken
  <2>2. \A d \in InSession' : slot'[d] \in Slots /\ Session(d)'.fd = fd'[d]
    BY <1>1, <1>9 DEF SlotsAreTaken
  <2>. QED
    BY <2>1, <2>2 DEF SlotsAreTaken
<1>12. SessionsShowAccounts'
  <2>1. Len(users) \in Nat
    BY LenProperties DEF TypeOK
  <2>2. \A d \in Conns : acct'[d] \in 0 .. Len(users)
    BY <1>4, <2>1 DEF SessionsShowAccounts
  <2>3. \A d \in Conns : d \notin InSession' => acct'[d] = 0
    BY <1>4, <1>8 DEF SessionsShowAccounts
  <2>4. \A d \in InSession' : Session(d)'.user = acct'[d] /\ Session(d)'.role = RoleOf(d)' /\ (Session(d)'.auth <=> acct'[d] # 0)
    BY <1>9 DEF SessionsShowAccounts
  <2>5. \A d \in Conns : \A i \in 1 .. Len(users) : i < acct'[d] => users[i].name # users[acct'[d]].name
    BY <1>4, <2>1 DEF SessionsShowAccounts
  <2>. QED
    BY <1>1, <2>2, <2>3, <2>4, <2>5 DEF SessionsShowAccounts
<1>13. ChecksStayTrue'
  BY <1>1, <1>4 DEF ChecksStayTrue, RoleOf
<1>14. RowsFit' /\ RowsAreKnown' /\ RolesAreRespected'
  BY <1>1 DEF RowsFit, RowsAreKnown, RolesAreRespected
<1>15. EveryHandlerFindsASlot'
  <2>1. FreeSlots' = FreeSlots \cup {slot[c]} /\ slot[c] \notin FreeSlots
    <3>1. sessions[slot[c]].fd # NoFd
      BY <1>2, <1>3 DEF SlotsAreTaken, Session
    <3>. QED
      BY <1>3, <1>5, <1>6, <3>1 DEF FreeSlots
  <2>2. FreeSlots \in SUBSET Slots /\ InSession \in SUBSET Conns
    BY DEF FreeSlots, InSession
  <2>3. Cardinality(FreeSlots') = Cardinality(FreeSlots) + 1 /\ Cardinality(FreeSlots) \in Nat /\ Cardinality(Slots) \in Nat
    BY <2>1, <2>2, FiniteAssumption, CountingOne
  <2>4. Cardinality(InSession') = Cardinality(InSession) - 1 /\ Cardinality(InSession) \in Nat
    BY <1>2, <1>8, <2>2, FiniteAssumption, CountingOne
  <2>5. Cardinality(FreeSlots') = Cardinality(Slots) - Cardinality(InSession')
    BY <2>3, <2>4 DEF EveryHandlerFindsASlot
  <2>6. active' = Cardinality(Working')
    BY <1>1, <1>8 DEF EveryHandlerFindsASlot, Working
  <2>. QED
    BY <1>4, <2>5, <2>6 DEF EveryHandlerFindsASlot, Working
<1>. QED
  BY <1>7, <1>10, <1>11, <1>12, <1>13, <1>14, <1>15

\* The handler uncounts its connection and the descriptor is closed.
LEMMA CloseStep ==
  ASSUME SessInv, NEW c \in Conns, Close(c)
  PROVE  SessInv'
<1>. USE DEF SessInv
<1>1. /\ handler[c] \in {"leaving", "full"} /\ handler' = [handler EXCEPT ![c] = "closed"] /\ active' = active - 1
      /\ fd' = [fd EXCEPT ![c] = NoFd]
      /\ UNCHANGED <<users, events, sessions, slot, args, booted, faults, acct, removedBy>>
  BY DEF Close, Move, UnchangedTables, UnchangedHistory
<1>2. /\ handler'[c] = "closed" /\ fd'[c] = NoFd
      /\ \A d \in Conns : d # c => handler'[d] = handler[d] /\ fd'[d] = fd[d]
  BY <1>1 DEF TypeOK
<1>3. InSession' = InSession /\ c \notin InSession /\ Working' = Working \ {c} /\ c \in Working
  BY <1>1, <1>2 DEF InSession, Working
<1>4. active' = Cardinality(Working') /\ active' \in 0 .. Cardinality(Conns)
  <2>1. Working \in SUBSET Conns /\ Working' \in SUBSET Conns
    BY DEF Working
  <2>2. Cardinality(Working') = Cardinality(Working) - 1 /\ Cardinality(Working) \in Nat
    BY <1>3, <2>1, FiniteAssumption, CountingOne
  <2>3. Cardinality(Working') \in Nat /\ Cardinality(Conns) \in Nat /\ Cardinality(Working') <= Cardinality(Conns)
    BY <2>1, FiniteAssumption, CountingOne
  <2>4. active = Cardinality(Working)
    BY DEF EveryHandlerFindsASlot, Working
  <2>. QED
    BY <1>1, <2>2, <2>3, <2>4
<1>5. TypeOK'
  BY <1>1, <1>4 DEF TypeOK
<1>6. \A d \in Conns : Session(d)' = Session(d) /\ RoleOf(d)' = RoleOf(d)
  BY <1>1 DEF Session, RoleOf
<1>7. DescriptorsAreOpen'
  <2>. DEFINE admitted == {d \in Conns : fd[d] # NoFd}
  <2>1. admitted \in SUBSET Conns /\ c \in admitted /\ admitted' = admitted \ {c}
    BY <1>1, <1>2 DEF DescriptorsAreOpen
  <2>2. Cardinality(admitted) <= Cardinality(Slots)
    BY DEF DescriptorsAreOpen
  <2>3. Cardinality(admitted') <= Cardinality(Slots)
    <3>. HIDE DEF admitted
    <3>1. Cardinality(admitted') = Cardinality(admitted) - 1 /\ Cardinality(admitted) \in Nat
      BY <2>1, FiniteAssumption, CountingOne
    <3>2. Cardinality(Slots) \in Nat
      BY FiniteAssumption, FS_CardinalityType
    <3>. QED
      BY <2>2, <3>1, <3>2
  <2>. QED
    BY <1>1, <1>2, <2>3 DEF DescriptorsAreOpen
<1>8. SlotsAreTaken' /\ SessionsShowAccounts'
  <2>1. SlotsAreTaken'
    BY <1>1, <1>2, <1>3, <1>6 DEF SlotsAreTaken, InSession
  <2>2. SessionsShowAccounts'
    BY <1>1, <1>3, <1>6 DEF SessionsShowAccounts, InSession
  <2>. QED
    BY <2>1, <2>2
<1>9. ChecksStayTrue'
  BY <1>1, <1>2, <1>6 DEF ChecksStayTrue
<1>10. RowsFit' /\ RowsAreKnown' /\ RolesAreRespected'
  BY <1>1 DEF RowsFit, RowsAreKnown, RolesAreRespected
<1>11. EveryHandlerFindsASlot'
  BY <1>1, <1>3, <1>4 DEF EveryHandlerFindsASlot, FreeSlots, Working
<1>. QED
  BY <1>5, <1>7, <1>8, <1>9, <1>10, <1>11

\* auth_login fills in the session of its descriptor with the row it read
\* before it took auth->mutex.
LEMMA LoginUpdatesStep ==
  ASSUME SessInv, NEW c \in Conns, LoginUpdates(c)
  PROVE  SessInv'
<1>. USE DEF SessInv
<1>. DEFINE id == args[c].id
            new == [fd |-> fd[c], user |-> id, role |-> users[id].role, auth |-> TRUE]
<1>1. /\ handler[c] = "login" /\ handler' = [handler EXCEPT ![c] = "ready"]
      /\ sessions' = [s \in Slots |-> IF s \in SlotsOf(fd[c]) THEN new ELSE sessions[s]]
      /\ acct' = [acct EXCEPT ![c] = IF SlotsOf(fd[c]) = {} THEN 0 ELSE id]
      /\ args' = [args EXCEPT ![c] = NoArgs]
      /\ UNCHANGED <<users, events, active, fd, slot, booted, faults, removedBy>>
  BY DEF LoginUpdates, Move, UnchangedTables
<1>2. c \in InSession
  BY <1>1 DEF InSession
<1>3. /\ SlotsOf(fd[c]) = {slot[c]} /\ fd[c] # NoFd /\ slot[c] \in Slots /\ fd[c] \in Fds
      /\ \A d \in InSession : slot[d] = slot[c] => d = c
  BY <1>2, SearchFindsOwnSlot DEF SlotsAreTaken, TypeOK
<1>4. /\ id \in 1 .. Len(users) /\ Len(users) \in Nat /\ Len(users) <= MaxUsers
      /\ \A i \in 1 .. Len(users) : i < id => users[i].name # users[id].name
      /\ users[id].role \in Roles
  <2>1. /\ id \in 1 .. Len(users) /\ Len(users) \in Nat /\ Len(users) <= MaxUsers
        /\ \A i \in 1 .. Len(users) : i < id => users[i].name # users[id].name
        /\ users \in Seq([name : Names, role : Roles, by : Roles])
    BY <1>1, LenProperties DEF ChecksStayTrue, TypeOK, RowsFit
  <2>2. users[id] \in [name : Names, role : Roles, by : Roles]
    BY <2>1, ElementOfSeq
  <2>. QED
    BY <2>1, <2>2
<1>5. id \in 1 .. MaxUsers /\ id # 0
  BY <1>4, Bounds
<1>6. new \in SessionType /\ new.fd = fd[c] /\ new.user = id /\ new.role = users[id].role /\ new.auth = TRUE
  <2>1. id \in 0 .. MaxUsers
    BY <1>5, Bounds
  <2>. QED
    BY <1>3, <1>4, <2>1 DEF SessionType
<1>. HIDE DEF id, new
<1>7. /\ sessions'[slot[c]] = new
      /\ \A s \in Slots : s # slot[c] => sessions'[s] = sessions[s]
      /\ sessions' \in [Slots -> SessionType]
  BY <1>1, <1>3, <1>6 DEF TypeOK, SessionType
<1>8. /\ acct'[c] = id /\ \A d \in Conns : d # c => acct'[d] = acct[d] /\ args'[d] = args[d]
      /\ acct' \in [Conns -> 0 .. MaxUsers] /\ args' \in [Conns -> ArgsType]
  <2>1. acct' = [acct EXCEPT ![c] = id]
    BY <1>1, <1>3
  <2>2. NoArgs \in ArgsType
    BY Bounds DEF NoArgs, ArgsType, ROLE_GUEST
  <2>. QED
    BY <1>1, <1>5, <2>1, <2>2 DEF TypeOK, ArgsType
<1>9. /\ InSession' = InSession /\ Working' = Working
      /\ handler' \in [Conns -> {"none", "accepted", "start", "ready", "register", "login",
                                 "delete", "cleanup", "leaving", "full", "closed"}]
      /\ handler'[c] = "ready" /\ \A d \in Conns : d # c => handler'[d] = handler[d]
      /\ \A d \in Conns : handler'[d] \in {"none", "closed"} <=> handler[d] \in {"none", "closed"}
  BY <1>1, StaysInSession DEF InSessionAt
<1>10. TypeOK'
  BY <1>1, <1>7, <1>8, <1>9 DEF TypeOK, SessionType, ArgsType
<1>11. \A d \in Conns : d # c => RoleOf(d)' = RoleOf(d)
  BY <1>1, <1>8 DEF RoleOf
<1>12. \A d \in InSession : d # c => Session(d)' = Session(d)
  BY <1>1, <1>3, <1>7 DEF Session, SlotsAreTaken
<1>13. Session(c)' = new /\ RoleOf(c)' = users[id].role
  BY <1>1, <1>5, <1>7, <1>8 DEF Session, RoleOf
<1>14. DescriptorsAreOpen'
  BY <1>1, <1>9 DEF DescriptorsAreOpen
<1>15. SlotsAreTaken'
  <2>1. \A s \in Slots : sessions'[s].fd = sessions[s].fd
    BY <1>2, <1>3, <1>6, <1>7 DEF SlotsAreTaken, Session
  <2>2. \A d \in InSession : slot[d] \in Slots /\ Session(d)'.fd = fd[d]
    BY <1>6, <1>12, <1>13, <1>3 DEF SlotsAreTaken
  <2>. QED
    BY <1>1, <1>9, <2>1, <2>2 DEF SlotsAreTaken
<1>16. SessionsShowAccounts'
  <2>1. \A d \in Conns : acct'[d] \in 0 .. Len(users)
    BY <1>4, <1>8 DEF SessionsShowAccounts
  <2>2. \A d \in Conns : d \notin InSession => acct'[d] = 0
    BY <1>2, <1>8 DEF SessionsShowAccounts
  <2>3. \A d \in InSession : Session(d)'.user = acct'[d] /\ Session(d)'.role = RoleOf(d)' /\ (Session(d)'.auth <=> acct'[d] # 0)
    <3>1. Session(c)'.user = acct'[c] /\ Session(c)'.role = RoleOf(c)' /\ Session(c)'.auth /\ acct'[c] # 0
      BY <1>5, <1>6, <1>8, <1>13
    <3>2. \A d \in InSession : d # c => d \in Conns /\ Session(d)' = Session(d) /\ acct'[d] = acct[d] /\ RoleOf(d)' = RoleOf(d)
      BY <1>8, <1>11, <1>12 DEF InSession
    <3>. QED
      BY <3>1, <3>2 DEF SessionsShowAccounts
  <2>4. \A d \in Conns : \A i \in 1 .. Len(users) : i < acct'[d] => users[i].name # users[acct'[d]].name
    BY <1>4, <1>8 DEF SessionsShowAccounts
  <2>. QED
    BY <1>1, <1>9, <2>1, <2>2, <2>3, <2>4 DEF SessionsShowAccounts
<1>17. ChecksStayTrue'
  BY <1>1, <1>8, <1>9, <1>11 DEF ChecksStayTrue
<1>18. RowsFit' /\ RowsAreKnown' /\ RolesAreRespected'
  BY <1>1 DEF RowsFit, RowsAreKnown, RolesAreRespected
<1>19. EveryHandlerFindsASlot'
  <2>1. FreeSlots' = FreeSlots
    BY <1>2, <1>3, <1>6, <1>7 DEF FreeSlots, SlotsAreTaken, Session
  <2>. QED
    BY <1>1, <1>9, <2>1 DEF EveryHandlerFindsASlot, Working
<1>. QED
  BY <1>10, <1>14, <1>15, <1>16, <1>17, <1>18, <1>19

\* LOGOUT makes the session a guest's again and keeps its descriptor.
LEMMA LogoutStep ==
  ASSUME SessInv, NEW c \in Conns, Logout(c)
  PROVE  SessInv'
<1>. USE DEF SessInv
<1>1. /\ handler[c] = "ready" /\ acct' = [acct EXCEPT ![c] = 0]
      /\ UNCHANGED <<users, events, active, handler, fd, slot, args, booted, faults, removedBy>>
  BY DEF Logout, Permitted, UnchangedTables
<1>2. c \in InSession
  BY <1>1 DEF InSession
<1>3. /\ SlotsOf(fd[c]) = {slot[c]} /\ fd[c] # NoFd /\ slot[c] \in Slots /\ fd[c] \in Fds
      /\ \A d \in InSession : slot[d] = slot[c] => d = c
  BY <1>2, SearchFindsOwnSlot DEF SlotsAreTaken, TypeOK
<1>4. sessions' = [sessions EXCEPT ![slot[c]] = session_init(fd[c])]
  BY <1>3 DEF Logout
<1>5. /\ session_init(fd[c]) \in SessionType /\ session_init(fd[c]).fd = fd[c]
      /\ session_init(fd[c]).user = 0 /\ session_init(fd[c]).role = ROLE_GUEST /\ session_init(fd[c]).auth = FALSE
  <2>1. 0 \in 0 .. MaxUsers /\ ROLE_GUEST \in Roles
    BY Bounds DEF ROLE_GUEST
  <2>. QED
    BY <1>3, <2>1 DEF SessionType, session_init
<1>6. /\ sessions'[slot[c]] = session_init(fd[c])
      /\ \A s \in Slots : s # slot[c] => sessions'[s] = sessions[s]
      /\ sessions' \in [Slots -> SessionType]
  BY <1>3, <1>4, <1>5 DEF TypeOK, SessionType
<1>7. /\ acct'[c] = 0 /\ \A d \in Conns : d # c => acct'[d] = acct[d]
      /\ acct' \in [Conns -> 0 .. MaxUsers]
  <2>1. 0 \in 0 .. MaxUsers
    BY Bounds
  <2>. QED
    BY <1>1, <2>1 DEF TypeOK
<1>8. TypeOK'
  BY <1>1, <1>6, <1>7 DEF TypeOK, SessionType
<1>9. InSession' = InSession /\ Working' = Working
  BY <1>1 DEF InSession, Working
<1>10. \A d \in Conns : d # c => RoleOf(d)' = RoleOf(d)
  BY <1>1, <1>7 DEF RoleOf
<1>11. \A d \in InSession : d # c => d \in Conns /\ Session(d)' = Session(d)
  BY <1>1, <1>3, <1>6 DEF Session, SlotsAreTaken, InSession
<1>12. Session(c)' = session_init(fd[c]) /\ RoleOf(c)' = ROLE_GUEST
  BY <1>1, <1>6, <1>7 DEF Session, RoleOf
<1>13. DescriptorsAreOpen'
  BY <1>1 DEF DescriptorsAreOpen
<1>14. SlotsAreTaken'
  <2>1. \A s \in Slots : sessions'[s].fd = sessions[s].fd
    BY <1>2, <1>3, <1>5, <1>6 DEF SlotsAreTaken, Session
  <2>2. \A d \in InSession : slot[d] \in Slots /\ Session(d)'.fd = fd[d]
    BY <1>3, <1>5, <1>11, <1>12 DEF SlotsAreTaken
  <2>. QED
    BY <1>1, <1>9, <2>1, <2>2 DEF SlotsAreTaken
<1>15. SessionsShowAccounts'
  <2>0. Len(users) \in Nat
    BY LenProperties DEF TypeOK
  <2>1. \A d \in Conns : acct'[d] \in 0 .. Len(users)
    BY <1>7, <2>0 DEF SessionsShowAccounts
  <2>2. \A d \in Conns : d \notin InSession => acct'[d] = 0
    BY <1>7 DEF SessionsShowAccounts
  <2>3. \A d \in InSession : Session(d)'.user = acct'[d] /\ Session(d)'.role = RoleOf(d)' /\ (Session(d)'.auth <=> acct'[d] # 0)
    BY <1>5, <1>7, <1>10, <1>11, <1>12 DEF SessionsShowAccounts
  <2>4. \A d \in Conns : \A i \in 1 .. Len(users) : i < acct'[d] => users[i].name # users[acct'[d]].name
    BY <1>7, <2>0 DEF SessionsShowAccounts
  <2>. QED
    BY <1>1, <1>9, <2>1, <2>2, <2>3, <2>4 DEF SessionsShowAccounts
<1>16. ChecksStayTrue'
  BY <1>1, <1>7, <1>10 DEF ChecksStayTrue
<1>17. RowsFit' /\ RowsAreKnown' /\ RolesAreRespected'
  BY <1>1 DEF RowsFit, RowsAreKnown, RolesAreRespected
<1>18. EveryHandlerFindsASlot'
  <2>1. FreeSlots' = FreeSlots
    BY <1>2, <1>3, <1>5, <1>6 DEF FreeSlots, SlotsAreTaken, Session
  <2>. QED
    BY <1>1, <1>9, <2>1 DEF EveryHandlerFindsASlot, Working
<1>. QED
  BY <1>8, <1>13, <1>14, <1>15, <1>16, <1>17, <1>18

\* CREATE_EVENT: the caller passed rbac_check, so it is logged in to an
\* account of an organizer or an admin.
LEMMA CreateEventStep ==
  ASSUME SessInv, NEW c \in Conns, CreateEvent(c)
  PROVE  SessInv'
<1>. USE DEF SessInv
<1>. DEFINE row == [org |-> Session(c).user, deleted |-> FALSE]
<1>1. /\ handler[c] = "ready" /\ rbac_check(Session(c).role, "CREATE_EVENT")
      /\ Len(events) < MaxEvents /\ events' = Append(events, row)
      /\ UNCHANGED <<users, sessions, active, handler, fd, slot, args, booted, faults, acct, removedBy>>
  BY DEF CreateEvent, Permitted
<1>2. /\ Session(c).user = acct[c] /\ acct[c] \in 1 .. Len(users) /\ users[acct[c]].role >= ROLE_ORGANIZER
      /\ acct[c] \in 0 .. MaxUsers /\ acct[c] # 0
  <2>1. Session(c).role >= ROLE_ORGANIZER
    BY <1>1 DEF rbac_check, permission_matrix
  <2>2. /\ Session(c).user = acct[c] /\ Session(c).role \in 0 .. 3
        /\ Session(c).role # ROLE_GUEST => acct[c] # 0 /\ users[acct[c]].role = Session(c).role
    BY <1>1, OwnRole
  <2>3. acct[c] # 0 /\ users[acct[c]].role = Session(c).role
    BY <2>1, <2>2 DEF ROLE_GUEST, ROLE_ORGANIZER
  <2>4. acct[c] \in 0 .. Len(users) /\ Len(users) \in Nat /\ acct[c] \in 0 .. MaxUsers
    BY LenProperties DEF SessionsShowAccounts, TypeOK
  <2>. QED
    BY <2>1, <2>2, <2>3, <2>4
<1>3. row \in [org : 0 .. MaxUsers, deleted : BOOLEAN] /\ row.org = acct[c]
  BY <1>2
<1>. HIDE DEF row
<1>4. /\ events' \in Seq([org : 0 .. MaxUsers, deleted : BOOLEAN]) /\ Len(events') = Len(events) + 1 /\ Len(events) \in Nat
      /\ \A i \in 1 .. Len(events) : events'[i] = events[i]
      /\ events'[Len(events) + 1] = row
      /\ DOMAIN events = 1 .. Len(events) /\ DOMAIN events' = 1 .. Len(events) + 1
  BY <1>1, <1>3, AppendRow DEF TypeOK
<1>5. TypeOK'
  BY <1>1, <1>4 DEF TypeOK
<1>6. InSession' = InSession /\ \A d \in Conns : Session(d)' = Session(d) /\ RoleOf(d)' = RoleOf(d)
  BY <1>1 DEF InSession, Session, RoleOf
<1>7. DescriptorsAreOpen' /\ EveryHandlerFindsASlot'
  BY <1>1, <1>6 DEF DescriptorsAreOpen, EveryHandlerFindsASlot, FreeSlots
<1>8. SlotsAreTaken'
  BY <1>1, <1>6 DEF SlotsAreTaken, InSession
<1>9. SessionsShowAccounts'
  BY <1>1, <1>6 DEF SessionsShowAccounts, InSession
<1>10. ChecksStayTrue'
  BY <1>1, <1>4, <1>6 DEF ChecksStayTrue
<1>11. RowsFit'
  BY <1>1, <1>4, Bounds DEF RowsFit
<1>12. RowsAreKnown'
  BY <1>1, <1>2, <1>3, <1>4 DEF RowsAreKnown
<1>13. RolesAreRespected'
  <2>1. \A e \in 1 .. Len(events') : events'[e].org # 0 /\ users[events'[e].org].role >= ROLE_ORGANIZER
    <3>1. \A i \in 1 .. Len(events) : events'[i].org # 0 /\ users[events'[i].org].role >= ROLE_ORGANIZER
      BY <1>4 DEF RolesAreRespected
    <3>2. events'[Len(events) + 1].org # 0 /\ users[events'[Len(events) + 1].org].role >= ROLE_ORGANIZER
      BY <1>2, <1>3, <1>4
    <3>. QED
      BY <1>4, <3>1, <3>2
  <2>2. \A r \in removedBy : r[1] \in 1 .. Len(events) /\ events'[r[1]] = events[r[1]]
    BY <1>4 DEF RowsAreKnown
  <2>. QED
    BY <1>1, <1>4, <2>1, <2>2 DEF RolesAreRespected
<1>. QED
  BY <1>5, <1>7, <1>8, <1>9, <1>10, <1>11, <1>12, <1>13

\* event_mgr_delete_event, some time after the test of the owner: the event
\* and the account are still the ones that were tested.
LEMMA DeleteDeletesStep ==
  ASSUME SessInv, NEW c \in Conns, DeleteDeletes(c)
  PROVE  SessInv'
<1>. USE DEF SessInv
<1>. DEFINE e == args[c].id
<1>1. /\ handler[c] = "delete" /\ handler' = [handler EXCEPT ![c] = "ready"]
      /\ events' = [events EXCEPT ![e].deleted = TRUE]
      /\ removedBy' = IF events[e].deleted THEN removedBy ELSE removedBy \cup {<<e, acct[c]>>}
      /\ args' = [args EXCEPT ![c] = NoArgs]
      /\ UNCHANGED <<users, sessions, active, fd, slot, booted, faults, acct>>
  BY DEF DeleteDeletes, Move
<1>2. /\ e \in 1 .. Len(events) /\ Len(events) \in Nat /\ DOMAIN events = 1 .. Len(events)
      /\ events[e].org = acct[c] \/ (acct[c] # 0 /\ users[acct[c]].role = ROLE_ADMIN)
      /\ acct[c] \in 0 .. Len(users)
  BY <1>1, LenProperties DEF ChecksStayTrue, TypeOK, SessionsShowAccounts
<1>. HIDE DEF e
<1>3. /\ events' \in Seq([org : 0 .. MaxUsers, deleted : BOOLEAN]) /\ Len(events') = Len(events)
      /\ \A i \in 1 .. Len(events) : events'[i].org = events[i].org
      /\ \A i \in 1 .. Len(events) : i # e => events'[i] = events[i]
      /\ events'[e].deleted = TRUE /\ DOMAIN events' = 1 .. Len(events)
  <2>. DEFINE gone == [events[e] EXCEPT !.deleted = TRUE]
  <2>1. events[e] \in [org : 0 .. MaxUsers, deleted : BOOLEAN]
    BY <1>2, ElementOfSeq DEF TypeOK
  <2>2. gone \in [org : 0 .. MaxUsers, deleted : BOOLEAN] /\ gone.org = events[e].org /\ gone.deleted = TRUE
    BY <2>1
  <2>3. events' = [events EXCEPT ![e] = gone]
    BY <1>1, <1>2
  <2>. HIDE DEF gone
  <2>4. /\ events' \in Seq([org : 0 .. MaxUsers, deleted : BOOLEAN]) /\ Len(events') = Len(events)
        /\ \A j \in 1 .. Len(events) : events'[j] = IF j = e THEN gone ELSE events[j]
    BY <1>2, <2>2, <2>3, ExceptSeq DEF TypeOK
  <2>5. DOMAIN events' = 1 .. Len(events)
    BY <1>2, <2>3
  <2>. QED
    BY <1>2, <2>2, <2>4, <2>5
<1>4. /\ InSession' = InSession /\ Working' = Working
      /\ handler' \in [Conns -> {"none", "accepted", "start", "ready", "register", "login",
                                 "delete", "cleanup", "leaving", "full", "closed"}]
      /\ handler'[c] = "ready" /\ \A d \in Conns : d # c => handler'[d] = handler[d]
      /\ \A d \in Conns : handler'[d] \in {"none", "closed"} <=> handler[d] \in {"none", "closed"}
  BY <1>1, StaysInSession DEF InSessionAt
<1>5. args' \in [Conns -> ArgsType] /\ \A d \in Conns : d # c => args'[d] = args[d]
  <2>1. NoArgs \in ArgsType
    BY Bounds DEF NoArgs, ArgsType, ROLE_GUEST
  <2>. QED
    BY <1>1, <2>1 DEF TypeOK, ArgsType
<1>6. TypeOK'
  BY <1>1, <1>3, <1>4, <1>5 DEF TypeOK, ArgsType
<1>7. \A d \in Conns : Session(d)' = Session(d) /\ RoleOf(d)' = RoleOf(d)
  BY <1>1 DEF Session, RoleOf
<1>8. DescriptorsAreOpen' /\ EveryHandlerFindsASlot'
  <2>1. FreeSlots' = FreeSlots
    BY <1>1 DEF FreeSlots
  <2>. QED
    BY <1>1, <1>4, <2>1 DEF DescriptorsAreOpen, EveryHandlerFindsASlot
<1>9. SlotsAreTaken'
  BY <1>1, <1>4, <1>7 DEF SlotsAreTaken, InSession
<1>10. SessionsShowAccounts'
  BY <1>1, <1>4, <1>7 DEF SessionsShowAccounts, InSession
<1>11. ChecksStayTrue'
  BY <1>1, <1>3, <1>4, <1>5, <1>7 DEF ChecksStayTrue
<1>12. RowsFit'
  BY <1>1, <1>3 DEF RowsFit
<1>13. \A r \in removedBy' : r \in removedBy \/ (r = <<e, acct[c]>> /\ ~events[e].deleted)
  BY <1>1
<1>14. RowsAreKnown'
  <2>1. \A r \in removedBy' : r \in (1 .. Len(events)) \X (0 .. Len(users))
    BY <1>2, <1>13 DEF RowsAreKnown
  <2>2. \A r \in removedBy : r[1] \in 1 .. Len(events) /\ events'[r[1]].deleted
    BY <1>3 DEF RowsAreKnown
  <2>3. \A r \in removedBy' : events'[r[1]].deleted
    BY <1>3, <1>13, <2>2
  <2>. QED
    BY <1>1, <1>3, <2>1, <2>3 DEF RowsAreKnown
<1>15. RolesAreRespected'
  <2>1. \A r \in removedBy : r[1] \in 1 .. Len(events) /\ events[r[1]].deleted
    BY DEF RowsAreKnown
  <2>2. \A r \in removedBy' : r[2] = events[r[1]].org \/ (r[2] # 0 /\ users[r[2]].role = ROLE_ADMIN)
    BY <1>2, <1>13 DEF RolesAreRespected
  <2>3. \A q, r \in removedBy' : q[1] = r[1] => q = r
    BY <1>13, <2>1 DEF RolesAreRespected
  <2>4. \A r \in removedBy' : events'[r[1]].org = events[r[1]].org
    BY <1>2, <1>3, <1>13, <2>1
  <2>5. \A i \in 1 .. Len(events) : events'[i].org # 0 /\ users[events'[i].org].role >= ROLE_ORGANIZER
    BY <1>2, <1>3 DEF RolesAreRespected
  <2>. QED
    BY <1>1, <1>3, <2>2, <2>3, <2>4, <2>5 DEF RolesAreRespected
<1>. QED
  BY <1>6, <1>8, <1>9, <1>10, <1>11, <1>12, <1>14, <1>15

-----------------------------------------------------------------------------
\* Every step of every handler preserves the invariant.
LEMMA NextSessInv == SessInv /\ [Next]_vars => SessInv'
<1>. SUFFICES ASSUME SessInv, [Next]_vars PROVE SessInv'
  OBVIOUS
<1>1. CASE UNCHANGED vars
  <2>1. TypeOK' /\ RowsFit' /\ RowsAreKnown' /\ RolesAreRespected'
    BY <1>1 DEF vars, SessInv, TypeOK, RowsFit, RowsAreKnown, RolesAreRespected
  <2>2. DescriptorsAreOpen' /\ EveryHandlerFindsASlot'
    BY <1>1 DEF vars, SessInv, DescriptorsAreOpen, EveryHandlerFindsASlot, FreeSlots, InSession
  <2>3. SlotsAreTaken' /\ SessionsShowAccounts' /\ ChecksStayTrue'
    BY <1>1 DEF vars, SessInv, SlotsAreTaken, SessionsShowAccounts, ChecksStayTrue, InSession,
       Session, RoleOf
  <2>. QED
    BY <2>1, <2>2, <2>3 DEF SessInv
<1>2. CASE auth_bootstrap_admin
  BY <1>2, BootstrapStep
<1>3. ASSUME NEW c \in Conns, ConnStep(c) PROVE SessInv'
  BY <1>3, AcceptStep, HandlerStartsStep, CreateSessionStep, HandlerEndsStep, RemoveSessionStep,
     CloseStep, RegisterScansStep, RegisterInsertsStep, LoginScansStep, LoginUpdatesStep, LogoutStep,
     CreateEventStep, DeleteReadsStep, DeleteDeletesStep DEF ConnStep
<1>. QED
  BY <1>1, <1>2, <1>3 DEF Next

\* The invariant holds in every reachable state.
THEOREM SessInvHolds == Spec => []SessInv
<1>. QED
  BY InitSessInv, NextSessInv, PTL DEF Spec

(* A handler in session finds its own session by descriptor and no other,   *)
(* and the session shows the account this very connection logged in to,     *)
(* with that account's role, the first of its name: descriptors and slots   *)
(* are used again, and auth_login reads the row before it takes the mutex.  *)
THEOREM SessionIsOwnHolds == Spec => []SessionIsOwn
<1>1. SessInv => SessionIsOwn
  <2>. SUFFICES ASSUME SessInv PROVE SessionIsOwn
    OBVIOUS
  <2>. USE DEF SessInv
  <2>1. ASSUME NEW c \in InSession
        PROVE  /\ SlotsOf(fd[c]) = {slot[c]} /\ c \in Conns
               /\ Session(c).user = acct[c]
               /\ Session(c).role = RoleOf(c)
               /\ Session(c).auth <=> acct[c] # 0
    BY SearchFindsOwnSlot DEF SessionsShowAccounts, InSession
  <2>2. ASSUME NEW c \in Conns, NEW i \in 1 .. acct[c] - 1, acct[c] # 0
        PROVE  users[i].name # users[acct[c]].name
    <3>1. Len(users) \in Nat /\ acct[c] \in 0 .. Len(users)
      BY LenProperties DEF TypeOK, SessionsShowAccounts
    <3>2. i \in 1 .. Len(users) /\ i < acct[c]
      BY <2>2, <3>1
    <3>. QED
      BY <3>2 DEF SessionsShowAccounts
  <2>. QED
    BY <2>1, <2>2 DEF SessionIsOwn, RoleOf
<1>. QED
  BY <1>1, SessInvHolds, PTL

(* No client that was let in is turned away for want of a session slot,     *)
(* however connections come and go: the semaphore admits as many as there   *)
(* are slots and every way out of client_handler gives its slot back.       *)
(* active_connections is the number of handlers at work.                    *)
THEOREM EveryHandlerFindsASlotHolds == Spec => []EveryHandlerFindsASlot
<1>1. SessInv => EveryHandlerFindsASlot
  BY DEF SessInv
<1>. QED
  BY <1>1, SessInvHolds, PTL

(* Organizer accounts come from admins, events belong to organizers or      *)
(* admins, and an event is deleted once, by its owner or an admin, although *)
(* the role is checked in one step and the table changed in another.        *)
THEOREM RolesAreRespectedHolds == Spec => []RolesAreRespected
<1>1. SessInv => RolesAreRespected
  BY DEF SessInv
<1>. QED
  BY <1>1, SessInvHolds, PTL
=============================================================================
