------------------------------ MODULE Sessions ------------------------------
(***************************************************************************)
(* Who may do what: the session pool and the accounts of                   *)
(* server/auth/auth.c, the permission matrix of server/auth/rbac.c, and    *)
(* client_handler and the account and event commands of server/main.c.     *)
(* A connection is handled by one worker thread from accept to close.  Its *)
(* session is found by file descriptor, and the kernel gives a descriptor  *)
(* to the next connection as soon as it is closed.                         *)
(*                                                                         *)
(* A call of the users or events table is atomic (storage_mutex), and so   *)
(* is a section under auth->mutex; a handler that makes two of them does   *)
(* so in two steps.                                                        *)
(***************************************************************************)
EXTENDS Naturals, Sequences, FiniteSets

CONSTANTS
  Conns,      \* client connections, over the life of the server
  Fds,        \* file descriptors of client sockets
  Slots,      \* indices of auth->sessions, 0 .. MAX_CONNECTIONS - 1
  Names,      \* user names
  AdminName,  \* "admin"
  NoFd,       \* -1
  NoSlot, NoName,
  MaxUsers,   \* bound on the rows of the users table
  MaxEvents,  \* bound on the rows of the events table
  MaxFaults   \* bound on failing calls

ASSUME NamesAssumption == AdminName \in Names /\ NoName \notin Names
ASSUME SlotsAssumption == Slots \subseteq Nat /\ NoSlot \notin Slots /\ NoFd \notin Fds
ASSUME FiniteAssumption == IsFiniteSet(Slots) /\ IsFiniteSet(Conns)
ASSUME BoundsAssumption == MaxUsers \in Nat \ {0} /\ {MaxEvents, MaxFaults} \subseteq Nat

ROLE_GUEST == 0
ROLE_CUSTOMER == 1
ROLE_ORGANIZER == 2
ROLE_ADMIN == 3
Roles == ROLE_GUEST .. ROLE_ADMIN

\* permission_matrix: every row allows a role and the ones above it, CMD_UNKNOWN
\* allows none.  Commands with the same row and no effect on this state are one.
permission_matrix ==
  [REGISTER |-> ROLE_GUEST, LOGIN |-> ROLE_GUEST, BROWSE |-> ROLE_GUEST,
   LOGOUT |-> ROLE_CUSTOMER, BOOKINGS |-> ROLE_CUSTOMER,
   CREATE_EVENT |-> ROLE_ORGANIZER, DELETE_EVENT |-> ROLE_ORGANIZER, REVENUE |-> ROLE_ORGANIZER,
   LIST_USERS |-> ROLE_ADMIN, SYSTEM_STATS |-> ROLE_ADMIN,
   UNKNOWN |-> ROLE_ADMIN + 1]
Commands == DOMAIN permission_matrix

\* A check that compares with the matrix the wrong way round.
mutRbacCheck(role, cmd) == role <= permission_matrix[cmd] /\ cmd # "UNKNOWN"

rbac_check(role, cmd) == role >= permission_matrix[cmd]

VARIABLES
  users,      \* the users table in scan order; the id of an account is its index
  events,     \* the events table: organizer_id and is_deleted
  sessions,   \* auth->sessions
  active,     \* active_connections of the shared statistics
  handler,    \* where the handler of each connection is
  fd,         \* its descriptor
  slot,       \* its session pointer
  args,       \* the arguments of the command it executes
  booted,     \* auth_bootstrap_admin has run
  faults,
  acct,       \* history: the account this connection logged in to, 0 if none
  removedBy   \* history: who deleted an event

vars == <<users, events, sessions, active, handler, fd, slot, args, booted, faults,
          acct, removedBy>>

session_init(f) == [fd |-> f, user |-> 0, role |-> ROLE_GUEST, auth |-> FALSE]
FreeSession == session_init(NoFd)
NoArgs == [name |-> NoName, role |-> ROLE_GUEST, id |-> 0]

\* The shapes of sessions, tables and handlers; active_connections never wraps
\* below zero.
TypeOK ==
  /\ users \in Seq([name : Names, role : Roles, by : Roles])
  /\ events \in Seq([org : 0 .. MaxUsers, deleted : BOOLEAN])
  /\ sessions \in [Slots -> [fd : Fds \cup {NoFd}, user : 0 .. MaxUsers, role : Roles, auth : BOOLEAN]]
  /\ active \in 0 .. Cardinality(Conns)
  /\ handler \in [Conns -> {"none", "accepted", "start", "ready", "register", "login",
                            "delete", "cleanup", "leaving", "full", "closed"}]
  /\ fd \in [Conns -> Fds \cup {NoFd}]
  /\ slot \in [Conns -> Slots \cup {NoSlot}]
  /\ args \in [Conns -> [name : Names \cup {NoName}, role : Roles, id : 0 .. MaxUsers + MaxEvents]]
  /\ booted \in BOOLEAN /\ faults \in 0 .. MaxFaults
  /\ acct \in [Conns -> 0 .. MaxUsers]

Init ==
  /\ users \in {<<>>, <<[name |-> AdminName, role |-> ROLE_ADMIN, by |-> ROLE_ADMIN]>>}
  /\ events = <<>>
  /\ sessions = [s \in Slots |-> FreeSession]
  /\ active = 0
  /\ handler = [c \in Conns |-> "none"]
  /\ fd = [c \in Conns |-> NoFd]
  /\ slot = [c \in Conns |-> NoSlot]
  /\ args = [c \in Conns |-> NoArgs]
  /\ booted = FALSE /\ faults = 0
  /\ acct = [c \in Conns |-> 0]
  /\ removedBy = {}

UnchangedHistory == UNCHANGED <<acct, removedBy>>
UnchangedTables == UNCHANGED <<users, events>>

\* auth_bootstrap_admin, before the first connection; its insert may fail.
auth_bootstrap_admin ==
  /\ ~booted
  /\ booted' = TRUE
  /\ \/ users # <<>> /\ UNCHANGED <<users, faults>>
     \/ /\ users = <<>>
        /\ users' = <<[name |-> AdminName, role |-> ROLE_ADMIN, by |-> ROLE_ADMIN]>>
        /\ UNCHANGED faults
     \/ /\ users = <<>> /\ faults < MaxFaults
        /\ faults' = faults + 1
        /\ UNCHANGED users
  /\ UNCHANGED <<events, sessions, active, handler, fd, slot, args>>
  /\ UnchangedHistory
-----------------------------------------------------------------------------
(* The life of a connection                                                *)

Move(c, from, to) == handler[c] = from /\ handler' = [handler EXCEPT ![c] = to]

\* As many sessions as the semaphore of tcp_server.c has slots.
MAX_CONNECTIONS == Cardinality(Slots)

\* An accept loop that waits for no slot of the semaphore.
mutAccept(c) ==
  /\ booted
  /\ Move(c, "none", "accepted")
  /\ \E f \in Fds \ {fd[d] : d \in Conns} : fd' = [fd EXCEPT ![c] = f]
  /\ UnchangedTables /\ UnchangedHistory
  /\ UNCHANGED <<sessions, active, slot, args, booted, faults>>

\* accept: the semaphore lets the loop go on, the kernel picks a descriptor that
\* is not open.  (How the semaphore counts is TcpServer's matter.)
Accept(c) ==
  /\ booted
  /\ Cardinality({d \in Conns : fd[d] # NoFd}) < MAX_CONNECTIONS
  /\ Move(c, "none", "accepted")
  /\ \E f \in Fds \ {fd[d] : d \in Conns} : fd' = [fd EXCEPT ![c] = f]
  /\ UnchangedTables /\ UnchangedHistory
  /\ UNCHANGED <<sessions, active, slot, args, booted, faults>>

\* A handler that does not count its connection.
mutHandlerStarts(c) ==
  /\ Move(c, "accepted", "start")
  /\ UnchangedTables /\ UnchangedHistory
  /\ UNCHANGED <<sessions, active, fd, slot, args, booted, faults>>

\* client_handler counts the connection.
HandlerStarts(c) ==
  /\ Move(c, "accepted", "start")
  /\ active' = active + 1
  /\ UnchangedTables /\ UnchangedHistory
  /\ UNCHANGED <<sessions, fd, slot, args, booted, faults>>

FreeSlots == {s \in Slots : sessions[s].fd = NoFd}

\* auth_create_session takes the first free slot; without one it returns NULL and
\* the handler turns the client away, "Server full".
auth_create_session(c) ==
  /\ Move(c, "start", IF FreeSlots # {} THEN "ready" ELSE "full")
  /\ LET s == CHOOSE s \in FreeSlots : \A r \in FreeSlots : s <= r
     IN  IF FreeSlots # {}
         THEN /\ sessions' = [sessions EXCEPT ![s] = session_init(fd[c])]
              /\ slot' = [slot EXCEPT ![c] = s]
         ELSE UNCHANGED <<sessions, slot>>
  /\ UnchangedTables /\ UnchangedHistory
  /\ UNCHANGED <<active, fd, args, booted, faults>>

Session(c) == sessions[slot[c]]

\* The slot of a descriptor: the search of auth_login, auth_logout and
\* auth_remove_session.
SlotsOf(f) == {s \in Slots : sessions[s].fd = f}

\* QUIT, a lost connection, g_shutdown, or no memory for the response.
HandlerEnds(c) ==
  /\ Move(c, "ready", "cleanup")
  /\ UnchangedTables /\ UnchangedHistory
  /\ UNCHANGED <<sessions, active, fd, slot, args, booted, faults>>

\* A cleanup that leaves the session behind.
mutAuthRemoveSession(c) ==
  /\ Move(c, "cleanup", "leaving")
  /\ slot' = [slot EXCEPT ![c] = NoSlot]
  /\ acct' = [acct EXCEPT ![c] = 0]
  /\ UnchangedTables
  /\ UNCHANGED <<sessions, active, fd, args, booted, faults, removedBy>>

auth_remove_session(c) ==
  /\ Move(c, "cleanup", "leaving")
  /\ sessions' = [s \in Slots |-> IF s \in SlotsOf(fd[c]) THEN FreeSession ELSE sessions[s]]
  /\ slot' = [slot EXCEPT ![c] = NoSlot]
  /\ acct' = [acct EXCEPT ![c] = 0]
  /\ UnchangedTables
  /\ UNCHANGED <<active, fd, args, booted, faults, removedBy>>

\* A handler that forgets its count on the way out.
mutClose(c) ==
  /\ \E from \in {"leaving", "full"} : Move(c, from, "closed")
  /\ fd' = [fd EXCEPT ![c] = NoFd]
  /\ UnchangedTables /\ UnchangedHistory
  /\ UNCHANGED <<sessions, active, slot, args, booted, faults>>

\* stats_dec_connections; the handler returns and client_task_wrapper closes the
\* descriptor, of a client that was turned away too.
Close(c) ==
  /\ \E from \in {"leaving", "full"} : Move(c, from, "closed")
  /\ active' = active - 1
  /\ fd' = [fd EXCEPT ![c] = NoFd]
  /\ UnchangedTables /\ UnchangedHistory
  /\ UNCHANGED <<sessions, slot, args, booted, faults>>
-----------------------------------------------------------------------------
(* Commands                                                                *)

\* The loop of client_handler: a parsed command passes rbac_check.  Commands that
\* only read, and those of BookingEngine, change nothing here.
Permitted(c, cmd) ==
  /\ handler[c] = "ready"
  /\ rbac_check(Session(c).role, cmd)

Taken(n) == {i \in DOMAIN users : users[i].name = n}

\* Any caller may create organizers.
mutMayRegister(c, role) == TRUE

MayRegister(c, role) == role = ROLE_ORGANIZER => Session(c).role = ROLE_ADMIN

\* REGISTER up to the scan of auth_register; a taken name ends it.
RegisterScans(c, n, role) ==
  /\ Permitted(c, "REGISTER")
  /\ MayRegister(c, role)
  /\ Taken(n) = {}
  /\ Move(c, "ready", "register")
  /\ args' = [args EXCEPT ![c] = [name |-> n, role |-> role, id |-> 0]]
  /\ UnchangedTables
  /\ UNCHANGED <<sessions, active, fd, slot, booted, faults, acct, removedBy>>

\* The insert of auth_register, which may fail.
RegisterInserts(c) ==
  /\ Move(c, "register", "ready")
  /\ \/ /\ Len(users) < MaxUsers
        /\ users' = Append(users, [name |-> args[c].name, role |-> args[c].role,
                                   by |-> IF acct[c] = 0 THEN ROLE_GUEST ELSE users[acct[c]].role])
        /\ UNCHANGED faults
     \/ /\ faults < MaxFaults
        /\ faults' = faults + 1
        /\ UNCHANGED users
  /\ args' = [args EXCEPT ![c] = NoArgs]
  /\ UnchangedHistory
  /\ UNCHANGED <<events, sessions, active, fd, slot, booted>>

\* The last row of a name.
mutFirstRow(n) == CHOOSE i \in Taken(n) : \A j \in Taken(n) : i >= j

\* table_scan with room for one record: the first row of the name.
FirstRow(n) == CHOOSE i \in Taken(n) : \A j \in Taken(n) : i <= j

\* LOGIN up to the scan and the password check; the first row of a name counts.
LoginScans(c, n) ==
  /\ Permitted(c, "LOGIN")
  /\ ~Session(c).auth
  /\ Taken(n) # {}
  /\ Move(c, "ready", "login")
  /\ args' = [args EXCEPT ![c] = [name |-> n, role |-> ROLE_GUEST, id |-> FirstRow(n)]]
  /\ UnchangedTables
  /\ UNCHANGED <<sessions, active, fd, slot, booted, faults, acct, removedBy>>

\* The section of auth_login that fills in the session of the descriptor.
LoginUpdates(c) ==
  /\ Move(c, "login", "ready")
  /\ LET id == args[c].id
     IN  /\ sessions' = [s \in Slots |->
              IF s \in SlotsOf(fd[c])
              THEN [fd |-> fd[c], user |-> id, role |-> users[id].role, auth |-> TRUE]
              ELSE sessions[s]]
         /\ acct' = [acct EXCEPT ![c] = IF SlotsOf(fd[c]) = {} THEN 0 ELSE id]
  /\ args' = [args EXCEPT ![c] = NoArgs]
  /\ UnchangedTables
  /\ UNCHANGED <<active, fd, slot, booted, faults, removedBy>>

Logout(c) ==
  /\ Permitted(c, "LOGOUT")
  /\ \E s \in SlotsOf(fd[c]) :
       /\ sessions[s].auth
       /\ sessions' = [sessions EXCEPT ![s] = session_init(fd[c])]
  /\ acct' = [acct EXCEPT ![c] = 0]
  /\ UnchangedTables
  /\ UNCHANGED <<active, handler, fd, slot, args, booted, faults, removedBy>>

\* CREATE_EVENT, as far as it matters who owns the event.
CreateEvent(c) ==
  /\ Permitted(c, "CREATE_EVENT")
  /\ Len(events) < MaxEvents
  /\ events' = Append(events, [org |-> Session(c).user, deleted |-> FALSE])
  /\ UNCHANGED <<users, sessions, active, handler, fd, slot, args, booted, faults, acct, removedBy>>

\* DELETE_EVENT without the test of the owner.
mutMayDelete(c, e) == TRUE

MayDelete(c, e) == Session(c).role = ROLE_ADMIN \/ events[e].org = Session(c).user

DeleteReads(c, e) ==
  /\ Permitted(c, "DELETE_EVENT")
  /\ ~events[e].deleted
  /\ MayDelete(c, e)
  /\ Move(c, "ready", "delete")
  /\ args' = [args EXCEPT ![c] = [NoArgs EXCEPT !.id = e]]
  /\ UnchangedTables
  /\ UNCHANGED <<sessions, active, fd, slot, booted, faults, acct, removedBy>>

\* event_mgr_delete_event: not found if another handler was faster.
DeleteDeletes(c) ==
  /\ Move(c, "delete", "ready")
  /\ LET e == args[c].id
     IN  /\ events' = [events EXCEPT ![e].deleted = TRUE]
         /\ removedBy' = IF events[e].deleted THEN removedBy ELSE removedBy \cup {<<e, acct[c]>>}
  /\ args' = [args EXCEPT ![c] = NoArgs]
  /\ UNCHANGED <<users, sessions, active, fd, slot, booted, faults, acct>>

-----------------------------------------------------------------------------
ConnStep(c) ==
  \/ Accept(c) \/ HandlerStarts(c) \/ auth_create_session(c)
  \/ HandlerEnds(c) \/ auth_remove_session(c) \/ Close(c)
  \/ \E n \in Names, role \in {ROLE_CUSTOMER, ROLE_ORGANIZER} : RegisterScans(c, n, role)
  \/ RegisterInserts(c)
  \/ \E n \in Names : LoginScans(c, n)
  \/ LoginUpdates(c) \/ Logout(c)
  \/ CreateEvent(c)
  \/ \E e \in DOMAIN events : DeleteReads(c, e)
  \/ DeleteDeletes(c)

Next == auth_bootstrap_admin \/ \E c \in Conns : ConnStep(c)

Spec == Init /\ [][Next]_vars
-----------------------------------------------------------------------------
(* Properties                                                              *)

InSession == {c \in Conns : handler[c] \in {"ready", "register", "login", "delete", "cleanup"}}

(* The session a handler works with is its own: its slot is the only one with *)
(* its descriptor, and holds the account that was logged in to on this very    *)
(* connection, with that account's role, although descriptors and slots are    *)
(* used again for later connections.  Two REGISTERs that both find a name free *)
(* both insert it (auth.c:155); the later row is never logged in to, so a name  *)
(* still stands for one account.                                                *)
SessionIsOwn ==
  /\ TypeOK
  /\ \A c \in InSession :
       /\ SlotsOf(fd[c]) = {slot[c]}
       /\ Session(c).user = acct[c]
       /\ Session(c).role = (IF acct[c] = 0 THEN ROLE_GUEST ELSE users[acct[c]].role)
       /\ Session(c).auth <=> acct[c] # 0
       /\ acct[c] # 0 => \A i \in 1 .. acct[c] - 1 : users[i].name # users[acct[c]].name

(* A client that the semaphore of tcp_server.c let in is never turned away     *)
(* with "Server full" (main.c:162): every handler finds a slot, because none   *)
(* stays taken after its connection, and active_connections is the number of   *)
(* handlers at work, on every way out.                                         *)
EveryHandlerFindsASlot ==
  /\ \A c \in Conns : handler[c] # "full"
  /\ Cardinality(FreeSlots) = Cardinality(Slots) - Cardinality(InSession)
  /\ active = Cardinality({c \in Conns : handler[c] \notin {"none", "accepted", "closed"}})

(* Nobody acts above his role: organizer accounts are created on connections   *)
(* of an admin only, events belong to organizers or admins, and an event is    *)
(* deleted once, by the account that created it or by an admin, whatever else  *)
(* happens between the check of a handler and its table call.                  *)
RolesAreRespected ==
  /\ \A i \in DOMAIN users : users[i].role = ROLE_ORGANIZER => users[i].by = ROLE_ADMIN
  /\ \A e \in DOMAIN events : events[e].org # 0 /\ users[events[e].org].role >= ROLE_ORGANIZER
  /\ \A r \in removedBy : \/ r[2] = events[r[1]].org
                          \/ r[2] # 0 /\ users[r[2]].role = ROLE_ADMIN
  /\ \A q, r \in removedBy : q[1] = r[1] => q = r
=============================================================================
