------------------------------- MODULE Events -------------------------------
(***************************************************************************)
(* Events, their seats and the revenue reports: CREATE_EVENT, DELETE_EVENT,*)
(* VIEW_SEATS and REVENUE of server/main.c with server/core/event_mgr.c    *)
(* and server/core/reports.c behind them.  Every table call is one step,   *)
(* so commands of other clients run between the event row and its seats,   *)
(* and between the two reads of a report.  A call may fail where table.c   *)
(* fails it: an insertion may leave nothing or a row without index entry,  *)
(* a look-up may fail, a scan passes over the rows of pages it cannot      *)
(* fetch.  What is in a table stays there: that a page may be lost when it *)
(* cannot be written is in Table.                                          *)
(***************************************************************************)
EXTENDS Integers, Sequences, FiniteSets, SequencesExt

CONSTANTS
  Clients,             \* organizers and admins, each with one command at a time
  Admins,
  RowArgs, SeatArgs,   \* the numbers given for rows and seats per row; their
                       \* product, computed as an int, does not overflow
  MAX_SEAT_ROWS,
  MAX_SEATS_PER_ROW,
  MaxSeats,            \* max_seats, the seats a scan has room for
  MaxOwn,              \* events, the events of an organizer a scan has room for
  MaxReports,          \* revs, the reports an answer has room for
  Idle,
  MaxEvents,           \* bound on events
  MaxExtras            \* bound on bookings of a seat and failing calls together

ASSUME HallAssumption == MaxSeats = MAX_SEAT_ROWS * MAX_SEATS_PER_ROW

ASSUME BoundsAssumption ==
  /\ MAX_SEAT_ROWS \in Nat /\ MAX_SEATS_PER_ROW \in Nat /\ MaxEvents \in Nat /\ MaxExtras \in Nat
  /\ RowArgs \subseteq Int /\ SeatArgs \subseteq Int

VARIABLES
  events,    \* the events table: organizer, total_rows, seats_per_row, is_deleted
  seats,     \* the seats table: event, row, number, whether it is booked and indexed
  cmd,       \* per client, the command under way
  created,   \* the events whose CREATE_EVENT was answered
  reports,   \* the reports collected for the answer to each client
  stats,     \* total_events and active_events
  faults,    \* seat insertions that failed
  extras     \* bookings and other calls that failed

vars == <<events, seats, cmd, created, reports, stats, faults, extras>>

Init ==
  /\ events = <<>> /\ seats = <<>>
  /\ cmd = [c \in Clients |-> Idle]
  /\ created = {}
  /\ reports = [c \in Clients |-> {}]
  /\ stats = [total_events |-> 0, active_events |-> 0]
  /\ faults = 0 /\ extras = 0

\* (uint16_t)atoi(arg)
uint16(arg) == arg % 65536

\* A check that forgets the rows.
mutValidHall(rows, per_row) == per_row \in 1 .. MAX_SEATS_PER_ROW

ValidHall(rows, per_row) == rows \in 1 .. MAX_SEAT_ROWS /\ per_row \in 1 .. MAX_SEATS_PER_ROW

\* CREATE_EVENT up to the event row: the arguments become 16-bit numbers, are
\* checked, and table_insert gives the event its id.  (An event whose insertion
\* fails is not answered; a row it leaves has no index entry, so that no look-up
\* finds it.)
CreateEvent(c, r, p) ==
  /\ cmd[c] = Idle /\ Len(events) < MaxEvents
  /\ ValidHall(uint16(r), uint16(p))
  /\ events' = Append(events, [organizer |-> c, total_rows |-> uint16(r),
                               seats_per_row |-> uint16(p), is_deleted |-> FALSE])
  /\ cmd' = [cmd EXCEPT ![c] = [name |-> "create", event |-> Len(events) + 1,
                                row |-> 0, snum |-> 1]]
  /\ UNCHANGED <<seats, created, reports, stats, faults, extras>>

Creating(c) == cmd[c] # Idle /\ cmd[c].name = "create"

\* A seat loop that starts every row but the first with its last seat.
mutNextSeat(k, evt) ==
  IF k.snum < evt.seats_per_row THEN [k EXCEPT !.snum = @ + 1]
  ELSE [k EXCEPT !.row = @ + 1, !.snum = evt.seats_per_row]

\* A seat loop that goes one seat too far in every row.
mutNextSeatLong(k, evt) ==
  IF k.snum <= evt.seats_per_row THEN [k EXCEPT !.snum = @ + 1]
  ELSE [k EXCEPT !.row = @ + 1, !.snum = 1]

\* The two loops over rows and seat numbers.
NextSeat(k, evt) ==
  IF k.snum < evt.seats_per_row THEN [k EXCEPT !.snum = @ + 1]
  ELSE [k EXCEPT !.row = @ + 1, !.snum = 1]

\* table_insert of one seat.  A seat that fails is passed over: it may have got
\* nowhere, or as far as its page but not into the index.
InsertSeat(c, outcome) ==
  /\ Creating(c) /\ cmd[c].row < events[cmd[c].event].total_rows
  /\ outcome # "ok" => faults + extras < MaxExtras
  /\ faults' = IF outcome = "ok" THEN faults ELSE faults + 1
  /\ seats' = IF outcome = "nothing" THEN seats
              ELSE Append(seats, [event |-> cmd[c].event, row |-> cmd[c].row, snum |-> cmd[c].snum,
                                  booked |-> FALSE, indexed |-> outcome = "ok"])
  /\ cmd' = [cmd EXCEPT ![c] = NextSeat(@, events[@.event])]
  /\ UNCHANGED <<events, created, reports, stats, extras>>

\* The answer, then stats_inc_events.
CreateAnswer(c) ==
  /\ Creating(c) /\ cmd[c].row >= events[cmd[c].event].total_rows
  /\ created' = created \cup {cmd[c].event}
  /\ stats' = [total_events |-> stats.total_events + 1, active_events |-> stats.active_events + 1]
  /\ cmd' = [cmd EXCEPT ![c] = Idle]
  /\ UNCHANGED <<events, seats, reports, faults, extras>>

\* DELETE_EVENT: look the event up and check its owner, then table_delete, which
\* fails when another client has been faster.
DeleteFind(c, e) ==
  /\ cmd[c] = Idle
  /\ ~events[e].is_deleted /\ (events[e].organizer = c \/ c \in Admins)
  /\ cmd' = [cmd EXCEPT ![c] = [name |-> "delete", event |-> e]]
  /\ UNCHANGED <<events, seats, created, reports, stats, faults, extras>>

DeleteEvent(c) ==
  /\ cmd[c] # Idle /\ cmd[c].name = "delete"
  /\ events' = [events EXCEPT ![cmd[c].event].is_deleted = TRUE]
  /\ cmd' = [cmd EXCEPT ![c] = Idle]
  /\ UNCHANGED <<seats, created, reports, stats, faults, extras>>

\* booking_engine.c marks a seat that it finds by its id as booked; it looked the
\* event up before, which may be deleted by now.
BookSeat(i) ==
  /\ faults + extras < MaxExtras
  /\ seats[i].indexed /\ ~seats[i].booked
  /\ seats' = [seats EXCEPT ![i].booked = TRUE]
  /\ extras' = extras + 1
  /\ UNCHANGED <<events, cmd, created, reports, stats, faults>>
-----------------------------------------------------------------------------
(* Reports                                                                 *)

\* A look-up or scan that meets a page it cannot fetch, or no memory.
ReadFails(bad) ==
  /\ bad => faults + extras < MaxExtras
  /\ extras' = IF bad THEN extras + 1 ELSE extras

\* The rows table_scan copies, in the order of the table, while fewer than n are found.
FirstOf(hits, n) == {i \in hits : Cardinality({j \in hits : j < i}) < n}

Hits(e) == {i \in DOMAIN seats : seats[i].event = e}

\* table_scan of the seats of an event, with room for MaxSeats, as VIEW_SEATS
\* and reports_event_revenue call it; the rows in unread are on pages that cannot
\* be fetched.  The mutant has no room for the last seat.
mutSeatsOf(e, unread) == FirstOf(Hits(e) \ unread, MaxSeats - 1)

SeatsOf(e, unread) == FirstOf(Hits(e) \ unread, MaxSeats)

Report(todo) == [name |-> "report", todo |-> todo, found |-> FALSE, complete |-> FALSE]

\* REVENUE with an event.
RevenueOfEvent(c, e) ==
  /\ cmd[c] = Idle
  /\ cmd' = [cmd EXCEPT ![c] = Report(<<e>>)]
  /\ UNCHANGED <<events, seats, created, reports, stats, faults, extras>>

\* REVENUE without: the events of the organizer are scanned first, without those
\* on pages that cannot be fetched and as far as there is room.
RevenueOfOrganizer(c, unread) ==
  /\ cmd[c] = Idle
  /\ ReadFails(unread # {})
  /\ LET own == FirstOf({e \in DOMAIN events \ unread :
                          ~events[e].is_deleted /\ events[e].organizer = c}, MaxOwn)
     IN  /\ own # {}
         /\ cmd' = [cmd EXCEPT ![c] = Report(SetToSortSeq(own, <))]
  /\ UNCHANGED <<events, seats, created, reports, stats, faults>>

Reporting(c) == cmd[c] # Idle /\ cmd[c].name = "report"

\* reports_event_revenue looks the event up and allocates room for its seats; an
\* event that is gone, or for which this fails, is left out.  The flag notes, for
\* the property, that the creation had been answered.
RevenueFind(c, fails) ==
  /\ Reporting(c) /\ cmd[c].todo # <<>> /\ ~cmd[c].found
  /\ Cardinality(reports[c]) < MaxReports
  /\ ReadFails(fails)
  /\ LET e == Head(cmd[c].todo)
     IN  cmd' = [cmd EXCEPT ![c] =
           IF fails \/ events[e].is_deleted THEN [@ EXCEPT !.todo = Tail(cmd[c].todo)]
           ELSE [@ EXCEPT !.found = TRUE, !.complete = e \in created]]
  /\ UNCHANGED <<events, seats, created, reports, stats, faults>>

\* and counts its seats; the rows it could not read are noted for the property.
RevenueScan(c) ==
  /\ Reporting(c) /\ cmd[c].found
  /\ LET e == Head(cmd[c].todo)
     IN  \E unread \in SUBSET Hits(e) :
           /\ ReadFails(unread # {})
           /\ reports' = [reports EXCEPT ![c] = @ \cup
                {[event |-> e, total |-> Cardinality(SeatsOf(e, unread)),
                  booked |-> Cardinality({i \in SeatsOf(e, unread) : seats[i].booked}),
                  missed |-> Cardinality(unread), complete |-> cmd[c].complete]}]
  /\ cmd' = [cmd EXCEPT ![c] = Report(Tail(@.todo))]
  /\ UNCHANGED <<events, seats, created, stats, faults>>

\* The answer is formatted when all events are done or there is no more room.
RevenueAnswer(c) ==
  /\ Reporting(c) /\ ~cmd[c].found
  /\ cmd[c].todo = <<>> \/ Cardinality(reports[c]) = MaxReports
  /\ cmd' = [cmd EXCEPT ![c] = Idle]
  /\ reports' = [reports EXCEPT ![c] = {}]
  /\ UNCHANGED <<events, seats, created, stats, faults, extras>>

Next ==
  \/ \E c \in Clients :
       \/ \E r \in RowArgs, p \in SeatArgs : CreateEvent(c, r, p)
       \/ \E outcome \in {"ok", "nothing", "row"} : InsertSeat(c, outcome)
       \/ CreateAnswer(c)
       \/ \E e \in DOMAIN events : DeleteFind(c, e) \/ RevenueOfEvent(c, e)
       \/ DeleteEvent(c)
       \/ \E unread \in SUBSET DOMAIN events : RevenueOfOrganizer(c, unread)
       \/ \E fails \in BOOLEAN : RevenueFind(c, fails)
       \/ RevenueScan(c)
       \/ RevenueAnswer(c)
  \/ \E i \in DOMAIN seats : BookSeat(i)

Spec == Init /\ [][Next]_vars
-----------------------------------------------------------------------------
(* Properties                                                              *)

\* Halls are within the limits of config.h, whatever numbers were given.
TypeOK ==
  /\ events \in Seq([organizer : Clients, total_rows : 1 .. MAX_SEAT_ROWS,
                     seats_per_row : 1 .. MAX_SEATS_PER_ROW, is_deleted : BOOLEAN])
  /\ seats \in Seq([event : 1 .. MaxEvents, row : 0 .. MAX_SEAT_ROWS - 1,
                    snum : 1 .. MAX_SEATS_PER_ROW, booked : BOOLEAN, indexed : BOOLEAN])
  /\ created \subseteq DOMAIN events
  /\ extras \in 0 .. MaxExtras /\ faults \in 0 .. MaxExtras

Hall(e) == (0 .. events[e].total_rows - 1) \X (1 .. events[e].seats_per_row)
Places(e) == {<<seats[i].row, seats[i].snum>> : i \in Hits(e)}

\* event_mgr.h: event_mgr_create_event "Generates (total_rows x seats_per_row)
\* seat records": once it is answered, every place of the hall has one seat, but
\* the ones whose insertion failed, which the loop passes over.  No place is sold
\* under two seat ids, however the insertions of two organizers interleave.
CreatedEventsHaveAllSeats ==
  /\ TypeOK
  /\ \A e \in created :
       Places(e) \subseteq Hall(e) /\ Cardinality(Hall(e) \ Places(e)) <= faults
  /\ \A i, j \in DOMAIN seats :
       i # j => <<seats[i].event, seats[i].row, seats[i].snum>> #
                <<seats[j].event, seats[j].row, seats[j].snum>>

\* A report on an event whose creation was answered before the report looked it
\* up counts all its seats but those on pages that could not be read, also of the
\* largest hall: the 2600 places of the buffer are 26 rows of 100, and a deletion,
\* a booking or another creation in between takes no seat away and adds none.
ReportsShowTheWholeHall ==
  \A c \in Clients : \A r \in reports[c] :
    r.complete => r.total + r.missed = Cardinality(Places(r.event)) /\ r.booked <= r.total
=============================================================================
