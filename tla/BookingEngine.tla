--------------------------- MODULE BookingEngine ---------------------------
(***************************************************************************)
(* server/core/booking_engine.c: booking_book_seats and booking_cancel, as *)
(* the worker threads run them for the BOOK and CANCEL commands of main.c, *)
(* and the deletion of events that races with them.  A step is one call of *)
(* a table (atomic under storage_mutex) or of the transaction manager,     *)
(* which is used through its abstract specification, TwoPhase.  A seat is  *)
(* read and written back in one step: only the thread that has locked a    *)
(* seat writes it (SeatsKeepTheirOwner).                                   *)
(*                                                                         *)
(* Not modelled: prices and timestamps, which decide nothing here.         *)
(***************************************************************************)
EXTENDS Naturals, Sequences, FiniteSets, FiniteSetsExt, SequencesExt

CONSTANTS Worker,           \* the worker threads
          User,             \* the customers
          Event,            \* the events in the events table
          SeatEvent,        \* the event of each seat in the seats table
          SeatId,           \* the seat ids that clients ask for
          Args,             \* the seat lists of BOOK commands
          MaxSeatsPerBooking,   \* MAX_SEATS_PER_BOOKING
          MaxActiveTxns,        \* MAX_ACTIVE_TXNS
          NULL,             \* no user, no event
          MaxCommands,      \* bound: commands in a behaviour
          MaxFaults         \* bound: calls that fail for want of memory or disk

Seat == DOMAIN SeatEvent

ASSUME BookingConstants ==
    /\ NULL \notin User \cup Event
    /\ SeatId \subseteq Nat /\ IsFiniteSet(SeatId)
    /\ Seat \subseteq SeatId \ {0} /\ SeatEvent \in [Seat -> Event]
    /\ Args \subseteq Seq(SeatId)
    /\ MaxSeatsPerBooking \in Nat /\ MaxActiveTxns \in Nat
    /\ MaxCommands \in Nat /\ MaxFaults \in Nat

BookingId == 1..MaxCommands
Record == ({"seats"} \X SeatId) \cup ({"bookings"} \X BookingId)

VARIABLES events,           \* the events that are not deleted
          seats,            \* the seats table: status and booked_by
          bookings,         \* the bookings table
          next_booking_id,
          booking_seats,    \* the junction table: pairs of booking and seat
          held, phase,      \* the record locks and the transactions
          pc, my,           \* where each worker is, and its local variables
          acked,            \* the seats each BOOK answered with OK has named
          cancels,          \* of each booking: how many CANCELs were answered with OK,
                            \* and whether one came before the reply to its BOOK
          issued, faults    \* what the bounds count

tables == <<events, seats, bookings, next_booking_id, booking_seats>>
vars == <<tables, held, phase, pc, my, acked, cancels, issued, faults>>

TP == INSTANCE TwoPhase WITH Thread <- Worker

FreeSeat == [status |-> "AVAILABLE", booked_by |-> NULL]
NoBooking == [user |-> NULL, seat_count |-> 0, status |-> "none"]
Idle == [op |-> "none", user |-> NULL, event |-> NULL, bid |-> 0,
         seats |-> {}, todo |-> {}, ok |-> FALSE]

Init ==
    /\ events = Event
    /\ seats = [s \in Seat |-> FreeSeat]
    /\ bookings = [b \in BookingId |-> NoBooking]
    /\ next_booking_id = 1
    /\ booking_seats = {}
    /\ TP!Init
    /\ pc = [w \in Worker |-> "idle"] /\ my = [w \in Worker |-> Idle]
    /\ acked = [b \in BookingId |-> {}] /\ cancels = [b \in BookingId |-> [ok |-> 0, early |-> FALSE]]
    /\ issued = 0 /\ faults = 0

-----------------------------------------------------------------------------
goto(w, l) == pc' = [pc EXCEPT ![w] = l]

mutLowestIsAny(s, S) == s \in S

\* The next seat of a loop: the seat ids have been sorted.
Lowest(s, S) == s \in S /\ \A x \in S : s <= x

mutIterateStopsEarly(w, s, l, after) ==
    IF Cardinality(my[w].todo) <= 2 THEN /\ goto(w, after)
                                         /\ my' = [my EXCEPT ![w].todo = my[w].seats]
                                    ELSE /\ goto(w, l)
                                         /\ my' = [my EXCEPT ![w].todo = @ \ {s}]

\* The end of a loop body for seat s: once more from l, or, after the last
\* seat, on to `after' with the list of seats to start over with.
Iterate(w, s, l, after) ==
    IF my[w].todo = {s} THEN /\ goto(w, after)
                             /\ my' = [my EXCEPT ![w].todo = my[w].seats]
                        ELSE /\ goto(w, l)
                             /\ my' = [my EXCEPT ![w].todo = @ \ {s}]

SeatRecord(s) == <<"seats", s>>
BookingRecord(b) == <<"bookings", b>>

-----------------------------------------------------------------------------
(* A command arrives, a transaction begins.                                *)

\* The handler of BOOK passes on no more than MAX_SEATS_PER_BOOKING seats.
Capped(args) == SubSeq(args, 1, Min({Len(args), MaxSeatsPerBooking}))

ValidSeats(ids) == ids # <<>> /\ 0 \notin ToSet(ids) /\ IsInjective(ids)

\* The BOOK handler, and booking_book_seats up to the lookup of the event.
Book(w, u, e, args) ==
    /\ pc[w] = "idle" /\ issued < MaxCommands
    /\ issued' = issued + 1
    /\ IF ValidSeats(Capped(args)) /\ e \in events
         THEN goto(w, "begin") /\ my' = [my EXCEPT ![w] =
                [Idle EXCEPT !.op = "book", !.user = u, !.event = e,
                             !.seats = ToSet(Capped(args)), !.todo = ToSet(Capped(args))]]
         ELSE goto(w, "reply") /\ UNCHANGED my
    /\ UNCHANGED <<tables, held, phase, acked, cancels, faults>>

\* The CANCEL handler.
Cancel(w, u, b) ==
    /\ pc[w] = "idle" /\ issued < MaxCommands
    /\ issued' = issued + 1
    /\ my' = [my EXCEPT ![w] = [Idle EXCEPT !.op = "cancel", !.user = u, !.bid = b]]
    /\ cancels' = [cancels EXCEPT ![b].early = @ \/ acked[b] = {}]
    /\ goto(w, "begin")
    /\ UNCHANGED <<tables, held, phase, acked, faults>>

\* event_mgr_delete_event: the seats and bookings of the event stay.
DeleteEvent(w, e) ==
    /\ pc[w] = "idle" /\ issued < MaxCommands /\ e \in events
    /\ issued' = issued + 1
    /\ events' = events \ {e}
    /\ UNCHANGED <<seats, bookings, next_booking_id, booking_seats, held, phase, pc, my, acked, cancels, faults>>

Begin(w) ==
    /\ pc[w] = "begin"
    /\ TP!Begin(w)
    /\ goto(w, IF my[w].op = "book" THEN "lock" ELSE "lock_booking")
    /\ UNCHANGED <<tables, my, acked, cancels, issued, faults>>

NoSlot(w) ==                \* txn_begin returns INVALID_TXN_ID
    /\ pc[w] = "begin" /\ ~TP!SlotIsFree
    /\ goto(w, "reply")
    /\ UNCHANGED <<tables, held, phase, my, acked, cancels, issued, faults>>

-----------------------------------------------------------------------------
(* booking_book_seats.                                                     *)

LockSeat(w, s) ==
    /\ pc[w] = "lock" /\ Lowest(s, my[w].todo)
    /\ TP!Lock(w, SeatRecord(s))
    /\ Iterate(w, s, "lock", "verify")
    /\ UNCHANGED <<tables, acked, cancels, issued, faults>>

mutBookableIgnoresStatus(w, s) == s \in Seat /\ SeatEvent[s] = my[w].event

Bookable(w, s) == s \in Seat /\ SeatEvent[s] = my[w].event /\ seats[s].status = "AVAILABLE"

VerifySeat(w, s) ==
    /\ pc[w] = "verify" /\ Lowest(s, my[w].todo)
    /\ IF Bookable(w, s) THEN Iterate(w, s, "verify", "insert")
                         ELSE goto(w, "abort") /\ UNCHANGED my
    /\ UNCHANGED <<tables, held, phase, acked, cancels, issued, faults>>

\* The row that table_insert adds to the bookings table, under the next id.
NewBooking(w) ==
    /\ bookings' = [bookings EXCEPT ![next_booking_id] =
          [user |-> my[w].user, seat_count |-> Cardinality(my[w].seats), status |-> "CONFIRMED"]]
    /\ next_booking_id' = next_booking_id + 1

InsertBooking(w) ==
    /\ pc[w] = "insert" /\ next_booking_id \in BookingId
    /\ NewBooking(w)
    /\ my' = [my EXCEPT ![w].bid = next_booking_id]
    /\ goto(w, "link")
    /\ UNCHANGED <<events, seats, booking_seats, held, phase, acked, cancels, issued, faults>>

\* The junction row of a seat ...
InsertBookingSeat(w, s) ==
    /\ pc[w] = "link" /\ Lowest(s, my[w].todo)
    /\ booking_seats' = booking_seats \cup {<<my[w].bid, s>>}
    /\ goto(w, "mark")
    /\ UNCHANGED <<events, seats, bookings, next_booking_id, held, phase, my, acked, cancels, issued, faults>>

\* ... and the seat itself.
MarkBooked(w, s) ==
    /\ pc[w] = "mark" /\ Lowest(s, my[w].todo)
    /\ seats' = [seats EXCEPT ![s] = [status |-> "BOOKED", booked_by |-> my[w].user]]
    /\ Iterate(w, s, "link", "commit")
    /\ UNCHANGED <<events, bookings, next_booking_id, booking_seats, held, phase, acked, cancels, issued, faults>>

-----------------------------------------------------------------------------
(* booking_cancel.                                                         *)

LockBooking(w) ==
    /\ pc[w] = "lock_booking"
    /\ TP!Lock(w, BookingRecord(my[w].bid))
    /\ goto(w, "check")
    /\ UNCHANGED <<tables, my, acked, cancels, issued, faults>>

mutMayCancelTwice(w, b) == bookings[b].status \in {"CONFIRMED", "CANCELLED"} /\ bookings[b].user = my[w].user
mutMayCancelOthers(w, b) == bookings[b].status = "CONFIRMED"

\* The booking is found, belongs to the user and is confirmed.
MayCancel(w, b) == bookings[b].status = "CONFIRMED" /\ bookings[b].user = my[w].user

CheckBooking(w) ==
    /\ pc[w] = "check"
    /\ goto(w, IF MayCancel(w, my[w].bid) THEN "scan" ELSE "abort")
    /\ UNCHANGED <<tables, held, phase, my, acked, cancels, issued, faults>>

\* The rows filter_booking_seats selects.
SeatsOf(b) == {s \in Seat : <<b, s>> \in booking_seats}

ScanBookingSeats(w) ==
    /\ pc[w] = "scan"
    /\ my' = [my EXCEPT ![w].seats = SeatsOf(my[w].bid), ![w].todo = SeatsOf(my[w].bid)]
    /\ goto(w, IF SeatsOf(my[w].bid) = {} THEN "cancel" ELSE "lock_seat")
    /\ UNCHANGED <<tables, held, phase, acked, cancels, issued, faults>>

LockBookedSeat(w, s) ==
    /\ pc[w] = "lock_seat" /\ Lowest(s, my[w].todo)
    /\ TP!Lock(w, SeatRecord(s))
    /\ goto(w, "free")
    /\ UNCHANGED <<tables, my, acked, cancels, issued, faults>>

mutReleaseSeatForgets(w, s) ==
    /\ pc[w] = "free" /\ Lowest(s, my[w].todo)
    /\ Iterate(w, s, "lock_seat", "cancel")
    /\ UNCHANGED <<tables, held, phase, acked, cancels, issued, faults>>

ReleaseSeat(w, s) ==
    /\ pc[w] = "free" /\ Lowest(s, my[w].todo)
    /\ seats' = [seats EXCEPT ![s] = FreeSeat]
    /\ Iterate(w, s, "lock_seat", "cancel")
    /\ UNCHANGED <<events, bookings, next_booking_id, booking_seats, held, phase, acked, cancels, issued, faults>>

MarkCancelled(w) ==
    /\ pc[w] = "cancel"
    /\ bookings' = [bookings EXCEPT ![my[w].bid].status = "CANCELLED"]
    /\ goto(w, "commit")
    /\ UNCHANGED <<events, seats, next_booking_id, booking_seats, held, phase, my, acked, cancels, issued, faults>>

-----------------------------------------------------------------------------
(* The end of a transaction and of a command.                              *)

Commit(w) ==
    /\ pc[w] = "commit"
    /\ TP!End(w)
    /\ my' = [my EXCEPT ![w].ok = TRUE]
    /\ goto(w, "release")
    /\ UNCHANGED <<tables, acked, cancels, issued, faults>>

Abort(w) ==                 \* releases the locks, undoes nothing
    /\ pc[w] = "abort"
    /\ TP!End(w)
    /\ goto(w, "release")
    /\ UNCHANGED <<tables, my, acked, cancels, issued, faults>>

Release(w, r) ==
    /\ pc[w] = "release"
    /\ TP!Unlock(w, r)
    /\ UNCHANGED <<tables, pc, my, acked, cancels, issued, faults>>

EndTxn(w) ==
    /\ pc[w] = "release"
    /\ TP!Finish(w)
    /\ goto(w, "reply")
    /\ UNCHANGED <<tables, my, acked, cancels, issued, faults>>

\* The client is sent OK or an error.
Reply(w) ==
    /\ pc[w] = "reply"
    /\ acked' = IF my[w].ok /\ my[w].op = "book" THEN [acked EXCEPT ![my[w].bid] = my[w].seats] ELSE acked
    /\ cancels' = IF my[w].ok /\ my[w].op = "cancel" THEN [cancels EXCEPT ![my[w].bid].ok = @ + 1] ELSE cancels
    /\ goto(w, "idle") /\ my' = [my EXCEPT ![w] = Idle]
    /\ UNCHANGED <<tables, held, phase, issued, faults>>

-----------------------------------------------------------------------------
(* Calls that fail.                                                        *)

\* A call that fails before it changes anything, txn_commit included, leads
\* to txn_abort.
CallFails(w) ==
    /\ pc[w] \in {"lock", "verify", "mark", "lock_booking", "check", "lock_seat", "free", "cancel", "commit"}
    /\ goto(w, "abort")
    /\ UNCHANGED <<tables, my>>

\* table_insert has used up an id, and may have put the row in its page, when
\* it fails.  A booking that is not in the index is found by scans only.
InsertBookingFails(w) ==
    /\ pc[w] = "insert" /\ next_booking_id \in BookingId
    /\ next_booking_id' = next_booking_id + 1
    /\ \/ UNCHANGED bookings
       \/ bookings' = [bookings EXCEPT ![next_booking_id] =
             [user |-> my[w].user, seat_count |-> Cardinality(my[w].seats), status |-> "unindexed"]]
    /\ goto(w, "abort")
    /\ UNCHANGED <<events, seats, booking_seats, my>>

InsertBookingSeatFails(w, s) ==
    /\ pc[w] = "link" /\ Lowest(s, my[w].todo)
    /\ booking_seats' \in {booking_seats, booking_seats \cup {<<my[w].bid, s>>}}
    /\ goto(w, "abort")
    /\ UNCHANGED <<events, seats, bookings, next_booking_id, my>>

\* table_scan passes over pages it cannot read; booking_cancel passes over a
\* seat it cannot find.
ScanMissesRows(w, S) ==
    /\ pc[w] = "scan"
    /\ my' = [my EXCEPT ![w].seats = S, ![w].todo = S]
    /\ goto(w, IF S = {} THEN "cancel" ELSE "lock_seat")
    /\ UNCHANGED tables

FindSeatFails(w, s) ==
    /\ pc[w] = "free" /\ Lowest(s, my[w].todo)
    /\ Iterate(w, s, "lock_seat", "cancel")
    /\ UNCHANGED tables

Fault(w) ==
    /\ faults < MaxFaults /\ faults' = faults + 1
    /\ \/ CallFails(w) \/ InsertBookingFails(w)
       \/ \E s \in SeatId : InsertBookingSeatFails(w, s) \/ FindSeatFails(w, s)
       \/ \E S \in SUBSET SeatsOf(my[w].bid) : ScanMissesRows(w, S)
    /\ UNCHANGED <<held, phase, acked, cancels, issued>>

-----------------------------------------------------------------------------
Step(w) ==
    \/ Begin(w) \/ NoSlot(w)
    \/ InsertBooking(w)
    \/ LockBooking(w) \/ CheckBooking(w) \/ ScanBookingSeats(w) \/ MarkCancelled(w)
    \/ Commit(w) \/ Abort(w) \/ EndTxn(w) \/ Reply(w)
    \/ \E r \in Record : Release(w, r)
    \/ \E s \in SeatId :
          \/ LockSeat(w, s) \/ VerifySeat(w, s) \/ InsertBookingSeat(w, s) \/ MarkBooked(w, s)
          \/ LockBookedSeat(w, s) \/ ReleaseSeat(w, s)

Command(w) ==
    \/ \E u \in User, e \in Event, args \in Args : Book(w, u, e, args)
    \/ \E u \in User, b \in BookingId : Cancel(w, u, b)
    \/ \E e \in Event : DeleteEvent(w, e)

\* The bound is used up and every command has been answered.
Quiescent == issued = MaxCommands /\ (\A w \in Worker : pc[w] = "idle") /\ UNCHANGED vars

Next == Quiescent \/ \E w \in Worker : Command(w) \/ Step(w) \/ Fault(w)

Spec == Init /\ [][Next]_vars

-----------------------------------------------------------------------------
Status == {"none", "unindexed", "CONFIRMED", "CANCELLED"}
Label == {"idle", "begin", "lock", "verify", "insert", "link", "mark", "lock_booking", "check", "scan",
          "lock_seat", "free", "cancel", "commit", "abort", "release", "reply"}

Tally == [ok : Nat, early : BOOLEAN]
Local == [op : {"none", "book", "cancel"}, user : User \cup {NULL}, event : Event \cup {NULL},
          bid : BookingId \cup {0}, seats : SUBSET SeatId, todo : SUBSET SeatId, ok : BOOLEAN]

TypeOK ==
    /\ events \in SUBSET Event
    /\ seats \in [Seat -> [status : {"AVAILABLE", "BOOKED"}, booked_by : User \cup {NULL}]]
    /\ bookings \in [BookingId -> [user : User \cup {NULL}, seat_count : Nat, status : Status]]
    /\ next_booking_id \in Nat \ {0}
    /\ \A b \in BookingId : b >= next_booking_id => bookings[b] = NoBooking
    /\ booking_seats \in SUBSET (BookingId \X Seat)
    /\ TP!RL!HeldType /\ phase \in [Worker -> {"none", "growing", "shrinking"}]
    /\ pc \in [Worker -> Label]
    /\ my \in [Worker -> Local]
    /\ acked \in [BookingId -> SUBSET SeatId] /\ cancels \in [BookingId -> Tally]
    /\ issued \in 0..MaxCommands /\ faults \in 0..MaxFaults

Booking(w, b) == my[w].op = "book" /\ my[w].bid = b       \* w is still at work on booking b
Cancelling(w, b) == my[w].op = "cancel" /\ my[w].bid = b /\ pc[w] \in {"lock_seat", "free", "cancel"}
Unlocked(s) == \A w \in Worker : held[w][SeatRecord(s)] = "none"

RowsAreDisjoint ==
    \A b, c \in BookingId, s \in Seat :
        b # c /\ <<b, s>> \in booking_seats /\ <<c, s>> \in booking_seats =>
            bookings[b].status # "CONFIRMED" \/ bookings[c].status # "CONFIRMED"

(* "No two bookings can claim the same seat" (booking_engine.c:71): as     *)
(* long as no call has failed, the junction rows of two confirmed bookings *)
(* never name the same seat, not even while the bookings are being made or *)
(* cancelled.                                                              *)
ConfirmedBookingsAreDisjoint == faults = 0 => RowsAreDisjoint

(* As long as no call has failed, a booking that was answered with OK      *)
(* keeps all its seats, booked in the name of its user, until a            *)
(* cancellation of that booking gets hold of it.                           *)
AckedBookingsHoldTheirSeats ==
    faults = 0 => \A b \in BookingId : \A s \in acked[b] :
        bookings[b].status = "CONFIRMED" /\ (\A w \in Worker : ~Cancelling(w, b))
            => seats[s] = [status |-> "BOOKED", booked_by |-> bookings[b].user]

(* An OK to BOOK means a complete booking, whatever failed on the way: its *)
(* record is in the table, and there is one junction row for each seat.    *)
AckedBookingsAreComplete ==
    /\ TypeOK
    /\ \A b \in BookingId : acked[b] # {} =>
        /\ bookings[b].status \in {"CONFIRMED", "CANCELLED"}
        /\ SeatsOf(b) = acked[b] /\ bookings[b].seat_count = Cardinality(acked[b])

(* "Booking %u cancelled, seats released" (main.c:547), and isolation      *)
(* (txn_manager.h:9): a seat that no transaction has locked is BOOKED only *)
(* for a confirmed booking of the user, so every booked seat can be freed. *)
BookedSeatsAreBacked ==
    \A s \in Seat :
        Unlocked(s) /\ seats[s].status = "BOOKED" =>
            \E b \in BookingId : /\ <<b, s>> \in booking_seats /\ bookings[b].status = "CONFIRMED"
                                 /\ bookings[b].user = seats[s].booked_by

(* ... which holds, as long as no call has failed, but for the seats of a  *)
(* booking that a CANCEL met before the reply to its BOOK.                 *)
BookedSeatsAreBackedOrRaced ==
    faults = 0 => \A s \in Seat :
        Unlocked(s) /\ seats[s].status = "BOOKED" =>
            \E b \in BookingId : /\ <<b, s>> \in booking_seats
                                 /\ bookings[b].status = "CONFIRMED" \/ cancels[b].early
                                 /\ bookings[b].user = seats[s].booked_by

(* A booking is cancelled with success at most once (the race the comment  *)
(* at booking_engine.c:228 is about).                                      *)
CancelledAtMostOnce == \A b \in BookingId : cancels[b].ok <= 1

(* As long as no call has failed, a booked seat is not written but by a    *)
(* cancellation of its own user that holds the lock of the seat, and that  *)
(* step frees it.                                                          *)
SeatsKeepTheirOwner ==
    [][faults = 0 => \A s \in Seat : seats[s].status = "BOOKED" /\ seats'[s] # seats[s] =>
          /\ seats'[s] = FreeSeat
          /\ \E w \in Worker : /\ Cancelling(w, my[w].bid) /\ my[w].user = seats[s].booked_by
                               /\ held[w][SeatRecord(s)] = "EXCLUSIVE"]_vars

(* The inductive invariant behind ConfirmedBookingsAreDisjoint and         *)
(* SeatsKeepTheirOwner, until a call fails.  Its parts say which locks a   *)
(* worker has at each of its steps, ...                                    *)
HasSeat(w, s) == held[w][SeatRecord(s)] = "EXCLUSIVE"

LocksAreExclusive ==
    \A w, v \in Worker : \A r \in Record : w # v /\ held[w][r] # "none" => held[v][r] = "none"

WorkersHaveTheirLocks ==
    \A w \in Worker :
        /\ my[w].todo \subseteq my[w].seats /\ (pc[w] = "begin" => my[w].todo = my[w].seats)
        /\ pc[w] \in {"lock", "lock_seat", "free"} => \A s \in my[w].seats \ my[w].todo : HasSeat(w, s)
        /\ pc[w] \in {"verify", "insert", "link", "mark", "cancel"} => \A s \in my[w].seats : HasSeat(w, s)
        /\ pc[w] = "free" => \A s \in my[w].todo : Lowest(s, my[w].todo) => HasSeat(w, s)
        /\ pc[w] \in {"check", "scan", "lock_seat", "free", "cancel"} =>
              held[w][BookingRecord(my[w].bid)] = "EXCLUSIVE"

\* ... that the seats a worker has verified stay available until it books them, ...
Verified(w) == CASE pc[w] = "verify" -> my[w].seats \ my[w].todo
                 [] pc[w] = "insert" -> my[w].seats
                 [] pc[w] \in {"link", "mark"} -> my[w].todo
                 [] OTHER -> {}

VerifiedSeatsStayFree ==
    \A w \in Worker : \A s \in Verified(w) : s \in Seat /\ seats[s].status = "AVAILABLE"

\* ... that the booking a worker makes or cancels stays what it is, ...
CancelSteps == {"lock_booking", "check", "scan", "lock_seat", "free", "cancel"}

BookingsStayPut ==
    \A w \in Worker :
        /\ pc[w] \in {"link", "mark"} =>
              /\ my[w].bid \in BookingId /\ bookings[my[w].bid].status # "none"
              /\ bookings[my[w].bid].user = my[w].user
        /\ (pc[w] = "begin" /\ my[w].op # "book") \/ pc[w] \in CancelSteps =>
              my[w].op = "cancel" /\ my[w].bid \in BookingId
        /\ pc[w] \in {"scan", "lock_seat", "free", "cancel"} => MayCancel(w, my[w].bid)
        /\ pc[w] \in {"lock_seat", "free", "cancel"} => my[w].seats \subseteq SeatsOf(my[w].bid)

RowsHaveBookings ==
    \A b \in BookingId, s \in Seat : <<b, s>> \in booking_seats => bookings[b].status # "none"

\* ... and that a junction row of a confirmed booking stands for a seat that is
\* booked, about to be booked, or has just been freed by a cancellation.
AboutToBook(w, b, s) == pc[w] = "mark" /\ my[w].bid = b /\ Lowest(s, my[w].todo)
HasFreed(w, b, s) ==
    /\ my[w].bid = b /\ s \in my[w].seats
    /\ pc[w] = "cancel" \/ (pc[w] \in {"lock_seat", "free"} /\ s \notin my[w].todo)

RowsAreAccountedFor ==
    \A b \in BookingId, s \in Seat :
        <<b, s>> \in booking_seats /\ bookings[b].status = "CONFIRMED" =>
            \/ seats[s] = [status |-> "BOOKED", booked_by |-> bookings[b].user]
            \/ \E w \in Worker : AboutToBook(w, b, s) \/ HasFreed(w, b, s)

IInv ==
    /\ TypeOK
    /\ LocksAreExclusive
    /\ WorkersHaveTheirLocks
    /\ VerifiedSeatsStayFree
    /\ BookingsStayPut
    /\ RowsHaveBookings
    /\ RowsAreAccountedFor
    /\ RowsAreDisjoint

IInvUntilAFault == faults \in Nat /\ (faults = 0 => IInv)

\* The record that a worker asks for next.
Wants(w, r) ==
    \/ pc[w] = "lock_booking" /\ r = BookingRecord(my[w].bid)
    \/ pc[w] \in {"lock", "lock_seat"} /\ \E s \in SeatId : Lowest(s, my[w].todo) /\ r = SeatRecord(s)

\* A worker is at work, and its next step asks for nothing that is missing.
Ready(w) ==
    /\ pc[w] # "idle"
    /\ pc[w] = "begin" => phase[w] = "none"
    /\ pc[w] \in {"lock", "lock_booking", "lock_seat", "commit", "abort"} => phase[w] = "growing"
    /\ pc[w] \in {"lock", "lock_booking", "lock_seat"} =>
          \E r \in Record : Wants(w, r) /\ \A v \in Worker : held[v][r] = "none"
    /\ pc[w] \in {"verify", "link", "mark", "free"} => \E s \in SeatId : Lowest(s, my[w].todo)
    /\ pc[w] = "insert" => next_booking_id \in BookingId
    /\ pc[w] = "release" => phase[w] = "shrinking"

SomeWorkerIsReady == (\E w \in Worker : pc[w] # "idle") => \E w \in Worker : Ready(w)

(* No worker waits for ever: transactions that lock their booking first    *)
(* and then seats in ascending order never wait for each other in a        *)
(* circle, nor for a lock that a finished command has left behind, so some *)
(* worker that is at work can go on, and being ready is all it needs.      *)
NoCircleOfWaits ==
    /\ SomeWorkerIsReady
    /\ \A w \in Worker : Ready(w) <=> ENABLED Step(w)
=============================================================================
