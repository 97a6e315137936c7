---------------------------- MODULE BookingProofs ----------------------------
(***************************************************************************)
(* Proofs about the booking engine, for any number of workers, users,      *)
(* events, seats and commands.  Up to the first call that fails, no two    *)
(* confirmed bookings share a seat and a booked seat keeps its owner, an   *)
(* answered booking keeps its seats until it is cancelled, and a booked    *)
(* seat has a booking that is confirmed or was met by a CANCEL before the  *)
(* reply to its BOOK.  Whatever calls fail, an OK to BOOK stands for a     *)
(* complete booking, an OK to CANCEL is given once, and the workers never  *)
(* wait for each other in a circle.                                        *)
(***************************************************************************)
EXTENDS BookingEngine, FiniteSetTheorems, SequenceTheorems, TLAPS

-----------------------------------------------------------------------------

(* What the end of a loop body does to the local variables and to the step *)
(* of its worker, and that the other workers are left alone.               *)
LEMMA IterateMoves ==
    ASSUME pc \in [Worker -> Label], my \in [Worker -> Local], NEW w \in Worker, NEW s \in my[w].todo,
           my[w].todo \subseteq my[w].seats,
           NEW l \in Label, NEW after \in Label, Iterate(w, s, l, after)
    PROVE  /\ pc' \in [Worker -> Label] /\ my' \in [Worker -> Local]
           /\ \A v \in Worker : v # w => pc'[v] = pc[v] /\ my'[v] = my[v]
           /\ my'[w].op = my[w].op /\ my'[w].user = my[w].user /\ my'[w].bid = my[w].bid
           /\ my'[w].seats = my[w].seats /\ my'[w].todo \subseteq my[w].seats
           /\ my'[w].event = my[w].event
           /\ \/ my[w].todo = {s} /\ pc'[w] = after /\ my'[w].todo = my[w].seats
              \/ my[w].todo # {s} /\ pc'[w] = l /\ my'[w].todo = my[w].todo \ {s}
<1>1. CASE my[w].todo = {s}
  BY <1>1 DEF Iterate, goto, Local
<1>2. CASE my[w].todo # {s}
  BY <1>2 DEF Iterate, goto, Local
<1> QED BY <1>1, <1>2

(* A seat that one worker has locked is neither locked nor verified by     *)
(* another.                                                                *)
LEMMA OthersSeats ==
    ASSUME IInv, NEW w \in Worker, NEW s \in SeatId, HasSeat(w, s),
           NEW v \in Worker, v # w
    PROVE  ~HasSeat(v, s) /\ s \notin Verified(v)
<1>1. ~HasSeat(v, s)
  BY DEF IInv, LocksAreExclusive, HasSeat, Record, SeatRecord
<1> QED BY <1>1 DEF IInv, WorkersHaveTheirLocks, Verified

(* The rows of a seat that worker w has locked: the seat is booked for the  *)
(* confirmed booking, or w itself is at work on that booking.              *)
LEMMA RowsOfLockedSeat ==
    ASSUME IInv, NEW w \in Worker, NEW s \in Seat, HasSeat(w, s),
           NEW b \in BookingId, <<b, s>> \in booking_seats, bookings[b].status = "CONFIRMED"
    PROVE  \/ seats[s] = [status |-> "BOOKED", booked_by |-> bookings[b].user]
           \/ AboutToBook(w, b, s) \/ HasFreed(w, b, s)
<1>1. s \in SeatId
  BY BookingConstants
<1>2. ASSUME NEW v \in Worker, AboutToBook(v, b, s) \/ HasFreed(v, b, s)
      PROVE  HasSeat(v, s)
  BY <1>2 DEF IInv, WorkersHaveTheirLocks, AboutToBook, HasFreed, Lowest
<1> QED BY <1>1, <1>2, OthersSeats DEF IInv, RowsAreAccountedFor

(* A lock request that is granted.                                         *)
LEMMA LockMoves ==
    ASSUME IInv, NEW w \in Worker, NEW r \in Record, TP!Lock(w, r)
    PROVE  /\ TP!RL!HeldType' /\ LocksAreExclusive' /\ phase' = phase
           /\ held'[w][r] = "EXCLUSIVE"
           /\ \A q \in Record : q # r => held'[w][q] = held[w][q]
           /\ \A v \in Worker : v # w => held'[v] = held[v]
<1>1. /\ held \in [Worker -> [Record -> {"SHARED", "EXCLUSIVE"} \cup {"none"}]]
      /\ \A u \in Worker : held[u][r] = "none"
      /\ held' = [held EXCEPT ![w][r] = "EXCLUSIVE"] /\ phase' = phase
  BY DEF IInv, TypeOK, TP!RL!HeldType, TP!RL!Mode, TP!Lock, TP!RL!Acquire, TP!RL!Compatible
<1>2. LocksAreExclusive'
  BY <1>1 DEF IInv, LocksAreExclusive
<1>3. TP!RL!HeldType'
  BY <1>1 DEF TP!RL!HeldType, TP!RL!Mode
<1> QED BY <1>1, <1>2, <1>3

(* A seat is marked BOOKED: its worker has verified it and has its lock,   *)
(* so the row just inserted is now backed by the seat, and no other row    *)
(* is.                                                                     *)
LEMMA MarkBookedStep ==
    ASSUME IInv, NEW w \in Worker, NEW s \in SeatId, MarkBooked(w, s)
    PROVE  IInv'
<1> USE DEF IInv
<1>a. /\ pc[w] = "mark" /\ Lowest(s, my[w].todo) /\ s \in my[w].todo
      /\ seats' = [seats EXCEPT ![s] = [status |-> "BOOKED", booked_by |-> my[w].user]]
      /\ UNCHANGED <<events, bookings, next_booking_id, booking_seats, held, phase, acked, cancels, issued, faults>>
  BY DEF MarkBooked, Lowest
<1>b. /\ pc' \in [Worker -> Label] /\ my' \in [Worker -> Local]
      /\ \A v \in Worker : v # w => pc'[v] = pc[v] /\ my'[v] = my[v]
      /\ my'[w].op = my[w].op /\ my'[w].user = my[w].user /\ my'[w].bid = my[w].bid
      /\ my'[w].seats = my[w].seats /\ my'[w].todo \subseteq my[w].seats
      /\ \/ my[w].todo = {s} /\ pc'[w] = "commit" /\ my'[w].todo = my[w].seats
         \/ my[w].todo # {s} /\ pc'[w] = "link" /\ my'[w].todo = my[w].todo \ {s}
  <2>1. /\ pc \in [Worker -> Label] /\ my \in [Worker -> Local] /\ my[w].todo \subseteq my[w].seats
        /\ "link" \in Label /\ "commit" \in Label
    BY DEF TypeOK, WorkersHaveTheirLocks, Label
  <2>2. Iterate(w, s, "link", "commit")
    BY DEF MarkBooked
  <2> HIDE DEF IInv
  <2> QED BY <1>a, <2>1, <2>2, IterateMoves
<1>c. s \in Seat /\ HasSeat(w, s)
  BY <1>a DEF VerifiedSeatsStayFree, Verified, WorkersHaveTheirLocks
<1>d. my[w].user \in User \cup {NULL}
  BY DEF TypeOK, Local
<1>1. TypeOK'
  BY <1>a, <1>b, <1>c, <1>d DEF TypeOK, TP!RL!HeldType
<1>2. LocksAreExclusive'
  BY <1>a DEF LocksAreExclusive
<1>3. WorkersHaveTheirLocks'
  BY <1>a, <1>b DEF WorkersHaveTheirLocks, HasSeat
<1>4. VerifiedSeatsStayFree'
  <2> SUFFICES ASSUME NEW v \in Worker, NEW x \in Verified(v)'
               PROVE  x \in Seat /\ seats'[x].status = "AVAILABLE"
    BY DEF VerifiedSeatsStayFree
  <2>1. CASE v = w
    BY <1>a, <1>b, <2>1 DEF VerifiedSeatsStayFree, Verified, TypeOK
  <2>2. CASE v # w
    <3>1. x \in Verified(v) /\ x # s
      BY <1>b, <1>c, <2>2, OthersSeats DEF Verified
    <3> QED BY <1>a, <3>1 DEF VerifiedSeatsStayFree, TypeOK
  <2> QED BY <2>1, <2>2
<1>5. BookingsStayPut'
  BY <1>a, <1>b DEF BookingsStayPut, MayCancel, SeatsOf, CancelSteps
<1>6. RowsHaveBookings'
  BY <1>a DEF RowsHaveBookings
<1>7. RowsAreAccountedFor'
  <2> SUFFICES ASSUME NEW b \in BookingId, NEW x \in Seat, <<b, x>> \in booking_seats,
                      bookings[b].status = "CONFIRMED"
               PROVE  \/ seats'[x] = [status |-> "BOOKED", booked_by |-> bookings[b].user]
                      \/ \E v \in Worker : AboutToBook(v, b, x)' \/ HasFreed(v, b, x)'
    BY <1>a DEF RowsAreAccountedFor
  <2>1. CASE x = s
    <3>1. my[w].bid = b
      <4>1. seats[s].status = "AVAILABLE"
        BY <1>a DEF VerifiedSeatsStayFree, Verified
      <4> HIDE DEF IInv
      <4>2. AboutToBook(w, b, s) \/ HasFreed(w, b, s)
        <5>1. <<b, s>> \in booking_seats
          BY <2>1
        <5>2. seats[s] # [status |-> "BOOKED", booked_by |-> bookings[b].user]
          BY <4>1
        <5> QED BY <1>c, <5>1, <5>2, RowsOfLockedSeat
      <4> QED BY <4>2 DEF AboutToBook, HasFreed
    <3> QED BY <1>a, <1>c, <2>1, <3>1 DEF BookingsStayPut, TypeOK
  <2>2. CASE x # s
    <3>1. ~AboutToBook(w, b, x) /\ ~HasFreed(w, b, x)
      <4>1. s \in Nat /\ x \in Nat
        BY BookingConstants
      <4>2. ~(s <= x /\ x <= s)
        BY <2>2, <4>1
      <4> QED BY <1>a, <4>2 DEF AboutToBook, HasFreed, Lowest
    <3>2. seats'[x] = seats[x]
      BY <1>a, <2>2 DEF TypeOK
    <3> QED BY <1>b, <3>1, <3>2 DEF RowsAreAccountedFor, AboutToBook, HasFreed
  <2> QED BY <2>1, <2>2
<1>8. RowsAreDisjoint'
  BY <1>a DEF RowsAreDisjoint
<1> QED BY <1>1, <1>2, <1>3, <1>4, <1>5, <1>6, <1>7, <1>8

(* A step of w that changes no table and no lock of another worker, and    *)
(* after which nothing is claimed of w.                                    *)
LEMMA QuietStep ==
    ASSUME IInv, TypeOK', LocksAreExclusive', NEW w \in Worker,
           UNCHANGED <<seats, bookings, booking_seats>>,
           \A v \in Worker : v # w => pc'[v] = pc[v] /\ my'[v] = my[v] /\ held'[v] = held[v],
           pc[w] \notin {"mark", "lock_seat", "free", "cancel"},
           pc'[w] \in {"idle", "begin", "abort", "release", "reply"},
           my'[w].todo \subseteq my'[w].seats,
           pc'[w] = "begin" => /\ my'[w].todo = my'[w].seats
                               /\ my'[w].op # "book" => my'[w].op = "cancel" /\ my'[w].bid \in BookingId
    PROVE  IInv'
<1> USE DEF IInv
<1>1. WorkersHaveTheirLocks'
  BY DEF WorkersHaveTheirLocks, HasSeat
<1>2. VerifiedSeatsStayFree'
  BY DEF VerifiedSeatsStayFree, Verified
<1>3. BookingsStayPut'
  BY DEF BookingsStayPut, MayCancel, SeatsOf, CancelSteps
<1>4. RowsHaveBookings'
  BY DEF RowsHaveBookings
<1>5. RowsAreAccountedFor'
  BY DEF RowsAreAccountedFor, AboutToBook, HasFreed
<1>6. RowsAreDisjoint'
  BY DEF RowsAreDisjoint
<1> QED BY <1>1, <1>2, <1>3, <1>4, <1>5, <1>6

(* A cancellation frees a seat of its booking: the row of the seat is      *)
(* accounted for by the canceller, which still has the seat's lock.        *)
LEMMA ReleaseSeatStep ==
    ASSUME IInv, NEW w \in Worker, NEW s \in SeatId, ReleaseSeat(w, s)
    PROVE  IInv'
<1> USE DEF IInv
<1>a. /\ pc[w] = "free" /\ Lowest(s, my[w].todo) /\ s \in my[w].todo
      /\ seats' = [seats EXCEPT ![s] = FreeSeat]
      /\ UNCHANGED <<events, bookings, next_booking_id, booking_seats, held, phase, acked, cancels, issued, faults>>
  BY DEF ReleaseSeat, Lowest
<1>b. /\ pc' \in [Worker -> Label] /\ my' \in [Worker -> Local]
      /\ \A v \in Worker : v # w => pc'[v] = pc[v] /\ my'[v] = my[v]
      /\ my'[w].op = my[w].op /\ my'[w].user = my[w].user /\ my'[w].bid = my[w].bid
      /\ my'[w].seats = my[w].seats /\ my'[w].todo \subseteq my[w].seats
      /\ \/ my[w].todo = {s} /\ pc'[w] = "cancel" /\ my'[w].todo = my[w].seats
         \/ my[w].todo # {s} /\ pc'[w] = "lock_seat" /\ my'[w].todo = my[w].todo \ {s}
  <2>1. /\ pc \in [Worker -> Label] /\ my \in [Worker -> Local] /\ my[w].todo \subseteq my[w].seats
        /\ "lock_seat" \in Label /\ "cancel" \in Label
    BY DEF TypeOK, WorkersHaveTheirLocks, Label
  <2>2. Iterate(w, s, "lock_seat", "cancel")
    BY DEF ReleaseSeat
  <2> HIDE DEF IInv
  <2> QED BY <1>a, <2>1, <2>2, IterateMoves
<1>c. /\ s \in Seat /\ HasSeat(w, s) /\ my[w].bid \in BookingId
      /\ <<my[w].bid, s>> \in booking_seats /\ bookings[my[w].bid].status = "CONFIRMED"
  BY <1>a DEF WorkersHaveTheirLocks, BookingsStayPut, CancelSteps, MayCancel, SeatsOf
<1>1. TypeOK'
  BY <1>a, <1>b, <1>c DEF TypeOK, TP!RL!HeldType, FreeSeat
<1>2. LocksAreExclusive'
  BY <1>a DEF LocksAreExclusive
<1>3. WorkersHaveTheirLocks'
  BY <1>a, <1>b, <1>c DEF WorkersHaveTheirLocks, HasSeat
<1>4. VerifiedSeatsStayFree'
  BY <1>a, <1>b, <1>c DEF VerifiedSeatsStayFree, Verified, TypeOK, FreeSeat
<1>5. BookingsStayPut'
  BY <1>a, <1>b DEF BookingsStayPut, MayCancel, SeatsOf, CancelSteps
<1>6. RowsHaveBookings'
  BY <1>a DEF RowsHaveBookings
<1>7. RowsAreAccountedFor'
  <2> SUFFICES ASSUME NEW b \in BookingId, NEW x \in Seat, <<b, x>> \in booking_seats,
                      bookings[b].status = "CONFIRMED"
               PROVE  \/ seats'[x] = [status |-> "BOOKED", booked_by |-> bookings[b].user]
                      \/ \E v \in Worker : AboutToBook(v, b, x)' \/ HasFreed(v, b, x)'
    BY <1>a DEF RowsAreAccountedFor
  <2>1. CASE x = s
    <3>1. my[w].bid = b
      BY <1>c, <2>1 DEF RowsAreDisjoint
    <3> QED BY <1>a, <1>b, <2>1, <3>1 DEF HasFreed, WorkersHaveTheirLocks
  <2>2. CASE x # s
    <3>1. HasFreed(w, b, x) => HasFreed(w, b, x)'
      BY <1>a, <1>b DEF HasFreed
    <3>2. seats'[x] = seats[x]
      BY <1>a, <2>2 DEF TypeOK
    <3> QED BY <1>a, <1>b, <3>1, <3>2 DEF RowsAreAccountedFor, AboutToBook, HasFreed
  <2> QED BY <2>1, <2>2
<1>8. RowsAreDisjoint'
  BY <1>a DEF RowsAreDisjoint
<1> QED BY <1>1, <1>2, <1>3, <1>4, <1>5, <1>6, <1>7, <1>8

(* A junction row for a verified seat: no other confirmed booking has a    *)
(* row for it, because the seat is available and locked by this worker.    *)
LEMMA InsertBookingSeatStep ==
    ASSUME IInv, NEW w \in Worker, NEW s \in SeatId, InsertBookingSeat(w, s)
    PROVE  IInv'
<1> USE DEF IInv
<1>a. /\ pc[w] = "link" /\ Lowest(s, my[w].todo) /\ s \in my[w].todo
      /\ booking_seats' = booking_seats \cup {<<my[w].bid, s>>}
      /\ pc' = [pc EXCEPT ![w] = "mark"]
      /\ UNCHANGED <<events, seats, bookings, next_booking_id, held, phase, my, acked, cancels, issued, faults>>
  BY DEF InsertBookingSeat, Lowest, goto
<1>b. /\ pc' \in [Worker -> Label] /\ pc'[w] = "mark"
      /\ \A v \in Worker : v # w => pc'[v] = pc[v]
  BY <1>a DEF TypeOK, Label
<1>c. /\ s \in Seat /\ HasSeat(w, s) /\ seats[s].status = "AVAILABLE"
      /\ my[w].bid \in BookingId /\ bookings[my[w].bid].status # "none"
  BY <1>a DEF VerifiedSeatsStayFree, Verified, WorkersHaveTheirLocks, BookingsStayPut
<1>d. \A b \in BookingId : <<b, s>> \in booking_seats => bookings[b].status # "CONFIRMED"
  <2> SUFFICES ASSUME NEW b \in BookingId, <<b, s>> \in booking_seats, bookings[b].status = "CONFIRMED"
               PROVE  FALSE
    OBVIOUS
  <2>1. seats[s] # [status |-> "BOOKED", booked_by |-> bookings[b].user]
    BY <1>c
  <2> HIDE DEF IInv
  <2>2. AboutToBook(w, b, s) \/ HasFreed(w, b, s)
    BY <1>c, <2>1, RowsOfLockedSeat
  <2> QED BY <1>a, <2>2 DEF AboutToBook, HasFreed
<1>1. TypeOK'
  BY <1>a, <1>b, <1>c DEF TypeOK, TP!RL!HeldType
<1>2. LocksAreExclusive'
  BY <1>a DEF LocksAreExclusive
<1>3. WorkersHaveTheirLocks'
  BY <1>a, <1>b DEF WorkersHaveTheirLocks, HasSeat
<1>4. VerifiedSeatsStayFree'
  BY <1>a, <1>b DEF VerifiedSeatsStayFree, Verified
<1>5. BookingsStayPut'
  BY <1>a, <1>b, <1>c DEF BookingsStayPut, MayCancel, SeatsOf, CancelSteps
<1>6. RowsHaveBookings'
  BY <1>a, <1>c DEF RowsHaveBookings
<1>7. RowsAreAccountedFor'
  BY <1>a, <1>b DEF RowsAreAccountedFor, AboutToBook, HasFreed
<1>8. RowsAreDisjoint'
  BY <1>a, <1>c, <1>d DEF RowsAreDisjoint
<1> QED BY <1>1, <1>2, <1>3, <1>4, <1>5, <1>6, <1>7, <1>8

(* The new booking has no junction rows yet, and its id is fresh.          *)
LEMMA InsertBookingStep ==
    ASSUME IInv, NEW w \in Worker, InsertBooking(w)
    PROVE  IInv'
<1> USE DEF IInv
<1> DEFINE n == next_booking_id
<1>a. /\ pc[w] = "insert" /\ n \in BookingId /\ next_booking_id' = n + 1
      /\ bookings' = [bookings EXCEPT ![n] =
            [user |-> my[w].user, seat_count |-> Cardinality(my[w].seats), status |-> "CONFIRMED"]]
      /\ my' = [my EXCEPT ![w].bid = n] /\ pc' = [pc EXCEPT ![w] = "link"]
      /\ UNCHANGED <<events, seats, booking_seats, held, phase, acked, cancels, issued, faults>>
  BY DEF InsertBooking, NewBooking, goto
<1>b. /\ pc' \in [Worker -> Label] /\ my' \in [Worker -> Local]
      /\ \A v \in Worker : v # w => pc'[v] = pc[v] /\ my'[v] = my[v]
      /\ pc'[w] = "link" /\ my'[w].bid = n
      /\ my'[w].user = my[w].user /\ my'[w].seats = my[w].seats /\ my'[w].todo = my[w].todo
  <2>1. pc' \in [Worker -> Label] /\ pc'[w] = "link" /\ \A v \in Worker : v # w => pc'[v] = pc[v]
    BY <1>a DEF TypeOK, Label
  <2>2. my[w] \in Local /\ my \in [Worker -> Local] /\ my'[w] = [my[w] EXCEPT !.bid = n]
    BY <1>a DEF TypeOK
  <2>3. /\ my'[w] \in Local /\ my'[w].bid = n
        /\ my'[w].user = my[w].user /\ my'[w].seats = my[w].seats /\ my'[w].todo = my[w].todo
    BY <1>a, <2>2 DEF Local
  <2> QED BY <1>a, <2>1, <2>2, <2>3
<1>c. /\ bookings[n].status = "none" /\ bookings'[n].status = "CONFIRMED" /\ bookings'[n].user = my[w].user
      /\ \A b \in BookingId : b # n => bookings'[b] = bookings[b]
  BY <1>a DEF TypeOK, NoBooking, BookingId
<1>1. TypeOK'
  <2>1. Cardinality(my[w].seats) \in Nat /\ my[w].user \in User \cup {NULL}
    BY BookingConstants, FS_Subset, FS_CardinalityType DEF TypeOK, Local
  <2>2. bookings' \in [BookingId -> [user : User \cup {NULL}, seat_count : Nat, status : Status]]
    BY <1>a, <2>1 DEF TypeOK, Status
  <2>3. next_booking_id' \in Nat \ {0} /\ \A b \in BookingId : b >= next_booking_id' => bookings'[b] = NoBooking
    BY <1>a, <1>c DEF TypeOK, BookingId
  <2> QED BY <1>a, <1>b, <2>2, <2>3 DEF TypeOK, TP!RL!HeldType
<1>2. LocksAreExclusive'
  BY <1>a DEF LocksAreExclusive
<1>3. WorkersHaveTheirLocks'
  BY <1>a, <1>b DEF WorkersHaveTheirLocks, HasSeat
<1>4. VerifiedSeatsStayFree'
  BY <1>a, <1>b DEF VerifiedSeatsStayFree, Verified, WorkersHaveTheirLocks
<1>5. BookingsStayPut'
  BY <1>a, <1>b, <1>c DEF BookingsStayPut, MayCancel, SeatsOf, CancelSteps
<1>6. RowsHaveBookings'
  BY <1>a, <1>c DEF RowsHaveBookings
<1>7. RowsAreAccountedFor'
  BY <1>a, <1>b, <1>c DEF RowsAreAccountedFor, AboutToBook, HasFreed, RowsHaveBookings
<1>8. RowsAreDisjoint'
  BY <1>a, <1>c DEF RowsAreDisjoint, RowsHaveBookings
<1> QED BY <1>1, <1>2, <1>3, <1>4, <1>5, <1>6, <1>7, <1>8

(* The booking leaves the confirmed ones; no other worker cancels it,      *)
(* since this one has the lock of its record.                              *)
LEMMA MarkCancelledStep ==
    ASSUME IInv, NEW w \in Worker, MarkCancelled(w)
    PROVE  IInv'
<1> USE DEF IInv
<1> DEFINE n == my[w].bid
<1>a. /\ pc[w] = "cancel" /\ bookings' = [bookings EXCEPT ![n].status = "CANCELLED"]
      /\ pc' = [pc EXCEPT ![w] = "commit"]
      /\ UNCHANGED <<events, seats, next_booking_id, booking_seats, held, phase, my, acked, cancels, issued, faults>>
  BY DEF MarkCancelled, goto
<1>b. /\ pc' \in [Worker -> Label] /\ pc'[w] = "commit"
      /\ \A v \in Worker : v # w => pc'[v] = pc[v]
  BY <1>a DEF TypeOK, Label
<1>c. /\ n \in BookingId /\ bookings[n].status = "CONFIRMED"
      /\ held[w][BookingRecord(n)] = "EXCLUSIVE"
  BY <1>a DEF BookingsStayPut, CancelSteps, MayCancel, WorkersHaveTheirLocks
<1>d. /\ bookings'[n].status = "CANCELLED" /\ bookings'[n].user = bookings[n].user
      /\ \A b \in BookingId : b # n => bookings'[b] = bookings[b]
  BY <1>a, <1>c DEF TypeOK
<1>e. ASSUME NEW v \in Worker, v # w, pc[v] \in {"check", "scan", "lock_seat", "free", "cancel"}
      PROVE  my[v].bid # n
  BY <1>c, <1>e DEF LocksAreExclusive, WorkersHaveTheirLocks, Record, BookingRecord
<1>f. /\ bookings' \in [BookingId -> [user : User \cup {NULL}, seat_count : Nat, status : Status]]
      /\ \A b \in BookingId : b >= next_booking_id => bookings'[b] = NoBooking
  <2>1. /\ bookings \in [BookingId -> [user : User \cup {NULL}, seat_count : Nat, status : Status]]
        /\ \A b \in BookingId : b >= next_booking_id => bookings[b] = NoBooking
    BY DEF TypeOK
  <2>2. [bookings[n] EXCEPT !.status = "CANCELLED"]
           \in [user : User \cup {NULL}, seat_count : Nat, status : Status]
    BY <1>c, <2>1 DEF Status
  <2>3. NoBooking.status = "none"
    BY DEF NoBooking
  <2> QED BY <1>a, <1>c, <1>d, <2>1, <2>2, <2>3
<1>1. TypeOK'
  BY <1>a, <1>b, <1>f DEF TypeOK, TP!RL!HeldType
<1>2. LocksAreExclusive'
  BY <1>a DEF LocksAreExclusive
<1>3. WorkersHaveTheirLocks'
  BY <1>a, <1>b DEF WorkersHaveTheirLocks, HasSeat
<1>4. VerifiedSeatsStayFree'
  BY <1>a, <1>b DEF VerifiedSeatsStayFree, Verified
<1>5. BookingsStayPut'
  BY <1>a, <1>b, <1>c, <1>d, <1>e DEF BookingsStayPut, MayCancel, SeatsOf, CancelSteps
<1>6. RowsHaveBookings'
  BY <1>a, <1>d DEF RowsHaveBookings
<1>7. RowsAreAccountedFor'
  BY <1>a, <1>b, <1>d DEF RowsAreAccountedFor, AboutToBook, HasFreed
<1>8. RowsAreDisjoint'
  BY <1>a, <1>d DEF RowsAreDisjoint
<1> QED BY <1>1, <1>2, <1>3, <1>4, <1>5, <1>6, <1>7, <1>8

(* The locking loop of booking_book_seats.                                 *)
LEMMA LockSeatStep ==
    ASSUME IInv, NEW w \in Worker, NEW s \in SeatId, LockSeat(w, s)
    PROVE  IInv'
<1> USE DEF IInv
<1>a. /\ pc[w] = "lock" /\ Lowest(s, my[w].todo) /\ s \in my[w].todo
      /\ UNCHANGED <<events, seats, bookings, next_booking_id, booking_seats, acked, cancels, issued, faults>>
  BY DEF LockSeat, Lowest, tables
<1>b. /\ pc' \in [Worker -> Label] /\ my' \in [Worker -> Local]
      /\ \A v \in Worker : v # w => pc'[v] = pc[v] /\ my'[v] = my[v]
      /\ my'[w].seats = my[w].seats /\ my'[w].todo \subseteq my[w].seats
      /\ \/ my[w].todo = {s} /\ pc'[w] = "verify" /\ my'[w].todo = my[w].seats
         \/ my[w].todo # {s} /\ pc'[w] = "lock" /\ my'[w].todo = my[w].todo \ {s}
  <2>1. /\ pc \in [Worker -> Label] /\ my \in [Worker -> Local] /\ my[w].todo \subseteq my[w].seats
        /\ "lock" \in Label /\ "verify" \in Label
    BY DEF TypeOK, WorkersHaveTheirLocks, Label
  <2>2. Iterate(w, s, "lock", "verify")
    BY DEF LockSeat
  <2> HIDE DEF IInv
  <2> QED BY <1>a, <2>1, <2>2, IterateMoves
<1>c. /\ TP!RL!HeldType' /\ LocksAreExclusive' /\ phase' = phase
      /\ held'[w][SeatRecord(s)] = "EXCLUSIVE"
      /\ \A q \in Record : q # SeatRecord(s) => held'[w][q] = held[w][q]
      /\ \A v \in Worker : v # w => held'[v] = held[v]
  <2>1. SeatRecord(s) \in Record /\ TP!Lock(w, SeatRecord(s))
    BY DEF LockSeat, Record, SeatRecord
  <2> HIDE DEF IInv
  <2> QED BY <2>1, LockMoves
<1>d. \A x \in SeatId : HasSeat(w, x) => HasSeat(w, x)'
  BY <1>c DEF HasSeat, Record, SeatRecord
<1>1. TypeOK'
  BY <1>a, <1>b, <1>c DEF TypeOK
<1>3. WorkersHaveTheirLocks'
  BY <1>a, <1>b, <1>c, <1>d DEF WorkersHaveTheirLocks, HasSeat, TypeOK, Local
<1>4. VerifiedSeatsStayFree'
  BY <1>a, <1>b DEF VerifiedSeatsStayFree, Verified
<1>5. BookingsStayPut'
  BY <1>a, <1>b DEF BookingsStayPut, MayCancel, SeatsOf, CancelSteps
<1>6. RowsHaveBookings'
  BY <1>a DEF RowsHaveBookings
<1>7. RowsAreAccountedFor'
  BY <1>a, <1>b DEF RowsAreAccountedFor, AboutToBook, HasFreed
<1>8. RowsAreDisjoint'
  BY <1>a DEF RowsAreDisjoint
<1> QED BY <1>1, <1>c, <1>3, <1>4, <1>5, <1>6, <1>7, <1>8

(* The verification loop of booking_book_seats, for a seat that is found   *)
(* available: it is in the table and its lock is held.                     *)
LEMMA VerifySeatStep ==
    ASSUME IInv, NEW w \in Worker, NEW s \in SeatId, VerifySeat(w, s), Bookable(w, s)
    PROVE  IInv'
<1> USE DEF IInv
<1>a. /\ pc[w] = "verify" /\ s \in my[w].todo /\ s \in Seat /\ seats[s].status = "AVAILABLE"
      /\ UNCHANGED <<events, seats, bookings, next_booking_id, booking_seats, held, phase,
                     acked, cancels, issued, faults>>
  BY DEF VerifySeat, Lowest, Bookable, tables
<1>b. /\ pc' \in [Worker -> Label] /\ my' \in [Worker -> Local]
      /\ \A v \in Worker : v # w => pc'[v] = pc[v] /\ my'[v] = my[v]
      /\ my'[w].seats = my[w].seats /\ my'[w].todo \subseteq my[w].seats
      /\ \/ my[w].todo = {s} /\ pc'[w] = "insert" /\ my'[w].todo = my[w].seats
         \/ my[w].todo # {s} /\ pc'[w] = "verify" /\ my'[w].todo = my[w].todo \ {s}
  <2>1. /\ pc \in [Worker -> Label] /\ my \in [Worker -> Local] /\ my[w].todo \subseteq my[w].seats
        /\ "verify" \in Label /\ "insert" \in Label
    BY DEF TypeOK, WorkersHaveTheirLocks, Label
  <2>2. Iterate(w, s, "verify", "insert")
    BY DEF VerifySeat
  <2> HIDE DEF IInv
  <2> QED BY <1>a, <2>1, <2>2, IterateMoves
<1>1. TypeOK'
  BY <1>a, <1>b DEF TypeOK, TP!RL!HeldType
<1>2. LocksAreExclusive'
  BY <1>a DEF LocksAreExclusive
<1>3. WorkersHaveTheirLocks'
  BY <1>a, <1>b DEF WorkersHaveTheirLocks, HasSeat
<1>4. VerifiedSeatsStayFree'
  BY <1>a, <1>b DEF VerifiedSeatsStayFree, Verified
<1>5. BookingsStayPut'
  BY <1>a, <1>b DEF BookingsStayPut, MayCancel, SeatsOf, CancelSteps
<1>6. RowsHaveBookings'
  BY <1>a DEF RowsHaveBookings
<1>7. RowsAreAccountedFor'
  BY <1>a, <1>b DEF RowsAreAccountedFor, AboutToBook, HasFreed
<1>8. RowsAreDisjoint'
  BY <1>a DEF RowsAreDisjoint
<1> QED BY <1>1, <1>2, <1>3, <1>4, <1>5, <1>6, <1>7, <1>8

(* booking_cancel locks the next seat of its booking.                      *)
LEMMA LockBookedSeatStep ==
    ASSUME IInv, NEW w \in Worker, NEW s \in SeatId, LockBookedSeat(w, s)
    PROVE  IInv'
<1> USE DEF IInv
<1>a. /\ pc[w] = "lock_seat" /\ Lowest(s, my[w].todo) /\ s \in my[w].todo
      /\ pc' = [pc EXCEPT ![w] = "free"]
      /\ UNCHANGED <<events, seats, bookings, next_booking_id, booking_seats, my, acked, cancels, issued, faults>>
  BY DEF LockBookedSeat, Lowest, tables, goto
<1>b. /\ pc' \in [Worker -> Label] /\ pc'[w] = "free"
      /\ \A v \in Worker : v # w => pc'[v] = pc[v]
  BY <1>a DEF TypeOK, Label
<1>c. /\ TP!RL!HeldType' /\ LocksAreExclusive' /\ phase' = phase
      /\ held'[w][SeatRecord(s)] = "EXCLUSIVE"
      /\ \A q \in Record : q # SeatRecord(s) => held'[w][q] = held[w][q]
      /\ \A v \in Worker : v # w => held'[v] = held[v]
  <2>1. SeatRecord(s) \in Record /\ TP!Lock(w, SeatRecord(s))
    BY DEF LockBookedSeat, Record, SeatRecord
  <2> HIDE DEF IInv
  <2> QED BY <2>1, LockMoves
<1>d. \A x \in SeatId : HasSeat(w, x) => HasSeat(w, x)'
  BY <1>c DEF HasSeat, Record, SeatRecord
<1>e. \A x \in my[w].todo : Lowest(x, my[w].todo) => x = s
  <2>1. \A x \in my[w].todo : x \in Nat /\ s \in Nat
    BY BookingConstants DEF TypeOK, Local
  <2> QED BY <1>a, <2>1 DEF Lowest
<1>f. held'[w][BookingRecord(my[w].bid)] = "EXCLUSIVE"
  <2>1. my[w].bid \in BookingId
    BY <1>a DEF BookingsStayPut, CancelSteps
  <2>2. BookingRecord(my[w].bid) \in Record /\ BookingRecord(my[w].bid) # SeatRecord(s)
    BY <2>1 DEF Record, BookingRecord, SeatRecord
  <2> QED BY <1>a, <1>c, <2>2 DEF WorkersHaveTheirLocks
<1>1. TypeOK'
  BY <1>a, <1>b, <1>c DEF TypeOK
<1>3. WorkersHaveTheirLocks'
  <2>1. \A x \in my[w].seats \ my[w].todo : HasSeat(w, x)'
    BY <1>a, <1>d DEF WorkersHaveTheirLocks, TypeOK, Local
  <2>2. \A x \in my[w].todo : Lowest(x, my[w].todo) => HasSeat(w, x)'
    BY <1>c, <1>e DEF HasSeat
  <2>3. \A v \in Worker, x \in SeatId : v # w /\ HasSeat(v, x) => HasSeat(v, x)'
    BY <1>c DEF HasSeat
  <2>4. ASSUME NEW v \in Worker
        PROVE  /\ my[v].todo \subseteq my[v].seats /\ my[v].seats \subseteq SeatId
               /\ v # w => pc'[v] = pc[v] /\ held'[v] = held[v]
    BY <1>b, <1>c DEF WorkersHaveTheirLocks, TypeOK, Local
  <2> QED BY <1>a, <1>b, <1>f, <2>1, <2>2, <2>3, <2>4 DEF WorkersHaveTheirLocks
<1>4. VerifiedSeatsStayFree'
  BY <1>a, <1>b DEF VerifiedSeatsStayFree, Verified
<1>5. BookingsStayPut'
  BY <1>a, <1>b DEF BookingsStayPut, MayCancel, SeatsOf, CancelSteps
<1>6. RowsHaveBookings'
  BY <1>a DEF RowsHaveBookings
<1>7. RowsAreAccountedFor'
  <2>1. \A v \in Worker, b \in BookingId, x \in Seat :
            AboutToBook(v, b, x) \/ HasFreed(v, b, x) => AboutToBook(v, b, x)' \/ HasFreed(v, b, x)'
    BY <1>a, <1>b DEF AboutToBook, HasFreed
  <2> QED BY <1>a, <2>1 DEF RowsAreAccountedFor
<1>8. RowsAreDisjoint'
  BY <1>a DEF RowsAreDisjoint
<1> QED BY <1>1, <1>c, <1>3, <1>4, <1>5, <1>6, <1>7, <1>8

(* booking_cancel locks the record of its booking.                         *)
LEMMA LockBookingStep ==
    ASSUME IInv, NEW w \in Worker, LockBooking(w)
    PROVE  IInv'
<1> USE DEF IInv
<1>a. /\ pc[w] = "lock_booking" /\ pc' = [pc EXCEPT ![w] = "check"]
      /\ UNCHANGED <<events, seats, bookings, next_booking_id, booking_seats, my, acked, cancels, issued, faults>>
  BY DEF LockBooking, tables, goto
<1>b. /\ pc' \in [Worker -> Label] /\ pc'[w] = "check"
      /\ \A v \in Worker : v # w => pc'[v] = pc[v]
  BY <1>a DEF TypeOK, Label
<1>c. /\ TP!RL!HeldType' /\ LocksAreExclusive' /\ phase' = phase
      /\ held'[w][BookingRecord(my[w].bid)] = "EXCLUSIVE"
      /\ \A v \in Worker : v # w => held'[v] = held[v]
  <2>1. my[w].bid \in BookingId
    BY <1>a DEF BookingsStayPut, CancelSteps
  <2>2. BookingRecord(my[w].bid) \in Record /\ TP!Lock(w, BookingRecord(my[w].bid))
    BY <2>1 DEF LockBooking, Record, BookingRecord
  <2> HIDE DEF IInv
  <2> QED BY <2>2, LockMoves
<1>1. TypeOK'
  BY <1>a, <1>b, <1>c DEF TypeOK
<1>3. WorkersHaveTheirLocks'
  BY <1>a, <1>b, <1>c DEF WorkersHaveTheirLocks, HasSeat
<1>4. VerifiedSeatsStayFree'
  BY <1>a, <1>b DEF VerifiedSeatsStayFree, Verified
<1>5. BookingsStayPut'
  BY <1>a, <1>b DEF BookingsStayPut, MayCancel, SeatsOf, CancelSteps
<1>6. RowsHaveBookings'
  BY <1>a DEF RowsHaveBookings
<1>7. RowsAreAccountedFor'
  BY <1>a, <1>b DEF RowsAreAccountedFor, AboutToBook, HasFreed
<1>8. RowsAreDisjoint'
  BY <1>a DEF RowsAreDisjoint
<1> QED BY <1>1, <1>c, <1>3, <1>4, <1>5, <1>6, <1>7, <1>8

(* A transaction begins, for a booking or for a cancellation.              *)
LEMMA BeginStep ==
    ASSUME IInv, NEW w \in Worker, Begin(w)
    PROVE  IInv'
<1> USE DEF IInv
<1>a. /\ pc[w] = "begin"
      /\ pc' = [pc EXCEPT ![w] = IF my[w].op = "book" THEN "lock" ELSE "lock_booking"]
      /\ phase' = [phase EXCEPT ![w] = "growing"]
      /\ UNCHANGED <<events, seats, bookings, next_booking_id, booking_seats, held, my,
                     acked, cancels, issued, faults>>
  BY DEF Begin, TP!Begin, tables, goto
<1>b. /\ pc' \in [Worker -> Label]
      /\ pc'[w] = IF my[w].op = "book" THEN "lock" ELSE "lock_booking"
      /\ \A v \in Worker : v # w => pc'[v] = pc[v]
  BY <1>a DEF TypeOK, Label
<1>1. TypeOK'
  BY <1>a, <1>b DEF TypeOK, TP!RL!HeldType
<1>2. LocksAreExclusive'
  BY <1>a DEF LocksAreExclusive
<1>3. WorkersHaveTheirLocks'
  BY <1>a, <1>b DEF WorkersHaveTheirLocks, HasSeat
<1>4. VerifiedSeatsStayFree'
  BY <1>a, <1>b DEF VerifiedSeatsStayFree, Verified
<1>5. BookingsStayPut'
  BY <1>a, <1>b DEF BookingsStayPut, MayCancel, SeatsOf, CancelSteps
<1>6. RowsHaveBookings'
  BY <1>a DEF RowsHaveBookings
<1>7. RowsAreAccountedFor'
  BY <1>a, <1>b DEF RowsAreAccountedFor, AboutToBook, HasFreed
<1>8. RowsAreDisjoint'
  BY <1>a DEF RowsAreDisjoint
<1> QED BY <1>1, <1>2, <1>3, <1>4, <1>5, <1>6, <1>7, <1>8

(* booking_cancel finds the booking, or gives up.                          *)
LEMMA CheckBookingStep ==
    ASSUME IInv, NEW w \in Worker, CheckBooking(w)
    PROVE  IInv'
<1> USE DEF IInv
<1>a. /\ pc[w] = "check"
      /\ pc' = [pc EXCEPT ![w] = IF MayCancel(w, my[w].bid) THEN "scan" ELSE "abort"]
      /\ UNCHANGED <<events, seats, bookings, next_booking_id, booking_seats, held, phase, my,
                     acked, cancels, issued, faults>>
  BY DEF CheckBooking, tables, goto
<1>b. /\ pc' \in [Worker -> Label]
      /\ pc'[w] = IF MayCancel(w, my[w].bid) THEN "scan" ELSE "abort"
      /\ \A v \in Worker : v # w => pc'[v] = pc[v]
  BY <1>a DEF TypeOK, Label
<1>1. TypeOK'
  BY <1>a, <1>b DEF TypeOK, TP!RL!HeldType
<1>2. LocksAreExclusive'
  BY <1>a DEF LocksAreExclusive
<1>3. WorkersHaveTheirLocks'
  BY <1>a, <1>b DEF WorkersHaveTheirLocks, HasSeat
<1>4. VerifiedSeatsStayFree'
  BY <1>a, <1>b DEF VerifiedSeatsStayFree, Verified
<1>5. BookingsStayPut'
  BY <1>a, <1>b DEF BookingsStayPut, MayCancel, SeatsOf, CancelSteps
<1>6. RowsHaveBookings'
  BY <1>a DEF RowsHaveBookings
<1>7. RowsAreAccountedFor'
  BY <1>a, <1>b DEF RowsAreAccountedFor, AboutToBook, HasFreed
<1>8. RowsAreDisjoint'
  BY <1>a DEF RowsAreDisjoint
<1> QED BY <1>1, <1>2, <1>3, <1>4, <1>5, <1>6, <1>7, <1>8

(* booking_cancel reads the junction rows of its booking: they stay, since *)
(* rows are never deleted.                                                 *)
LEMMA ScanBookingSeatsStep ==
    ASSUME IInv, NEW w \in Worker, ScanBookingSeats(w)
    PROVE  IInv'
<1> USE DEF IInv
<1> DEFINE S == SeatsOf(my[w].bid)
<1>a. /\ pc[w] = "scan"
      /\ my' = [my EXCEPT ![w].seats = S, ![w].todo = S]
      /\ pc' = [pc EXCEPT ![w] = IF S = {} THEN "cancel" ELSE "lock_seat"]
      /\ UNCHANGED <<events, seats, bookings, next_booking_id, booking_seats, held, phase,
                     acked, cancels, issued, faults>>
  BY DEF ScanBookingSeats, tables, goto
<1>b. /\ pc' \in [Worker -> Label] /\ my' \in [Worker -> Local]
      /\ \A v \in Worker : v # w => pc'[v] = pc[v] /\ my'[v] = my[v]
      /\ my'[w].op = my[w].op /\ my'[w].user = my[w].user /\ my'[w].bid = my[w].bid
      /\ my'[w].seats = S /\ my'[w].todo = S
      /\ \/ S = {} /\ pc'[w] = "cancel"
         \/ S # {} /\ pc'[w] = "lock_seat"
  <2>1. S \subseteq SeatId
    BY BookingConstants DEF SeatsOf
  <2>2. my[w] \in Local /\ my \in [Worker -> Local] /\ my'[w] = [my[w] EXCEPT !.seats = S, !.todo = S]
    BY <1>a DEF TypeOK
  <2>3. /\ my'[w] \in Local /\ my'[w].op = my[w].op /\ my'[w].user = my[w].user
        /\ my'[w].bid = my[w].bid /\ my'[w].seats = S /\ my'[w].todo = S
    BY <2>1, <2>2 DEF Local
  <2>4. /\ pc' \in [Worker -> Label] /\ \A v \in Worker : v # w => pc'[v] = pc[v]
        /\ pc'[w] = IF S = {} THEN "cancel" ELSE "lock_seat"
    BY <1>a DEF TypeOK, Label
  <2> QED BY <1>a, <2>2, <2>3, <2>4
<1>1. TypeOK'
  BY <1>a, <1>b DEF TypeOK, TP!RL!HeldType
<1>2. LocksAreExclusive'
  BY <1>a DEF LocksAreExclusive
<1>3. WorkersHaveTheirLocks'
  BY <1>a, <1>b DEF WorkersHaveTheirLocks, HasSeat
<1>4. VerifiedSeatsStayFree'
  BY <1>a, <1>b DEF VerifiedSeatsStayFree, Verified
<1>5. BookingsStayPut'
  <2>1. my[w].op = "cancel" /\ my[w].bid \in BookingId /\ MayCancel(w, my[w].bid)
    BY <1>a DEF BookingsStayPut, CancelSteps
  <2>2. /\ \A v \in Worker, b \in BookingId : MayCancel(v, b)' <=> MayCancel(v, b)
        /\ \A b \in BookingId : SeatsOf(b)' = SeatsOf(b)
        /\ \A v \in Worker : my'[v].user = my[v].user /\ my'[v].bid = my[v].bid /\ my'[v].op = my[v].op
        /\ bookings' = bookings
    BY <1>a, <1>b DEF MayCancel, SeatsOf
  <2>3. pc'[w] \in {"lock_seat", "cancel"} /\ my'[w].seats = SeatsOf(my[w].bid)
    BY <1>b
  <2> QED BY <1>b, <2>1, <2>2, <2>3 DEF BookingsStayPut, CancelSteps
<1>6. RowsHaveBookings'
  BY <1>a DEF RowsHaveBookings
<1>7. RowsAreAccountedFor'
  BY <1>a, <1>b DEF RowsAreAccountedFor, AboutToBook, HasFreed
<1>8. RowsAreDisjoint'
  BY <1>a DEF RowsAreDisjoint
<1> QED BY <1>1, <1>2, <1>3, <1>4, <1>5, <1>6, <1>7, <1>8

(* The seats of a BOOK command, cut to the limit, are seat ids.            *)
LEMMA CappedSeats ==
    ASSUME NEW args \in Args
    PROVE  Capped(args) \in Seq(SeatId) /\ ToSet(Capped(args)) \subseteq SeatId
<1>1. args \in Seq(SeatId) /\ Len(args) \in Nat /\ MaxSeatsPerBooking \in Nat
  BY BookingConstants
<1>2. Min({Len(args), MaxSeatsPerBooking}) \in 0..Len(args)
  <2> DEFINE m == IF Len(args) <= MaxSeatsPerBooking THEN Len(args) ELSE MaxSeatsPerBooking
  <2>1. m \in {Len(args), MaxSeatsPerBooking} /\ \A y \in {Len(args), MaxSeatsPerBooking} : m <= y
    BY <1>1
  <2>2. ASSUME NEW x \in {Len(args), MaxSeatsPerBooking}, \A y \in {Len(args), MaxSeatsPerBooking} : x <= y
        PROVE  x \in 0..Len(args)
    BY <1>1, <2>2
  <2> HIDE DEF m
  <2> QED BY <2>1, <2>2 DEF Min
<1> DEFINE k == Min({Len(args), MaxSeatsPerBooking})
<1>3. SubSeq(args, 1, k) \in Seq(SeatId)
  <2> HIDE DEF k
  <2>1. k \in Nat /\ k <= Len(args)
    BY <1>1, <1>2 DEF k
  <2>2. \A i \in 1..k : args[i] \in SeatId
    BY <1>1, <2>1
  <2>3. 1 \in Int /\ k \in Int
    BY <2>1
  <2> QED BY <2>2, <2>3, SubSeqProperties, Zenon
<1>4. \A q \in Seq(SeatId) : ToSet(q) \subseteq SeatId
  BY DEF ToSet
<1>5. Capped(args) = SubSeq(args, 1, k)
  BY DEF Capped
<1> QED BY <1>3, <1>4, <1>5, Zenon

(* A BOOK command starts, or is refused before its transaction begins.     *)
LEMMA BookStep ==
    ASSUME IInv, NEW w \in Worker, NEW u \in User, NEW e \in Event, NEW args \in Args, Book(w, u, e, args)
    PROVE  IInv'
<1> DEFINE S == ToSet(Capped(args))
           m == [Idle EXCEPT !.op = "book", !.user = u, !.event = e, !.seats = S, !.todo = S]
<1>a. /\ pc[w] = "idle" /\ issued < MaxCommands /\ issued' = issued + 1
      /\ UNCHANGED <<events, seats, bookings, next_booking_id, booking_seats, held, phase, acked, cancels, faults>>
  BY DEF Book, tables
<1>b. /\ pc \in [Worker -> Label] /\ my \in [Worker -> Local] /\ my[w].todo \subseteq my[w].seats
  BY DEF IInv, TypeOK, WorkersHaveTheirLocks
<1>c. m \in Local /\ m.todo = m.seats /\ m.op = "book"
  BY CappedSeats DEF Idle, Local
<1> HIDE DEF m, S
<1>d. \/ pc' = [pc EXCEPT ![w] = "begin"] /\ my' = [my EXCEPT ![w] = m]
      \/ pc' = [pc EXCEPT ![w] = "reply"] /\ my' = my
  BY DEF Book, goto, m, S
<1>e. /\ pc' \in [Worker -> Label] /\ my' \in [Worker -> Local]
      /\ \A v \in Worker : v # w => pc'[v] = pc[v] /\ my'[v] = my[v]
      /\ my'[w].todo \subseteq my'[w].seats /\ pc'[w] \in {"begin", "reply"}
      /\ pc'[w] = "begin" => my'[w].todo = my'[w].seats /\ my'[w].op = "book"
  BY <1>b, <1>c, <1>d DEF Label
<1>1. TypeOK'
  BY <1>a, <1>e, BookingConstants DEF IInv, TypeOK, TP!RL!HeldType
<1>2. LocksAreExclusive'
  BY <1>a DEF IInv, LocksAreExclusive
<1> QED BY <1>1, <1>2, <1>a, <1>e, QuietStep

(* A CANCEL command starts.                                                *)
LEMMA CancelStep ==
    ASSUME IInv, NEW w \in Worker, NEW u \in User, NEW b \in BookingId, Cancel(w, u, b)
    PROVE  IInv'
<1> DEFINE m == [Idle EXCEPT !.op = "cancel", !.user = u, !.bid = b]
<1>a. /\ pc[w] = "idle" /\ issued < MaxCommands /\ issued' = issued + 1
      /\ pc' = [pc EXCEPT ![w] = "begin"] /\ my' = [my EXCEPT ![w] = m]
      /\ cancels' = [cancels EXCEPT ![b].early = @ \/ acked[b] = {}]
      /\ UNCHANGED <<events, seats, bookings, next_booking_id, booking_seats, held, phase, acked, faults>>
  BY DEF Cancel, tables, goto
<1>b. m \in Local /\ m.todo = m.seats /\ m.op = "cancel" /\ m.bid = b
  BY DEF Idle, Local
<1> HIDE DEF m
<1>c. /\ pc' \in [Worker -> Label] /\ my' \in [Worker -> Local] /\ my'[w] = m /\ pc'[w] = "begin"
      /\ \A v \in Worker : v # w => pc'[v] = pc[v] /\ my'[v] = my[v]
  BY <1>a, <1>b DEF IInv, TypeOK, Label
<1>d. cancels' \in [BookingId -> Tally]
  BY <1>a DEF IInv, TypeOK, Tally
<1>1. TypeOK'
  BY <1>a, <1>c, <1>d, BookingConstants, SMTT(30) DEF IInv, TypeOK, TP!RL!HeldType
<1>2. LocksAreExclusive'
  BY <1>a DEF IInv, LocksAreExclusive
<1> QED BY <1>1, <1>2, <1>a, <1>b, <1>c, QuietStep

(* Deleting an event leaves the seats and the bookings alone.              *)
LEMMA DeleteEventStep ==
    ASSUME IInv, NEW w \in Worker, NEW e \in Event, DeleteEvent(w, e)
    PROVE  IInv'
<1>a. /\ pc[w] = "idle" /\ issued < MaxCommands /\ issued' = issued + 1 /\ events' = events \ {e}
      /\ UNCHANGED <<seats, bookings, next_booking_id, booking_seats, held, phase, pc, my, acked, cancels, faults>>
  BY DEF DeleteEvent
<1>1. TypeOK'
  BY <1>a, BookingConstants DEF IInv, TypeOK, TP!RL!HeldType
<1>2. LocksAreExclusive'
  BY <1>a DEF IInv, LocksAreExclusive
<1>3. my[w].todo \subseteq my[w].seats
  BY DEF IInv, WorkersHaveTheirLocks
<1> QED BY <1>1, <1>2, <1>3, <1>a, QuietStep

(* txn_begin fails and the client is told.                                 *)
LEMMA NoSlotStep ==
    ASSUME IInv, NEW w \in Worker, NoSlot(w)
    PROVE  IInv'
<1>a. /\ pc[w] = "begin" /\ pc' = [pc EXCEPT ![w] = "reply"]
      /\ UNCHANGED <<events, seats, bookings, next_booking_id, booking_seats, held, phase, my,
                     acked, cancels, issued, faults>>
  BY DEF NoSlot, tables, goto
<1>b. /\ pc' \in [Worker -> Label] /\ pc'[w] = "reply" /\ my[w].todo \subseteq my[w].seats
      /\ \A v \in Worker : v # w => pc'[v] = pc[v]
  BY <1>a DEF IInv, TypeOK, WorkersHaveTheirLocks, Label
<1>1. TypeOK'
  BY <1>a, <1>b DEF IInv, TypeOK, TP!RL!HeldType
<1>2. LocksAreExclusive'
  BY <1>a DEF IInv, LocksAreExclusive
<1> QED BY <1>1, <1>2, <1>a, <1>b, QuietStep

(* A seat is not available: booking_book_seats aborts before it has        *)
(* written anything.                                                       *)
LEMMA VerifyFailsStep ==
    ASSUME IInv, NEW w \in Worker, NEW s \in SeatId, VerifySeat(w, s), ~Bookable(w, s)
    PROVE  IInv'
<1>a. /\ pc[w] = "verify" /\ pc' = [pc EXCEPT ![w] = "abort"]
      /\ UNCHANGED <<events, seats, bookings, next_booking_id, booking_seats, held, phase, my,
                     acked, cancels, issued, faults>>
  BY DEF VerifySeat, tables, goto
<1>b. /\ pc' \in [Worker -> Label] /\ pc'[w] = "abort" /\ my[w].todo \subseteq my[w].seats
      /\ \A v \in Worker : v # w => pc'[v] = pc[v]
  BY <1>a DEF IInv, TypeOK, WorkersHaveTheirLocks, Label
<1>1. TypeOK'
  BY <1>a, <1>b DEF IInv, TypeOK, TP!RL!HeldType
<1>2. LocksAreExclusive'
  BY <1>a DEF IInv, LocksAreExclusive
<1> QED BY <1>1, <1>2, <1>a, <1>b, QuietStep

(* The end of the growing phase: the locks are still held.                 *)
LEMMA CommitOrAbortStep ==
    ASSUME IInv, NEW w \in Worker, Commit(w) \/ Abort(w)
    PROVE  IInv'
<1>a. /\ pc[w] \in {"commit", "abort"} /\ pc' = [pc EXCEPT ![w] = "release"]
      /\ my' = my \/ my' = [my EXCEPT ![w].ok = TRUE]
      /\ phase' = [phase EXCEPT ![w] = "shrinking"]
      /\ UNCHANGED <<events, seats, bookings, next_booking_id, booking_seats, held, acked, cancels, issued, faults>>
  BY DEF Commit, Abort, TP!End, tables, goto
<1>b. /\ pc' \in [Worker -> Label] /\ pc'[w] = "release"
      /\ \A v \in Worker : v # w => pc'[v] = pc[v]
  BY <1>a DEF IInv, TypeOK, Label
<1>c. /\ my' \in [Worker -> Local] /\ my'[w].todo \subseteq my'[w].seats
      /\ \A v \in Worker : v # w => my'[v] = my[v]
  <2>1. my \in [Worker -> Local] /\ my[w].todo \subseteq my[w].seats
    BY DEF IInv, TypeOK, WorkersHaveTheirLocks
  <2> QED BY <1>a, <2>1, ZenonT(40) DEF Local
<1>1. TypeOK'
  BY <1>a, <1>b, <1>c DEF IInv, TypeOK, TP!RL!HeldType
<1>2. LocksAreExclusive'
  BY <1>a DEF IInv, LocksAreExclusive
<1> QED BY <1>1, <1>2, <1>a, <1>b, <1>c, QuietStep

(* A lock is given back, when nothing depends on it any more.              *)
LEMMA ReleaseStep ==
    ASSUME IInv, NEW w \in Worker, NEW r \in Record, Release(w, r)
    PROVE  IInv'
<1>a. /\ pc[w] = "release" /\ held' = [held EXCEPT ![w][r] = "none"]
      /\ UNCHANGED <<events, seats, bookings, next_booking_id, booking_seats, phase, pc, my,
                     acked, cancels, issued, faults>>
  BY DEF Release, TP!Unlock, TP!RL!Release, tables
<1>b. /\ TP!RL!HeldType' /\ \A v \in Worker : v # w => held'[v] = held[v]
      /\ \A v \in Worker, q \in Record : held'[v][q] = held[v][q] \/ held'[v][q] = "none"
  BY <1>a DEF IInv, TypeOK, TP!RL!HeldType, TP!RL!Mode
<1>1. TypeOK'
  BY <1>a, <1>b DEF IInv, TypeOK
<1>2. LocksAreExclusive'
  BY <1>b DEF IInv, LocksAreExclusive
<1>3. my[w].todo \subseteq my[w].seats
  BY DEF IInv, WorkersHaveTheirLocks
<1> QED BY <1>1, <1>2, <1>3, <1>a, <1>b, QuietStep

(* txn_commit or txn_abort returns.                                        *)
LEMMA EndTxnStep ==
    ASSUME IInv, NEW w \in Worker, EndTxn(w)
    PROVE  IInv'
<1>a. /\ pc[w] = "release" /\ pc' = [pc EXCEPT ![w] = "reply"] /\ phase' = [phase EXCEPT ![w] = "none"]
      /\ UNCHANGED <<events, seats, bookings, next_booking_id, booking_seats, held, my, acked, cancels, issued, faults>>
  BY DEF EndTxn, TP!Finish, tables, goto
<1>b. /\ pc' \in [Worker -> Label] /\ pc'[w] = "reply" /\ my[w].todo \subseteq my[w].seats
      /\ \A v \in Worker : v # w => pc'[v] = pc[v]
  BY <1>a DEF IInv, TypeOK, WorkersHaveTheirLocks, Label
<1>1. TypeOK'
  BY <1>a, <1>b DEF IInv, TypeOK, TP!RL!HeldType
<1>2. LocksAreExclusive'
  BY <1>a DEF IInv, LocksAreExclusive
<1> QED BY <1>1, <1>2, <1>a, <1>b, QuietStep

(* The client is answered and the worker is free.                          *)
LEMMA ReplyStep ==
    ASSUME IInv, NEW w \in Worker, Reply(w)
    PROVE  IInv'
<1>a. /\ pc[w] = "reply" /\ pc' = [pc EXCEPT ![w] = "idle"] /\ my' = [my EXCEPT ![w] = Idle]
      /\ acked' = acked \/ acked' = [acked EXCEPT ![my[w].bid] = my[w].seats]
      /\ cancels' = cancels \/ cancels' = [cancels EXCEPT ![my[w].bid].ok = @ + 1]
      /\ UNCHANGED <<events, seats, bookings, next_booking_id, booking_seats, held, phase, issued, faults>>
  BY DEF Reply, tables, goto
<1>b. Idle \in Local /\ Idle.todo \subseteq Idle.seats
  BY DEF Idle, Local
<1>c. /\ pc' \in [Worker -> Label] /\ my' \in [Worker -> Local] /\ pc'[w] = "idle" /\ my'[w] = Idle
      /\ \A v \in Worker : v # w => pc'[v] = pc[v] /\ my'[v] = my[v]
  BY <1>a, <1>b DEF IInv, TypeOK, Label
<1>d. acked' \in [BookingId -> SUBSET SeatId]
  <2>1. my[w].seats \in SUBSET SeatId /\ acked \in [BookingId -> SUBSET SeatId]
    BY DEF IInv, TypeOK, Local
  <2> QED BY <1>a, <2>1
<1>e. cancels' \in [BookingId -> Tally]
  <2>1. cancels \in [BookingId -> Tally]
    BY DEF IInv, TypeOK
  <2>2. \A b \in BookingId : [cancels[b] EXCEPT !.ok = @ + 1] \in Tally
    BY <2>1 DEF Tally
  <2>3. [cancels EXCEPT ![my[w].bid].ok = @ + 1] \in [BookingId -> Tally]
    BY <2>1, <2>2
  <2> QED BY <1>a, <2>1, <2>3
<1>1. TypeOK'
  BY <1>a, <1>c, <1>d, <1>e DEF IInv, TypeOK, TP!RL!HeldType
<1>2. LocksAreExclusive'
  BY <1>a DEF IInv, LocksAreExclusive
<1> QED BY <1>1, <1>2, <1>a, <1>b, <1>c, QuietStep

-----------------------------------------------------------------------------
(* The server starts with every seat available and no booking, no lock and *)
(* no worker busy: the invariant holds of the tables before any command.   *)
LEMMA InitIInv == Init => IInv
<1> SUFFICES ASSUME Init PROVE IInv
  OBVIOUS
<1>a. /\ events = Event /\ seats = [s \in Seat |-> FreeSeat] /\ bookings = [b \in BookingId |-> NoBooking]
      /\ next_booking_id = 1 /\ booking_seats = {}
      /\ held = [t \in Worker |-> [r \in Record |-> "none"]] /\ phase = [t \in Worker |-> "none"]
      /\ pc = [w \in Worker |-> "idle"] /\ my = [w \in Worker |-> Idle]
      /\ acked = [b \in BookingId |-> {}] /\ cancels = [b \in BookingId |-> [ok |-> 0, early |-> FALSE]]
      /\ issued = 0 /\ faults = 0
  BY DEF Init, TP!Init, TP!RL!Init
<1>b. Idle \in Local /\ Idle.todo = {} /\ Idle.seats = {}
  BY DEF Idle, Local
<1>c. /\ FreeSeat \in [status : {"AVAILABLE", "BOOKED"}, booked_by : User \cup {NULL}]
      /\ NoBooking \in [user : User \cup {NULL}, seat_count : Nat, status : Status]
  BY DEF FreeSeat, NoBooking, Status
<1>d. [ok |-> 0, early |-> FALSE] \in Tally
  BY DEF Tally
<1>1. TypeOK
  BY <1>a, <1>b, <1>c, <1>d, BookingConstants DEF TypeOK, Label, TP!RL!HeldType
<1>2. LocksAreExclusive
  BY <1>a DEF LocksAreExclusive
<1>3. WorkersHaveTheirLocks
  BY <1>a, <1>b DEF WorkersHaveTheirLocks
<1>4. VerifiedSeatsStayFree
  BY <1>a DEF VerifiedSeatsStayFree, Verified
<1>5. BookingsStayPut
  BY <1>a DEF BookingsStayPut, CancelSteps
<1>6. RowsHaveBookings /\ RowsAreAccountedFor /\ RowsAreDisjoint
  BY <1>a DEF RowsHaveBookings, RowsAreAccountedFor, RowsAreDisjoint
<1> QED BY <1>1, <1>2, <1>3, <1>4, <1>5, <1>6 DEF IInv

(* The commands of main.c that reach the booking engine preserve the       *)
(* invariant.                                                              *)
LEMMA CommandStep ==
    ASSUME IInv, NEW w \in Worker, Command(w)
    PROVE  IInv'
<1> HIDE DEF IInv
<1>1. ASSUME NEW u \in User, NEW e \in Event, NEW args \in Args, Book(w, u, e, args)
      PROVE  IInv'
  BY <1>1, BookStep
<1>2. ASSUME NEW u \in User, NEW b \in BookingId, Cancel(w, u, b)
      PROVE  IInv'
  BY <1>2, CancelStep
<1>3. ASSUME NEW e \in Event, DeleteEvent(w, e)
      PROVE  IInv'
  BY <1>3, DeleteEventStep
<1> QED BY <1>1, <1>2, <1>3 DEF Command

(* Every step of booking_book_seats and booking_cancel preserves the       *)
(* invariant.                                                              *)
LEMMA WorkerStep ==
    ASSUME IInv, NEW w \in Worker, Step(w)
    PROVE  IInv'
<1>1. CASE Begin(w) \/ NoSlot(w)
  BY <1>1, BeginStep, NoSlotStep
<1>2. CASE InsertBooking(w) \/ MarkCancelled(w)
  BY <1>2, InsertBookingStep, MarkCancelledStep
<1>3. CASE LockBooking(w) \/ CheckBooking(w) \/ ScanBookingSeats(w)
  BY <1>3, LockBookingStep, CheckBookingStep, ScanBookingSeatsStep
<1>4. CASE Commit(w) \/ Abort(w) \/ EndTxn(w) \/ Reply(w)
  BY <1>4, CommitOrAbortStep, EndTxnStep, ReplyStep
<1>5. ASSUME NEW r \in Record, Release(w, r)
      PROVE  IInv'
  BY <1>5, ReleaseStep
<1>6. ASSUME NEW s \in SeatId, LockSeat(w, s) \/ InsertBookingSeat(w, s) \/ MarkBooked(w, s)
      PROVE  IInv'
  BY <1>6, LockSeatStep, InsertBookingSeatStep, MarkBookedStep
<1>7. ASSUME NEW s \in SeatId, LockBookedSeat(w, s) \/ ReleaseSeat(w, s)
      PROVE  IInv'
  BY <1>7, LockBookedSeatStep, ReleaseSeatStep
<1>8. ASSUME NEW s \in SeatId, VerifySeat(w, s)
      PROVE  IInv'
  BY <1>8, VerifySeatStep, VerifyFailsStep
<1> QED BY <1>1, <1>2, <1>3, <1>4, <1>5, <1>6, <1>7, <1>8 DEF Step

(* Only a failing call counts as one.                                      *)
LEMMA FaultsAreCounted ==
    ASSUME faults \in Nat, [Next]_vars
    PROVE  /\ faults' \in Nat
           /\ faults' = 0 => faults = 0 /\ \A w \in Worker : ~Fault(w)
<1>1. CASE UNCHANGED vars
  BY <1>1 DEF vars, Fault
<1>2. ASSUME NEW w \in Worker, Command(w)
      PROVE  faults' = faults
  BY <1>2 DEF Command, Book, Cancel, DeleteEvent
<1>3. ASSUME NEW w \in Worker, Step(w)
      PROVE  faults' = faults
  BY <1>3 DEF Step, Begin, NoSlot, InsertBooking, LockBooking, CheckBooking, ScanBookingSeats, MarkCancelled,
     Commit, Abort, EndTxn, Reply, Release, LockSeat, VerifySeat, InsertBookingSeat, MarkBooked,
     LockBookedSeat, ReleaseSeat
<1>4. ASSUME NEW w \in Worker, Fault(w)
      PROVE  faults' = faults + 1
  BY <1>4 DEF Fault
<1>5. faults' = faults \/ faults' = faults + 1
  BY <1>1, <1>2, <1>3, <1>4 DEF Next, Quiescent, vars
<1>6. faults' = 0 => \A w \in Worker : ~Fault(w)
  BY <1>4
<1> QED BY <1>5, <1>6

(* No step but a failing call leaves the invariant.                        *)
LEMMA NextIInv ==
    ASSUME IInv, [Next]_vars, \A w \in Worker : ~Fault(w)
    PROVE  IInv'
<1>1. CASE UNCHANGED vars
  BY <1>1 DEF vars, tables, IInv, TypeOK, TP!RL!HeldType, LocksAreExclusive, WorkersHaveTheirLocks,
     VerifiedSeatsStayFree, BookingsStayPut, RowsHaveBookings, RowsAreAccountedFor,
     RowsAreDisjoint, HasSeat, Verified, AboutToBook, HasFreed, MayCancel, SeatsOf
<1>2. ASSUME NEW w \in Worker, Command(w)
      PROVE  IInv'
  BY <1>2, CommandStep
<1>3. ASSUME NEW w \in Worker, Step(w)
      PROVE  IInv'
  BY <1>3, WorkerStep
<1> QED BY <1>1, <1>2, <1>3 DEF Next, Quiescent

(* The invariant holds in every state that any number of workers reach     *)
(* with any commands before a call fails.                                  *)
THEOREM BookingInvariant == Spec => []IInvUntilAFault
<1>1. Init => IInvUntilAFault
  BY InitIInv DEF Init, IInvUntilAFault
<1>2. IInvUntilAFault /\ [Next]_vars => IInvUntilAFault'
  BY FaultsAreCounted, NextIInv DEF IInvUntilAFault
<1> QED BY <1>1, <1>2, PTL DEF Spec

(* "No two bookings can claim the same seat" (booking_engine.c:71), for    *)
(* every number of workers, seats, users and commands: the check of the    *)
(* seats that booking_book_seats makes under their locks is enough,        *)
(* whatever other bookings, cancellations and deletions of events go on,   *)
(* until a call fails.                                                     *)
THEOREM NoDoubleBooking == Spec => []ConfirmedBookingsAreDisjoint
<1>1. IInvUntilAFault => ConfirmedBookingsAreDisjoint
  BY DEF IInvUntilAFault, IInv, ConfirmedBookingsAreDisjoint
<1> QED BY <1>1, BookingInvariant, PTL

(* Only MarkBooked and ReleaseSeat write the seats table.                  *)
LEMMA SeatWriters ==
    ASSUME IInv, [Next]_vars, NEW s \in Seat, seats'[s] # seats[s]
    PROVE  \E w \in Worker : MarkBooked(w, s) \/ ReleaseSeat(w, s)
<1>1. \A w \in Worker : ~Fault(w)
  BY DEF Fault, CallFails, InsertBookingFails, InsertBookingSeatFails, ScanMissesRows, FindSeatFails, tables
<1>2. ~UNCHANGED vars
  BY DEF vars, tables
<1>3. PICK w \in Worker : Command(w) \/ Step(w)
  BY <1>1, <1>2 DEF Next, Quiescent
<1>4. ~Command(w)
  BY DEF Command, Book, Cancel, DeleteEvent, tables
<1>5. /\ ~Begin(w) /\ ~NoSlot(w) /\ ~InsertBooking(w) /\ ~LockBooking(w) /\ ~CheckBooking(w)
      /\ ~ScanBookingSeats(w) /\ ~MarkCancelled(w) /\ ~Commit(w) /\ ~Abort(w) /\ ~EndTxn(w) /\ ~Reply(w)
      /\ \A r \in Record : ~Release(w, r)
  BY DEF Begin, NoSlot, InsertBooking, LockBooking, CheckBooking, ScanBookingSeats, MarkCancelled,
     Commit, Abort, EndTxn, Reply, Release, tables
<1>6. \A x \in SeatId : ~LockSeat(w, x) /\ ~VerifySeat(w, x) /\ ~InsertBookingSeat(w, x) /\ ~LockBookedSeat(w, x)
  BY DEF LockSeat, VerifySeat, InsertBookingSeat, LockBookedSeat, tables
<1>7. PICK x \in SeatId : MarkBooked(w, x) \/ ReleaseSeat(w, x)
  BY <1>3, <1>4, <1>5, <1>6 DEF Step
<1>8. x = s
  BY <1>7 DEF MarkBooked, ReleaseSeat, IInv, TypeOK
<1> QED BY <1>7, <1>8

(* A booked seat changes hands only through a cancellation by its own user *)
(* that has the lock of the seat, until a call fails: neither a booking    *)
(* nor the cancellation of another booking overwrites it.                  *)
THEOREM SeatOwnership == Spec => SeatsKeepTheirOwner
<1> DEFINE Act == \A s \in Seat : seats[s].status = "BOOKED" /\ seats'[s] # seats[s] =>
                    /\ seats'[s] = FreeSeat
                    /\ \E w \in Worker : /\ Cancelling(w, my[w].bid) /\ my[w].user = seats[s].booked_by
                                         /\ held[w][SeatRecord(s)] = "EXCLUSIVE"
<1>1. IInv /\ [Next]_vars => Act
  <2> SUFFICES ASSUME IInv, [Next]_vars, NEW s \in Seat, seats[s].status = "BOOKED", seats'[s] # seats[s]
               PROVE  /\ seats'[s] = FreeSeat
                      /\ \E w \in Worker : /\ Cancelling(w, my[w].bid) /\ my[w].user = seats[s].booked_by
                                           /\ held[w][SeatRecord(s)] = "EXCLUSIVE"
    OBVIOUS
  <2>1. PICK w \in Worker : MarkBooked(w, s) \/ ReleaseSeat(w, s)
    BY SeatWriters
  <2>2. ~MarkBooked(w, s)
    BY DEF MarkBooked, Lowest, IInv, VerifiedSeatsStayFree, Verified
  <2>3. /\ pc[w] = "free" /\ Lowest(s, my[w].todo) /\ seats' = [seats EXCEPT ![s] = FreeSeat]
    BY <2>1, <2>2 DEF ReleaseSeat
  <2>4. s \in my[w].todo /\ my[w].todo \subseteq my[w].seats /\ HasSeat(w, s)
    BY <2>3 DEF Lowest, IInv, WorkersHaveTheirLocks
  <2>5. /\ my[w].op = "cancel" /\ my[w].bid \in BookingId /\ MayCancel(w, my[w].bid)
        /\ <<my[w].bid, s>> \in booking_seats
    BY <2>3, <2>4 DEF IInv, BookingsStayPut, CancelSteps, SeatsOf
  <2>6. ~AboutToBook(w, my[w].bid, s) /\ ~HasFreed(w, my[w].bid, s)
    BY <2>3, <2>4 DEF AboutToBook, HasFreed
  <2>7. seats[s] = [status |-> "BOOKED", booked_by |-> my[w].user]
    BY <2>4, <2>5, <2>6, RowsOfLockedSeat DEF MayCancel
  <2>8. seats'[s] = FreeSeat
    BY <2>3 DEF IInv, TypeOK
  <2> QED BY <2>3, <2>4, <2>5, <2>7, <2>8 DEF Cancelling, HasSeat
<1>2. IInvUntilAFault /\ [Next]_vars => [faults = 0 => Act]_vars
  BY <1>1 DEF IInvUntilAFault
<1> QED BY <1>2, BookingInvariant, PTL DEF Spec, SeatsKeepTheirOwner

-----------------------------------------------------------------------------
(* The invariant of the commands, which failing calls keep.  Its parts say *)
(* how far a worker has come with its own command, ...                     *)
StepIsInOrder(w) ==
    /\ pc[w] = "idle" => my[w].op = "none"
    /\ my[w].ok => pc[w] \in {"release", "reply"}
    /\ my[w].todo \subseteq my[w].seats
    /\ pc[w] = "begin" => my[w].op \in {"book", "cancel"} /\ (my[w].op = "book" => my[w].bid = 0)
    /\ pc[w] \in {"lock", "verify", "insert"} => my[w].op = "book" /\ my[w].bid = 0
    /\ pc[w] = "verify" => my[w].seats \ my[w].todo \subseteq Seat
    /\ pc[w] = "insert" => my[w].seats \subseteq Seat /\ my[w].todo = my[w].seats
    /\ pc[w] \in {"link", "mark"} => my[w].op = "book"
    /\ pc[w] \in CancelSteps => my[w].op = "cancel"
    /\ my[w].op = "cancel" => my[w].bid \in BookingId

\* ... that a booking under way has the junction rows it should have by now, ...
HasBooked(w) == my[w].op = "book" /\ (pc[w] \in {"link", "mark", "commit"} \/ my[w].ok)

Linked(w) == CASE pc[w] = "link" -> my[w].seats \ my[w].todo
               [] pc[w] = "mark" -> {s \in my[w].seats : s \notin my[w].todo \/ Lowest(s, my[w].todo)}
               [] OTHER -> my[w].seats

BookerHasItsRows(w) ==
    /\ my[w].op = "book" /\ my[w].bid # 0 => my[w].bid < next_booking_id /\ acked[my[w].bid] = {}
    /\ HasBooked(w) =>
          /\ my[w].bid \in BookingId /\ my[w].seats \subseteq Seat
          /\ bookings[my[w].bid].status \in {"CONFIRMED", "CANCELLED"}
          /\ bookings[my[w].bid].seat_count = Cardinality(my[w].seats)
          /\ SeatsOf(my[w].bid) = Linked(w)

\* ... that a cancellation has its booking to itself, ...
HasCancelled(w) == my[w].op = "cancel" /\ (pc[w] = "commit" \/ my[w].ok)

CancellerHasItsBooking(w) ==
    /\ pc[w] \in CancelSteps \ {"lock_booking"} => held[w][BookingRecord(my[w].bid)] = "EXCLUSIVE"
    /\ pc[w] \in CancelSteps \ {"lock_booking", "check"} => bookings[my[w].bid].status = "CONFIRMED"
    /\ HasCancelled(w) => bookings[my[w].bid].status = "CANCELLED" /\ cancels[my[w].bid].ok = 0
    /\ my[w].op = "cancel" /\ ~cancels[my[w].bid].early => acked[my[w].bid] # {}

\* ... that no two workers make, or have just cancelled, the same booking, ...
BookingsHaveOneWorker ==
    \A w, v \in Worker :
        my[w].bid = my[v].bid /\ my[w].bid # 0 =>
            /\ my[w].op = "book" /\ my[v].op = "book" => w = v
            /\ HasCancelled(w) /\ HasCancelled(v) => w = v

\* ... and what the answers given so far stand for.
AnswersAreKept ==
    \A b \in BookingId :
        /\ acked[b] # {} => /\ bookings[b].status \in {"CONFIRMED", "CANCELLED"}
                            /\ SeatsOf(b) = acked[b] /\ bookings[b].seat_count = Cardinality(acked[b])
        /\ cancels[b].ok <= 1 /\ (cancels[b].ok # 0 => bookings[b].status = "CANCELLED")
        /\ bookings[b].status = "CANCELLED" /\ acked[b] = {} => cancels[b].early

CmdInv ==
    /\ TypeOK
    /\ LocksAreExclusive
    /\ RowsHaveBookings
    /\ \A w \in Worker : StepIsInOrder(w) /\ BookerHasItsRows(w) /\ CancellerHasItsBooking(w)
    /\ BookingsHaveOneWorker
    /\ AnswersAreKept

(* The invariant of the race between BOOK and CANCEL, until a call fails:  *)
(* a cancellation that came after the reply frees every seat of its        *)
(* booking, so a seat that is still booked has a booking behind it.        *)
CancelFreesItsSeats(w) ==
    pc[w] \in {"lock_seat", "free", "cancel"} =>
        /\ ~cancels[my[w].bid].early => my[w].seats = SeatsOf(my[w].bid)
        /\ \A s \in my[w].seats : pc[w] = "cancel" \/ s \notin my[w].todo => seats[s].status = "AVAILABLE"

SeatsHaveABooking ==
    \A s \in Seat : seats[s].status = "BOOKED" =>
        \E b \in BookingId : /\ <<b, s>> \in booking_seats
                             /\ bookings[b].status = "CONFIRMED" \/ cancels[b].early
                             /\ bookings[b].user = seats[s].booked_by

SeatsAreBacked == (\A w \in Worker : CancelFreesItsSeats(w)) /\ SeatsHaveABooking

RaceInv == CmdInv /\ IInvUntilAFault /\ (faults = 0 => SeatsAreBacked)

-----------------------------------------------------------------------------
(* The end of a loop body leaves the answer of the command open.           *)
LEMMA IterateKeepsOk ==
    ASSUME my \in [Worker -> Local], NEW w \in Worker, NEW s, NEW l, NEW after, Iterate(w, s, l, after)
    PROVE  my'[w].ok = my[w].ok
<1>1. CASE my[w].todo = {s}
  BY <1>1 DEF Iterate, goto, Local
<1>2. CASE my[w].todo # {s}
  BY <1>2 DEF Iterate, goto, Local
<1> QED BY <1>1, <1>2

(* A lock request that is granted to worker w.                             *)
LEMMA LockIsGranted ==
    ASSUME TypeOK, LocksAreExclusive, NEW w \in Worker, NEW r \in Record, TP!Lock(w, r)
    PROVE  /\ TP!RL!HeldType' /\ LocksAreExclusive' /\ phase' = phase
           /\ held'[w][r] = "EXCLUSIVE"
           /\ \A q \in Record : q # r => held'[w][q] = held[w][q]
           /\ \A v \in Worker : v # w => held'[v] = held[v]
<1>1. /\ held \in [Worker -> [Record -> {"SHARED", "EXCLUSIVE"} \cup {"none"}]]
      /\ \A u \in Worker : held[u][r] = "none"
      /\ held' = [held EXCEPT ![w][r] = "EXCLUSIVE"] /\ phase' = phase
  BY DEF TypeOK, TP!RL!HeldType, TP!RL!Mode, TP!Lock, TP!RL!Acquire, TP!RL!Compatible
<1>2. LocksAreExclusive'
  BY <1>1 DEF LocksAreExclusive
<1>3. TP!RL!HeldType'
  BY <1>1 DEF TP!RL!HeldType, TP!RL!Mode
<1> QED BY <1>1, <1>2, <1>3

(* A step of worker w that leaves bookings and junction rows, and the      *)
(* answers given, as they are.                                             *)
LEMMA QuietCommandStep ==
    ASSUME CmdInv, TypeOK', LocksAreExclusive', NEW w \in Worker,
           UNCHANGED <<bookings, next_booking_id, booking_seats, acked, cancels>>,
           \A v \in Worker : v # w => pc'[v] = pc[v] /\ my'[v] = my[v] /\ held'[v] = held[v],
           StepIsInOrder(w)', BookerHasItsRows(w)', CancellerHasItsBooking(w)',
           my'[w].op = "book" /\ my'[w].bid # 0 => my[w].op = "book" /\ my[w].bid = my'[w].bid,
           HasCancelled(w)' => HasCancelled(w) /\ my[w].bid = my'[w].bid
    PROVE  CmdInv'
<1>1. RowsHaveBookings'
  BY DEF CmdInv, RowsHaveBookings
<1>2. ASSUME NEW v \in Worker
      PROVE  StepIsInOrder(v)' /\ BookerHasItsRows(v)' /\ CancellerHasItsBooking(v)'
  <2>1. CASE v = w
    BY <2>1
  <2>2. CASE v # w
    <3>1. pc'[v] = pc[v] /\ my'[v] = my[v] /\ held'[v] = held[v]
      BY <2>2
    <3>2. StepIsInOrder(v)'
      BY <3>1 DEF CmdInv, StepIsInOrder
    <3>3. BookerHasItsRows(v)'
      BY <3>1 DEF CmdInv, BookerHasItsRows, HasBooked, Linked, SeatsOf
    <3>4. CancellerHasItsBooking(v)'
      BY <3>1 DEF CmdInv, CancellerHasItsBooking, HasCancelled
    <3> QED BY <3>2, <3>3, <3>4
  <2> QED BY <2>1, <2>2
<1>3. BookingsHaveOneWorker'
  <2>1. \A v \in Worker : HasCancelled(v)' => HasCancelled(v) /\ my[v].bid = my'[v].bid
    BY DEF HasCancelled
  <2>2. \A v \in Worker : my'[v].op = "book" /\ my'[v].bid # 0 => my[v].op = "book" /\ my[v].bid = my'[v].bid
    OBVIOUS
  <2> SUFFICES ASSUME NEW x \in Worker, NEW y \in Worker, my'[x].bid = my'[y].bid, my'[x].bid # 0
               PROVE  /\ my'[x].op = "book" /\ my'[y].op = "book" => x = y
                      /\ HasCancelled(x)' /\ HasCancelled(y)' => x = y
    BY DEF BookingsHaveOneWorker
  <2>3. my'[x].op = "book" /\ my'[y].op = "book" => x = y
    BY <2>2 DEF CmdInv, BookingsHaveOneWorker
  <2>4. HasCancelled(x)' /\ HasCancelled(y)' => x = y
    BY <2>1 DEF CmdInv, BookingsHaveOneWorker
  <2> QED BY <2>3, <2>4
<1>4. AnswersAreKept'
  BY DEF CmdInv, AnswersAreKept, SeatsOf
<1> QED BY <1>1, <1>2, <1>3, <1>4 DEF CmdInv

(* A command is given up, before or after its transaction began: the tables *)
(* stay as they are, and nothing more is claimed of its booking.           *)
LEMMA GiveUpStep ==
    ASSUME CmdInv, NEW w \in Worker, NEW l \in {"abort", "release", "reply"},
           pc[w] \notin {"release", "reply"}, pc' = [pc EXCEPT ![w] = l],
           UNCHANGED <<tables, held, my, acked, cancels, issued>>,
           phase' \in [Worker -> {"none", "growing", "shrinking"}], faults' \in 0..MaxFaults
    PROVE  CmdInv'
<1>a. /\ UNCHANGED <<events, seats, bookings, next_booking_id, booking_seats>>
      /\ pc' \in [Worker -> Label] /\ pc'[w] = l /\ \A v \in Worker : v # w => pc'[v] = pc[v]
  BY DEF CmdInv, TypeOK, Label, tables
<1>b. my[w].ok = FALSE /\ StepIsInOrder(w)
  BY DEF CmdInv, StepIsInOrder, TypeOK, Local
<1>1. TypeOK'
  BY <1>a DEF CmdInv, TypeOK, TP!RL!HeldType
<1>2. LocksAreExclusive'
  BY DEF CmdInv, LocksAreExclusive
<1>3. StepIsInOrder(w)'
  BY <1>a, <1>b DEF StepIsInOrder, CancelSteps
<1>4. BookerHasItsRows(w)' /\ ~HasCancelled(w)'
  BY <1>a, <1>b DEF CmdInv, BookerHasItsRows, HasBooked, HasCancelled
<1>5. CancellerHasItsBooking(w)'
  BY <1>a, <1>b, <1>4 DEF CmdInv, CancellerHasItsBooking, CancelSteps
<1> QED BY <1>a, <1>1, <1>2, <1>3, <1>4, <1>5, QuietCommandStep

(* A BOOK command starts, or is refused before its transaction begins.     *)
LEMMA BookCommand ==
    ASSUME CmdInv, NEW w \in Worker, NEW u \in User, NEW e \in Event, NEW args \in Args, Book(w, u, e, args)
    PROVE  CmdInv'
<1> DEFINE S == ToSet(Capped(args))
           m == [Idle EXCEPT !.op = "book", !.user = u, !.event = e, !.seats = S, !.todo = S]
<1>a. /\ pc[w] = "idle" /\ issued < MaxCommands /\ issued' = issued + 1
      /\ UNCHANGED <<events, seats, bookings, next_booking_id, booking_seats, held, phase, acked, cancels, faults>>
  BY DEF Book, tables
<1>b. pc \in [Worker -> Label] /\ my \in [Worker -> Local] /\ my[w].op = "none" /\ my[w].ok = FALSE
  BY <1>a DEF CmdInv, TypeOK, StepIsInOrder, Local
<1>c. m \in Local /\ m.todo = m.seats /\ m.op = "book" /\ m.bid = 0 /\ m.ok = FALSE
  BY CappedSeats DEF Idle, Local
<1> HIDE DEF m, S
<1>d. \/ pc' = [pc EXCEPT ![w] = "begin"] /\ my' = [my EXCEPT ![w] = m]
      \/ pc' = [pc EXCEPT ![w] = "reply"] /\ my' = my
  BY DEF Book, goto, m, S
<1>e. /\ pc' \in [Worker -> Label] /\ my' \in [Worker -> Local]
      /\ \A v \in Worker : v # w => pc'[v] = pc[v] /\ my'[v] = my[v]
      /\ \/ pc'[w] = "begin" /\ my'[w] = m
         \/ pc'[w] = "reply" /\ my'[w] = my[w]
  BY <1>b, <1>c, <1>d DEF Label
<1>1. TypeOK'
  BY <1>a, <1>e, BookingConstants DEF CmdInv, TypeOK, TP!RL!HeldType
<1>2. LocksAreExclusive'
  BY <1>a DEF CmdInv, LocksAreExclusive
<1>3. StepIsInOrder(w)'
  <2>1. my[w].todo \subseteq my[w].seats
    BY DEF CmdInv, StepIsInOrder
  <2> QED BY <1>b, <1>c, <1>e, <2>1 DEF StepIsInOrder, CancelSteps
<1>4. BookerHasItsRows(w)' /\ ~HasCancelled(w)'
  BY <1>b, <1>c, <1>e DEF BookerHasItsRows, HasBooked, HasCancelled
<1>5. CancellerHasItsBooking(w)'
  BY <1>b, <1>c, <1>e, <1>4 DEF CancellerHasItsBooking, CancelSteps
<1> QED BY <1>a, <1>b, <1>c, <1>e, <1>1, <1>2, <1>3, <1>4, <1>5, QuietCommandStep

(* A CANCEL command starts, and is early when its booking has not been     *)
(* answered yet.                                                           *)
LEMMA CancelCommand ==
    ASSUME CmdInv, NEW w \in Worker, NEW u \in User, NEW b \in BookingId, Cancel(w, u, b)
    PROVE  CmdInv'
<1> DEFINE m == [Idle EXCEPT !.op = "cancel", !.user = u, !.bid = b]
<1>a. /\ pc[w] = "idle" /\ issued < MaxCommands /\ issued' = issued + 1
      /\ pc' = [pc EXCEPT ![w] = "begin"] /\ my' = [my EXCEPT ![w] = m]
      /\ cancels' = [cancels EXCEPT ![b].early = @ \/ acked[b] = {}]
      /\ UNCHANGED <<events, seats, bookings, next_booking_id, booking_seats, held, phase, acked, faults>>
  BY DEF Cancel, tables, goto
<1>b. m \in Local /\ m.todo = m.seats /\ m.op = "cancel" /\ m.bid = b /\ m.ok = FALSE
  BY DEF Idle, Local
<1> HIDE DEF m
<1>c. /\ pc' \in [Worker -> Label] /\ my' \in [Worker -> Local] /\ my'[w] = m /\ pc'[w] = "begin"
      /\ \A v \in Worker : v # w => pc'[v] = pc[v] /\ my'[v] = my[v]
  BY <1>a, <1>b DEF CmdInv, TypeOK, Label
<1>d. cancels' \in [BookingId -> Tally]
  BY <1>a DEF CmdInv, TypeOK, Tally
<1>e. /\ \A c \in BookingId : cancels'[c].ok = cancels[c].ok /\ (cancels[c].early => cancels'[c].early)
      /\ acked[b] = {} => cancels'[b].early
  <2>1. cancels \in [BookingId -> Tally]
    BY DEF CmdInv, TypeOK
  <2> QED BY <1>a, <2>1 DEF Tally
<1>1. TypeOK'
  BY <1>a, <1>c, <1>d, BookingConstants DEF CmdInv, TypeOK, TP!RL!HeldType
<1>2. LocksAreExclusive'
  BY <1>a DEF CmdInv, LocksAreExclusive
<1>3. RowsHaveBookings'
  BY <1>a DEF CmdInv, RowsHaveBookings
<1>4. StepIsInOrder(w)' /\ BookerHasItsRows(w)' /\ CancellerHasItsBooking(w)' /\ ~HasCancelled(w)'
  <2>1. StepIsInOrder(w)'
    BY <1>b, <1>c DEF StepIsInOrder, CancelSteps
  <2>2. BookerHasItsRows(w)' /\ ~HasCancelled(w)'
    BY <1>b, <1>c DEF BookerHasItsRows, HasBooked, HasCancelled
  <2>3. CancellerHasItsBooking(w)'
    BY <1>a, <1>b, <1>c, <1>e, <2>2 DEF CancellerHasItsBooking, CancelSteps
  <2> QED BY <2>1, <2>2, <2>3
<1>5. ASSUME NEW v \in Worker, v # w
      PROVE  StepIsInOrder(v)' /\ BookerHasItsRows(v)' /\ CancellerHasItsBooking(v)'
  <2>1. pc'[v] = pc[v] /\ my'[v] = my[v] /\ held'[v] = held[v]
    BY <1>a, <1>c, <1>5
  <2>2. StepIsInOrder(v)'
    BY <2>1 DEF CmdInv, StepIsInOrder
  <2>3. BookerHasItsRows(v)'
    <3>1. UNCHANGED <<bookings, next_booking_id, booking_seats, acked>>
      BY <1>a
    <3>2. BookerHasItsRows(v)
      BY DEF CmdInv
    <3>3. Linked(v)' = Linked(v) /\ SeatsOf(my[v].bid)' = SeatsOf(my[v].bid)
      BY <2>1, <3>1 DEF Linked, SeatsOf
    <3>4. HasBooked(v)' <=> HasBooked(v)
      BY <2>1 DEF HasBooked
    <3> QED BY <2>1, <3>1, <3>2, <3>3, <3>4 DEF BookerHasItsRows
  <2>4. CancellerHasItsBooking(v)'
    BY <1>a, <1>e, <2>1 DEF CmdInv, CancellerHasItsBooking, HasCancelled, StepIsInOrder
  <2> QED BY <2>2, <2>3, <2>4
<1>6. BookingsHaveOneWorker'
  <2>1. \A v \in Worker : HasCancelled(v)' => HasCancelled(v) /\ my[v].bid = my'[v].bid
    BY <1>c, <1>4 DEF HasCancelled
  <2>2. \A v \in Worker : my'[v].op = "book" => my[v].op = "book" /\ my[v].bid = my'[v].bid
    BY <1>b, <1>c
  <2> QED BY <2>1, <2>2 DEF CmdInv, BookingsHaveOneWorker
<1>7. AnswersAreKept'
  BY <1>a, <1>e DEF CmdInv, AnswersAreKept, SeatsOf
<1> QED BY <1>1, <1>2, <1>3, <1>4, <1>5, <1>6, <1>7 DEF CmdInv

(* Deleting an event leaves the bookings alone.                            *)
LEMMA DeleteEventCommand ==
    ASSUME CmdInv, NEW w \in Worker, NEW e \in Event, DeleteEvent(w, e)
    PROVE  CmdInv'
<1>a. /\ pc[w] = "idle" /\ issued < MaxCommands /\ issued' = issued + 1 /\ events' = events \ {e}
      /\ UNCHANGED <<seats, bookings, next_booking_id, booking_seats, held, phase, pc, my, acked, cancels, faults>>
  BY DEF DeleteEvent
<1>1. TypeOK'
  BY <1>a, BookingConstants DEF CmdInv, TypeOK, TP!RL!HeldType
<1>2. LocksAreExclusive'
  BY <1>a DEF CmdInv, LocksAreExclusive
<1>3. StepIsInOrder(w)' /\ (HasCancelled(w)' => HasCancelled(w))
  BY <1>a DEF CmdInv, StepIsInOrder, HasCancelled
<1>4. BookerHasItsRows(w)'
  BY <1>a DEF CmdInv, BookerHasItsRows, HasBooked, Linked, SeatsOf
<1>5. CancellerHasItsBooking(w)'
  BY <1>a DEF CmdInv, CancellerHasItsBooking, HasCancelled
<1> QED BY <1>a, <1>1, <1>2, <1>3, <1>4, <1>5, QuietCommandStep

(* txn_begin finds a slot.                                                 *)
LEMMA BeginCommand ==
    ASSUME CmdInv, NEW w \in Worker, Begin(w)
    PROVE  CmdInv'
<1>a. /\ pc[w] = "begin" /\ pc' = [pc EXCEPT ![w] = IF my[w].op = "book" THEN "lock" ELSE "lock_booking"]
      /\ phase' = [phase EXCEPT ![w] = "growing"]
      /\ UNCHANGED <<events, seats, bookings, next_booking_id, booking_seats, held, my, acked, cancels, issued, faults>>
  BY DEF Begin, TP!Begin, tables, goto
<1>b. /\ pc' \in [Worker -> Label] /\ \A v \in Worker : v # w => pc'[v] = pc[v]
      /\ pc'[w] = IF my[w].op = "book" THEN "lock" ELSE "lock_booking"
  BY <1>a DEF CmdInv, TypeOK, Label
<1>c. StepIsInOrder(w) /\ my[w].ok = FALSE
  BY <1>a DEF CmdInv, StepIsInOrder, TypeOK, Local
<1>1. TypeOK'
  BY <1>a, <1>b DEF CmdInv, TypeOK, TP!RL!HeldType
<1>2. LocksAreExclusive'
  BY <1>a DEF CmdInv, LocksAreExclusive
<1>3. StepIsInOrder(w)'
  BY <1>a, <1>b, <1>c DEF StepIsInOrder, CancelSteps
<1>4. BookerHasItsRows(w)' /\ ~HasCancelled(w)'
  BY <1>a, <1>b, <1>c DEF CmdInv, BookerHasItsRows, HasBooked, HasCancelled
<1>5. CancellerHasItsBooking(w)'
  BY <1>a, <1>b, <1>c, <1>4 DEF CmdInv, CancellerHasItsBooking, CancelSteps
<1> QED BY <1>a, <1>b, <1>1, <1>2, <1>3, <1>4, <1>5, QuietCommandStep

(* A step of a loop over the seats of a command, which changes neither the *)
(* bookings nor the junction rows: where the loop stands afterwards.       *)
LEMMA LoopMoves ==
    ASSUME CmdInv, NEW w \in Worker, NEW s, Lowest(s, my[w].todo),
           NEW l \in Label, NEW after \in Label, Iterate(w, s, l, after)
    PROVE  /\ pc' \in [Worker -> Label] /\ my' \in [Worker -> Local] /\ s \in my[w].todo
           /\ \A v \in Worker : v # w => pc'[v] = pc[v] /\ my'[v] = my[v]
           /\ my'[w].op = my[w].op /\ my'[w].bid = my[w].bid /\ my'[w].ok = my[w].ok
           /\ my'[w].seats = my[w].seats /\ my'[w].todo \subseteq my[w].seats
           /\ \/ my[w].todo = {s} /\ pc'[w] = after /\ my'[w].todo = my[w].seats
              \/ my[w].todo # {s} /\ pc'[w] = l /\ my'[w].todo = my[w].todo \ {s}
<1>1. /\ pc \in [Worker -> Label] /\ my \in [Worker -> Local] /\ my[w].todo \subseteq my[w].seats
      /\ s \in my[w].todo
  BY DEF CmdInv, TypeOK, StepIsInOrder, Lowest
<1>2. my'[w].ok = my[w].ok
  BY <1>1, IterateKeepsOk
<1> QED BY <1>1, <1>2, IterateMoves

(* The locking loop of booking_book_seats.                                 *)
LEMMA LockSeatCommand ==
    ASSUME CmdInv, NEW w \in Worker, NEW s \in SeatId, LockSeat(w, s)
    PROVE  CmdInv'
<1>a. /\ pc[w] = "lock" /\ Lowest(s, my[w].todo)
      /\ UNCHANGED <<events, seats, bookings, next_booking_id, booking_seats, acked, cancels, issued, faults>>
  BY DEF LockSeat, tables
<1>b. /\ pc' \in [Worker -> Label] /\ my' \in [Worker -> Local]
      /\ \A v \in Worker : v # w => pc'[v] = pc[v] /\ my'[v] = my[v]
      /\ my'[w].op = my[w].op /\ my'[w].bid = my[w].bid /\ my'[w].ok = my[w].ok
      /\ my'[w].seats = my[w].seats /\ my'[w].todo \subseteq my[w].seats
      /\ \/ pc'[w] = "verify" /\ my'[w].todo = my[w].seats
         \/ pc'[w] = "lock"
  BY <1>a, LoopMoves, ZenonT(40) DEF LockSeat, Label
<1>c. TP!RL!HeldType' /\ LocksAreExclusive' /\ phase' = phase /\ \A v \in Worker : v # w => held'[v] = held[v]
  BY LockIsGranted DEF LockSeat, Record, SeatRecord, CmdInv
<1>d. StepIsInOrder(w) /\ my[w].ok = FALSE
  BY <1>a DEF CmdInv, StepIsInOrder, TypeOK, Local
<1>1. TypeOK'
  BY <1>a, <1>b, <1>c DEF CmdInv, TypeOK
<1>3. StepIsInOrder(w)'
  BY <1>a, <1>b, <1>d DEF StepIsInOrder, CancelSteps
<1>4. BookerHasItsRows(w)' /\ ~HasCancelled(w)'
  BY <1>a, <1>b, <1>d DEF StepIsInOrder, BookerHasItsRows, HasBooked, HasCancelled
<1>5. CancellerHasItsBooking(w)'
  BY <1>a, <1>b, <1>d, <1>4 DEF StepIsInOrder, CancellerHasItsBooking, CancelSteps
<1> QED BY <1>a, <1>b, <1>c, <1>1, <1>3, <1>4, <1>5, QuietCommandStep

(* A seat of the request has been found in the seats table.                *)
LEMMA VerifySeatCommand ==
    ASSUME CmdInv, NEW w \in Worker, NEW s \in SeatId, VerifySeat(w, s), Bookable(w, s)
    PROVE  CmdInv'
<1>a. /\ pc[w] = "verify" /\ Lowest(s, my[w].todo) /\ s \in Seat
      /\ UNCHANGED <<events, seats, bookings, next_booking_id, booking_seats, held, phase,
                     acked, cancels, issued, faults>>
  BY DEF VerifySeat, Bookable, tables
<1>b. /\ pc' \in [Worker -> Label] /\ my' \in [Worker -> Local] /\ s \in my[w].todo
      /\ \A v \in Worker : v # w => pc'[v] = pc[v] /\ my'[v] = my[v]
      /\ my'[w].op = my[w].op /\ my'[w].bid = my[w].bid /\ my'[w].ok = my[w].ok
      /\ my'[w].seats = my[w].seats /\ my'[w].todo \subseteq my[w].seats
      /\ \/ my[w].todo = {s} /\ pc'[w] = "insert" /\ my'[w].todo = my[w].seats
         \/ my[w].todo # {s} /\ pc'[w] = "verify" /\ my'[w].todo = my[w].todo \ {s}
  <2>1. Iterate(w, s, "verify", "insert") /\ "verify" \in Label /\ "insert" \in Label
    BY DEF VerifySeat, Label
  <2> QED BY <1>a, <2>1, LoopMoves
<1>c. StepIsInOrder(w) /\ my[w].ok = FALSE
  BY <1>a DEF CmdInv, StepIsInOrder, TypeOK, Local
<1>1. TypeOK'
  BY <1>a, <1>b DEF CmdInv, TypeOK, TP!RL!HeldType
<1>2. LocksAreExclusive'
  BY <1>a DEF CmdInv, LocksAreExclusive
<1>3. StepIsInOrder(w)'
  <2>1. (pc'[w] = "insert" => my[w].seats \subseteq Seat) /\ my'[w].seats \ my'[w].todo \subseteq Seat
    <3>1. my[w].seats \ my[w].todo \subseteq Seat
      BY <1>a, <1>c DEF StepIsInOrder
    <3> QED BY <1>a, <1>b, <3>1
  <2> QED BY <1>a, <1>b, <1>c, <2>1 DEF StepIsInOrder, CancelSteps
<1>4. BookerHasItsRows(w)' /\ ~HasCancelled(w)'
  BY <1>a, <1>b, <1>c DEF StepIsInOrder, BookerHasItsRows, HasBooked, HasCancelled
<1>5. CancellerHasItsBooking(w)'
  BY <1>a, <1>b, <1>c, <1>4 DEF StepIsInOrder, CancellerHasItsBooking, CancelSteps
<1> QED BY <1>a, <1>b, <1>1, <1>2, <1>3, <1>4, <1>5, QuietCommandStep

(* A seat is marked BOOKED; its junction row is already there.             *)
LEMMA MarkBookedCommand ==
    ASSUME CmdInv, NEW w \in Worker, NEW s \in SeatId, MarkBooked(w, s)
    PROVE  CmdInv'
<1>a. /\ pc[w] = "mark" /\ Lowest(s, my[w].todo)
      /\ seats' = [seats EXCEPT ![s] = [status |-> "BOOKED", booked_by |-> my[w].user]]
      /\ UNCHANGED <<events, bookings, next_booking_id, booking_seats, held, phase, acked, cancels, issued, faults>>
  BY DEF MarkBooked
<1>b. /\ pc' \in [Worker -> Label] /\ my' \in [Worker -> Local] /\ s \in my[w].todo
      /\ \A v \in Worker : v # w => pc'[v] = pc[v] /\ my'[v] = my[v]
      /\ my'[w].op = my[w].op /\ my'[w].bid = my[w].bid /\ my'[w].ok = my[w].ok
      /\ my'[w].seats = my[w].seats /\ my'[w].todo \subseteq my[w].seats
      /\ \/ my[w].todo = {s} /\ pc'[w] = "commit" /\ my'[w].todo = my[w].seats
         \/ my[w].todo # {s} /\ pc'[w] = "link" /\ my'[w].todo = my[w].todo \ {s}
  <2>1. Iterate(w, s, "link", "commit") /\ "link" \in Label /\ "commit" \in Label
    BY DEF MarkBooked, Label
  <2> QED BY <1>a, <2>1, LoopMoves
<1>c. StepIsInOrder(w) /\ my[w].ok = FALSE /\ my[w].op = "book" /\ BookerHasItsRows(w) /\ HasBooked(w)
  BY <1>a DEF CmdInv, StepIsInOrder, TypeOK, Local, HasBooked
<1>d. s \in Seat /\ my[w].user \in User \cup {NULL} /\ my[w].todo \subseteq my[w].seats
  BY <1>b, <1>c DEF StepIsInOrder, BookerHasItsRows, CmdInv, TypeOK, Local
<1>1. TypeOK'
  BY <1>a, <1>b, <1>d DEF CmdInv, TypeOK, TP!RL!HeldType
<1>2. LocksAreExclusive'
  BY <1>a DEF CmdInv, LocksAreExclusive
<1>3. StepIsInOrder(w)'
  BY <1>a, <1>b, <1>c DEF StepIsInOrder, CancelSteps
<1>4. BookerHasItsRows(w)' /\ ~HasCancelled(w)'
  <2>1. \A x \in my[w].todo : Lowest(x, my[w].todo) <=> x = s
    <3>1. my[w].todo \subseteq Nat
      BY BookingConstants DEF CmdInv, TypeOK, Local
    <3> QED BY <1>a, <3>1 DEF Lowest
  <2>2. Linked(w) = (my[w].seats \ my[w].todo) \cup {s}
    BY <1>a, <1>b, <1>d, <2>1 DEF Linked
  <2>3. Linked(w)' = (my[w].seats \ my[w].todo) \cup {s}
    BY <1>b, <1>d DEF Linked
  <2>4. SeatsOf(my[w].bid)' = SeatsOf(my[w].bid)
    BY <1>a, <1>b DEF SeatsOf
  <2> QED BY <1>a, <1>b, <1>c, <2>2, <2>3, <2>4 DEF BookerHasItsRows, HasBooked, HasCancelled
<1>5. CancellerHasItsBooking(w)'
  BY <1>b, <1>c, <1>4 DEF CancellerHasItsBooking, CancelSteps
<1> QED BY <1>a, <1>b, <1>1, <1>2, <1>3, <1>4, <1>5, QuietCommandStep

(* A row of the bookings table, and the answers, as they stand after a step *)
(* that only adds what is not there yet: the rows of the workers that have *)
(* nothing to do with it.                                                  *)
LEMMA OtherBookers ==
    ASSUME CmdInv, NEW v \in Worker, pc'[v] = pc[v], my'[v] = my[v],
           next_booking_id \in Nat, next_booking_id' \in Nat, next_booking_id <= next_booking_id',
           my[v].op = "book" /\ my[v].bid # 0 =>
              /\ bookings'[my[v].bid].seat_count = bookings[my[v].bid].seat_count
              /\ bookings[my[v].bid].status = "CONFIRMED" =>
                    bookings'[my[v].bid].status \in {"CONFIRMED", "CANCELLED"}
              /\ bookings[my[v].bid].status = "CANCELLED" => bookings'[my[v].bid].status = "CANCELLED"
              /\ acked'[my[v].bid] = acked[my[v].bid] /\ SeatsOf(my[v].bid)' = SeatsOf(my[v].bid)
    PROVE  StepIsInOrder(v)' /\ BookerHasItsRows(v)'
<1>1. StepIsInOrder(v)'
  BY DEF CmdInv, StepIsInOrder
<1>2. BookerHasItsRows(v) /\ my[v].bid \in Nat
  BY DEF CmdInv, TypeOK, Local, BookingId
<1>3. Linked(v)' = Linked(v) /\ (HasBooked(v)' <=> HasBooked(v))
  BY DEF Linked, HasBooked
<1>4. HasBooked(v) => my[v].op = "book" /\ my[v].bid # 0
  BY <1>2 DEF HasBooked, BookerHasItsRows, BookingId
<1>5. BookerHasItsRows(v)'
  BY <1>2, <1>3, <1>4 DEF BookerHasItsRows
<1> QED BY <1>1, <1>5

(* The new booking is recorded under an id that no worker and no answer    *)
(* has used.                                                               *)
LEMMA FreshId ==
    ASSUME CmdInv, next_booking_id \in BookingId
    PROVE  /\ bookings[next_booking_id].status = "none" /\ acked[next_booking_id] = {}
           /\ cancels[next_booking_id].ok = 0 /\ SeatsOf(next_booking_id) = {}
           /\ \A v \in Worker : my[v].op = "book" /\ my[v].bid # 0 => my[v].bid # next_booking_id
           /\ \A v \in Worker : HasCancelled(v) => my[v].bid # next_booking_id
           /\ \A v \in Worker : pc[v] \in CancelSteps \ {"lock_booking", "check"} => my[v].bid # next_booking_id
<1>1. bookings[next_booking_id].status = "none"
  BY DEF CmdInv, TypeOK, NoBooking, BookingId
<1>2. acked[next_booking_id] = {} /\ cancels[next_booking_id].ok = 0
  BY <1>1 DEF CmdInv, AnswersAreKept
<1>3. SeatsOf(next_booking_id) = {}
  BY <1>1 DEF CmdInv, RowsHaveBookings, SeatsOf
<1>4. ASSUME NEW v \in Worker, my[v].op = "book", my[v].bid # 0
      PROVE  my[v].bid # next_booking_id
  <2>1. my[v].bid < next_booking_id /\ next_booking_id \in Nat /\ my[v].bid \in Nat
    BY <1>4 DEF CmdInv, BookerHasItsRows, TypeOK, Local, BookingId
  <2> QED BY <2>1
<1>5. \A v \in Worker : HasCancelled(v) => my[v].bid # next_booking_id
  BY <1>1 DEF CmdInv, CancellerHasItsBooking
<1>6. \A v \in Worker : pc[v] \in CancelSteps \ {"lock_booking", "check"} => my[v].bid # next_booking_id
  BY <1>1 DEF CmdInv, CancellerHasItsBooking
<1> QED BY <1>1, <1>2, <1>3, <1>4, <1>5, <1>6

(* table_insert adds the row of the booking, found by its id from now on.  *)
LEMMA InsertBookingCommand ==
    ASSUME CmdInv, NEW w \in Worker, InsertBooking(w)
    PROVE  CmdInv'
<1> DEFINE n == next_booking_id
<1>a. /\ pc[w] = "insert" /\ n \in BookingId /\ next_booking_id' = n + 1
      /\ bookings' = [bookings EXCEPT ![n] =
            [user |-> my[w].user, seat_count |-> Cardinality(my[w].seats), status |-> "CONFIRMED"]]
      /\ my' = [my EXCEPT ![w].bid = n] /\ pc' = [pc EXCEPT ![w] = "link"]
      /\ UNCHANGED <<events, seats, booking_seats, held, phase, acked, cancels, issued, faults>>
  BY DEF InsertBooking, NewBooking, goto
<1>b. /\ pc' \in [Worker -> Label] /\ my' \in [Worker -> Local]
      /\ \A v \in Worker : v # w => pc'[v] = pc[v] /\ my'[v] = my[v]
      /\ pc'[w] = "link" /\ my'[w].bid = n /\ my'[w].op = my[w].op /\ my'[w].ok = my[w].ok
      /\ my'[w].seats = my[w].seats /\ my'[w].todo = my[w].todo
  <2>1. pc' \in [Worker -> Label] /\ pc'[w] = "link" /\ \A v \in Worker : v # w => pc'[v] = pc[v]
    BY <1>a DEF CmdInv, TypeOK, Label
  <2>2. my[w] \in Local /\ my \in [Worker -> Local] /\ my'[w] = [my[w] EXCEPT !.bid = n]
    BY <1>a DEF CmdInv, TypeOK
  <2>3. /\ my'[w] \in Local /\ my'[w].bid = n /\ my'[w].op = my[w].op /\ my'[w].ok = my[w].ok
        /\ my'[w].seats = my[w].seats /\ my'[w].todo = my[w].todo
    BY <1>a, <2>2 DEF Local
  <2> QED BY <1>a, <2>1, <2>2, <2>3
<1>c. /\ bookings'[n].status = "CONFIRMED" /\ bookings'[n].seat_count = Cardinality(my[w].seats)
      /\ \A b \in BookingId : b # n => bookings'[b] = bookings[b]
  BY <1>a DEF CmdInv, TypeOK
<1>d. /\ bookings[n].status = "none" /\ acked[n] = {} /\ cancels[n].ok = 0 /\ SeatsOf(n) = {}
      /\ \A v \in Worker : my[v].op = "book" /\ my[v].bid # 0 => my[v].bid # n
      /\ \A v \in Worker : HasCancelled(v) => my[v].bid # n
      /\ \A v \in Worker : pc[v] \in CancelSteps \ {"lock_booking", "check"} => my[v].bid # n
  BY <1>a, FreshId
<1>e. /\ my[w].op = "book" /\ my[w].ok = FALSE /\ my[w].seats \subseteq Seat /\ my[w].todo = my[w].seats
      /\ n \in Nat
  BY <1>a DEF CmdInv, StepIsInOrder, TypeOK, Local
<1>f. \A b \in BookingId : SeatsOf(b)' = SeatsOf(b)
  BY <1>a DEF SeatsOf
<1>1. TypeOK'
  <2>1. Cardinality(my[w].seats) \in Nat /\ my[w].user \in User \cup {NULL}
    BY BookingConstants, FS_Subset, FS_CardinalityType DEF CmdInv, TypeOK, Local
  <2>2. bookings' \in [BookingId -> [user : User \cup {NULL}, seat_count : Nat, status : Status]]
    BY <1>a, <2>1 DEF CmdInv, TypeOK, Status
  <2>3. next_booking_id' \in Nat \ {0} /\ \A b \in BookingId : b >= next_booking_id' => bookings'[b] = NoBooking
    BY <1>a, <1>c DEF CmdInv, TypeOK, BookingId
  <2> QED BY <1>a, <1>b, <2>2, <2>3 DEF CmdInv, TypeOK, TP!RL!HeldType
<1>2. LocksAreExclusive'
  BY <1>a DEF CmdInv, LocksAreExclusive
<1>3. RowsHaveBookings'
  BY <1>a, <1>c DEF CmdInv, RowsHaveBookings
<1>4. StepIsInOrder(w)' /\ BookerHasItsRows(w)' /\ CancellerHasItsBooking(w)' /\ ~HasCancelled(w)'
  <2>1. StepIsInOrder(w)'
    BY <1>b, <1>e DEF StepIsInOrder, CancelSteps
  <2>2. BookerHasItsRows(w)'
    <3>1. n < next_booking_id' /\ acked'[n] = {}
      BY <1>a, <1>d, <1>e
    <3>2. Linked(w)' = {}
      BY <1>b, <1>e DEF Linked
    <3>3. SeatsOf(my[w].bid)' = {}
      BY <1>a, <1>b, <1>d DEF SeatsOf
    <3> QED BY <1>a, <1>b, <1>c, <1>e, <3>1, <3>2, <3>3 DEF BookerHasItsRows, HasBooked
  <2>3. ~HasCancelled(w)' /\ CancellerHasItsBooking(w)'
    BY <1>b, <1>e DEF HasCancelled, CancellerHasItsBooking, CancelSteps
  <2> QED BY <2>1, <2>2, <2>3
<1>5. ASSUME NEW v \in Worker, v # w
      PROVE  StepIsInOrder(v)' /\ BookerHasItsRows(v)' /\ CancellerHasItsBooking(v)'
  <2>1. pc'[v] = pc[v] /\ my'[v] = my[v] /\ my[v].bid \in BookingId \cup {0}
    BY <1>b, <1>5 DEF CmdInv, TypeOK, Local
  <2>2. StepIsInOrder(v)' /\ BookerHasItsRows(v)'
    <3>1. n <= next_booking_id' /\ next_booking_id' \in Nat
      BY <1>a, <1>e
    <3>2. my[v].op = "book" /\ my[v].bid # 0 => bookings'[my[v].bid] = bookings[my[v].bid]
      BY <1>c, <1>d, <2>1
    <3>3. acked'[my[v].bid] = acked[my[v].bid] /\ SeatsOf(my[v].bid)' = SeatsOf(my[v].bid)
      <4>1. acked' = acked /\ booking_seats' = booking_seats
        BY <1>a
      <4> QED BY <2>1, <4>1 DEF SeatsOf
    <3> QED BY <1>e, <2>1, <3>1, <3>2, <3>3, OtherBookers
  <2>3. CancellerHasItsBooking(v)'
    <3>1. CancellerHasItsBooking(v) /\ StepIsInOrder(v)
      BY DEF CmdInv
    <3>2. pc[v] \in CancelSteps \/ my[v].op = "cancel" => my[v].bid \in BookingId
      BY <3>1 DEF StepIsInOrder
    <3>3. UNCHANGED <<held, acked, cancels>>
      BY <1>a
    <3> QED BY <1>c, <1>d, <2>1, <3>1, <3>2, <3>3 DEF CancellerHasItsBooking, HasCancelled
  <2> QED BY <2>2, <2>3
<1>6. BookingsHaveOneWorker'
  <2>1. \A v \in Worker : v # w => (HasCancelled(v)' <=> HasCancelled(v))
    BY <1>b DEF HasCancelled
  <2>2. \A v \in Worker : v # w /\ my'[v].op = "book" /\ my'[v].bid # 0 => my'[v].bid # my'[w].bid
    BY <1>b, <1>d
  <2> SUFFICES ASSUME NEW x \in Worker, NEW y \in Worker, my'[x].bid = my'[y].bid, my'[x].bid # 0
               PROVE  /\ my'[x].op = "book" /\ my'[y].op = "book" => x = y
                      /\ HasCancelled(x)' /\ HasCancelled(y)' => x = y
    BY DEF BookingsHaveOneWorker
  <2>3. CASE x # w /\ y # w
    BY <1>b, <2>1, <2>3 DEF CmdInv, BookingsHaveOneWorker
  <2>4. CASE x = w \/ y = w
    BY <1>4, <2>2, <2>4
  <2> QED BY <2>3, <2>4
<1>7. AnswersAreKept'
  <2> SUFFICES ASSUME NEW b \in BookingId
               PROVE  /\ acked'[b] # {} =>
                            /\ bookings'[b].status \in {"CONFIRMED", "CANCELLED"}
                            /\ SeatsOf(b)' = acked'[b] /\ bookings'[b].seat_count = Cardinality(acked'[b])
                      /\ cancels'[b].ok <= 1 /\ (cancels'[b].ok # 0 => bookings'[b].status = "CANCELLED")
                      /\ bookings'[b].status = "CANCELLED" /\ acked'[b] = {} => cancels'[b].early
    BY DEF AnswersAreKept
  <2>1. CASE b = n
    BY <1>a, <1>c, <1>d, <2>1
  <2>2. CASE b # n
    BY <1>a, <1>c, <1>f, <2>2 DEF CmdInv, AnswersAreKept
  <2> QED BY <2>1, <2>2
<1> QED BY <1>1, <1>2, <1>3, <1>4, <1>5, <1>6, <1>7 DEF CmdInv

(* table_insert fails after it has used up an id: the row, if it is there,  *)
(* is not in the index, and nobody answers for it.                         *)
LEMMA InsertBookingFailsCommand ==
    ASSUME CmdInv, NEW w \in Worker, InsertBookingFails(w),
           UNCHANGED <<held, phase, acked, cancels, issued>>, faults' \in 0..MaxFaults
    PROVE  CmdInv'
<1> DEFINE n == next_booking_id
           row == [user |-> my[w].user, seat_count |-> Cardinality(my[w].seats), status |-> "unindexed"]
<1>a. /\ pc[w] = "insert" /\ n \in BookingId /\ next_booking_id' = n + 1
      /\ bookings' = bookings \/ bookings' = [bookings EXCEPT ![n] = row]
      /\ pc' = [pc EXCEPT ![w] = "abort"]
      /\ UNCHANGED <<events, seats, booking_seats, my>>
  BY DEF InsertBookingFails, goto
<1>b. /\ pc' \in [Worker -> Label] /\ pc'[w] = "abort" /\ \A v \in Worker : v # w => pc'[v] = pc[v]
  BY <1>a DEF CmdInv, TypeOK, Label
<1>c. \A b \in BookingId : b # n => bookings'[b] = bookings[b]
  BY <1>a DEF CmdInv, TypeOK
<1>d. /\ bookings[n].status = "none" /\ acked[n] = {} /\ cancels[n].ok = 0 /\ SeatsOf(n) = {}
      /\ \A v \in Worker : my[v].op = "book" /\ my[v].bid # 0 => my[v].bid # n
      /\ \A v \in Worker : HasCancelled(v) => my[v].bid # n
      /\ \A v \in Worker : pc[v] \in CancelSteps \ {"lock_booking", "check"} => my[v].bid # n
  BY <1>a, FreshId
<1>e. my[w].op = "book" /\ my[w].bid = 0 /\ my[w].ok = FALSE /\ n \in Nat /\ my[w].todo \subseteq my[w].seats
  BY <1>a DEF CmdInv, StepIsInOrder, TypeOK, Local
<1>f. \A b \in BookingId : SeatsOf(b)' = SeatsOf(b)
  BY <1>a DEF SeatsOf
<1>g. bookings'[n].status \in {"none", "unindexed"}
  BY <1>a, <1>d DEF CmdInv, TypeOK
<1>1. TypeOK'
  <2>1. Cardinality(my[w].seats) \in Nat /\ my[w].user \in User \cup {NULL}
    BY BookingConstants, FS_Subset, FS_CardinalityType DEF CmdInv, TypeOK, Local
  <2>2. row \in [user : User \cup {NULL}, seat_count : Nat, status : Status]
    BY <2>1 DEF Status
  <2> HIDE DEF row
  <2>3. bookings' \in [BookingId -> [user : User \cup {NULL}, seat_count : Nat, status : Status]]
    BY <1>a, <2>2 DEF CmdInv, TypeOK
  <2>4. next_booking_id' \in Nat \ {0} /\ \A b \in BookingId : b >= next_booking_id' => bookings'[b] = NoBooking
    BY <1>a, <1>c DEF CmdInv, TypeOK, BookingId
  <2> QED BY <1>a, <1>b, <2>3, <2>4 DEF CmdInv, TypeOK, TP!RL!HeldType
<1>2. LocksAreExclusive'
  BY DEF CmdInv, LocksAreExclusive
<1>3. RowsHaveBookings'
  <2>1. \A b \in BookingId, s \in Seat : <<b, s>> \in booking_seats => bookings[b].status # "none"
    BY DEF CmdInv, RowsHaveBookings
  <2>2. \A b \in BookingId, s \in Seat : <<b, s>> \in booking_seats => b # n
    BY <1>d, <2>1
  <2>3. booking_seats' = booking_seats
    BY <1>a
  <2> QED BY <1>c, <2>1, <2>2, <2>3 DEF RowsHaveBookings
<1>4. StepIsInOrder(w)' /\ BookerHasItsRows(w)' /\ CancellerHasItsBooking(w)' /\ ~HasCancelled(w)'
  <2>1. my' = my
    BY <1>a
  <2> QED BY <1>b, <1>e, <2>1 DEF StepIsInOrder, BookerHasItsRows, HasBooked, CancellerHasItsBooking, CancelSteps,
         HasCancelled
<1>5. ASSUME NEW v \in Worker, v # w
      PROVE  StepIsInOrder(v)' /\ BookerHasItsRows(v)' /\ CancellerHasItsBooking(v)'
  <2>1. pc'[v] = pc[v] /\ my'[v] = my[v] /\ my[v].bid \in BookingId \cup {0}
    BY <1>a, <1>b, <1>5 DEF CmdInv, TypeOK, Local
  <2>2. StepIsInOrder(v)' /\ BookerHasItsRows(v)'
    <3>1. n <= next_booking_id' /\ next_booking_id' \in Nat
      BY <1>a, <1>e
    <3>2. my[v].op = "book" /\ my[v].bid # 0 => bookings'[my[v].bid] = bookings[my[v].bid]
      BY <1>c, <1>d, <2>1
    <3>3. SeatsOf(my[v].bid)' = SeatsOf(my[v].bid)
      <4>1. booking_seats' = booking_seats
        BY <1>a
      <4> QED BY <2>1, <4>1 DEF SeatsOf
    <3> QED BY <1>e, <2>1, <3>1, <3>2, <3>3, OtherBookers
  <2>3. CancellerHasItsBooking(v)'
    <3>1. CancellerHasItsBooking(v) /\ StepIsInOrder(v)
      BY DEF CmdInv
    <3>2. pc[v] \in CancelSteps \/ my[v].op = "cancel" => my[v].bid \in BookingId
      BY <3>1 DEF StepIsInOrder
    <3> QED BY <1>c, <1>d, <2>1, <3>1, <3>2 DEF CancellerHasItsBooking, HasCancelled
  <2> QED BY <2>2, <2>3
<1>6. BookingsHaveOneWorker'
  <2>1. \A v \in Worker : HasCancelled(v)' => HasCancelled(v)
    BY <1>a, <1>b, <1>4 DEF HasCancelled
  <2>2. my' = my
    BY <1>a
  <2> QED BY <2>1, <2>2 DEF CmdInv, BookingsHaveOneWorker
<1>7. AnswersAreKept'
  <2> SUFFICES ASSUME NEW b \in BookingId
               PROVE  /\ acked'[b] # {} =>
                            /\ bookings'[b].status \in {"CONFIRMED", "CANCELLED"}
                            /\ SeatsOf(b)' = acked'[b] /\ bookings'[b].seat_count = Cardinality(acked'[b])
                      /\ cancels'[b].ok <= 1 /\ (cancels'[b].ok # 0 => bookings'[b].status = "CANCELLED")
                      /\ bookings'[b].status = "CANCELLED" /\ acked'[b] = {} => cancels'[b].early
    BY DEF AnswersAreKept
  <2>1. CASE b = n
    BY <1>d, <1>g, <2>1
  <2>2. CASE b # n
    BY <1>c, <1>f, <2>2 DEF CmdInv, AnswersAreKept
  <2> QED BY <2>1, <2>2
<1> QED BY <1>1, <1>2, <1>3, <1>4, <1>5, <1>6, <1>7 DEF CmdInv

(* The junction row of a seat is inserted, and the loop goes on, or the     *)
(* insertion fails, with the row there or not, and the command is given up. *)
LEMMA RowCommand ==
    ASSUME CmdInv, NEW w \in Worker, NEW s \in SeatId, pc[w] = "link", Lowest(s, my[w].todo),
           NEW l \in {"mark", "abort"}, pc' = [pc EXCEPT ![w] = l],
           booking_seats' \in {booking_seats, booking_seats \cup {<<my[w].bid, s>>}},
           l = "mark" => booking_seats' = booking_seats \cup {<<my[w].bid, s>>},
           UNCHANGED <<events, seats, bookings, next_booking_id, held, phase, my, acked, cancels, issued>>,
           faults' \in 0..MaxFaults
    PROVE  CmdInv'
<1> DEFINE n == my[w].bid
<1>a. pc' \in [Worker -> Label] /\ pc'[w] = l /\ \A v \in Worker : v # w => pc'[v] = pc[v]
  BY DEF CmdInv, TypeOK, Label
<1>b. /\ my[w].ok = FALSE /\ my[w].op = "book" /\ s \in my[w].todo /\ StepIsInOrder(w)
      /\ my[w].todo \subseteq my[w].seats
  BY DEF CmdInv, StepIsInOrder, TypeOK, Local, Lowest
<1>c. /\ n \in BookingId /\ n # 0 /\ n < next_booking_id /\ acked[n] = {} /\ my[w].seats \subseteq Seat
      /\ bookings[n].status \in {"CONFIRMED", "CANCELLED"}
      /\ bookings[n].seat_count = Cardinality(my[w].seats)
      /\ SeatsOf(n) = my[w].seats \ my[w].todo
  <2>1. BookerHasItsRows(w) /\ HasBooked(w) /\ Linked(w) = my[w].seats \ my[w].todo
    BY <1>b DEF CmdInv, HasBooked, Linked
  <2>2. n \in BookingId /\ n # 0
    BY <2>1 DEF BookerHasItsRows, BookingId
  <2> QED BY <1>b, <2>1, <2>2 DEF BookerHasItsRows
<1>d. /\ \A b \in BookingId : b # n => SeatsOf(b)' = SeatsOf(b)
      /\ l = "mark" => SeatsOf(n)' = SeatsOf(n) \cup {s}
  BY <1>b, <1>c DEF SeatsOf
<1>1. TypeOK'
  BY <1>a, <1>b, <1>c DEF CmdInv, TypeOK, TP!RL!HeldType
<1>2. LocksAreExclusive'
  BY DEF CmdInv, LocksAreExclusive
<1>3. RowsHaveBookings'
  BY <1>c DEF CmdInv, RowsHaveBookings
<1>4. StepIsInOrder(w)' /\ BookerHasItsRows(w)' /\ CancellerHasItsBooking(w)' /\ ~HasCancelled(w)'
  <2>1. StepIsInOrder(w)'
    BY <1>a, <1>b DEF StepIsInOrder, CancelSteps
  <2>2. BookerHasItsRows(w)'
    <3>1. CASE l = "mark"
      <4>1. \A x \in my[w].todo : Lowest(x, my[w].todo) <=> x = s
        <5>1. my[w].todo \subseteq Nat
          BY BookingConstants DEF CmdInv, TypeOK, Local
        <5> QED BY <5>1 DEF Lowest
      <4>2. Linked(w)' = (my[w].seats \ my[w].todo) \cup {s}
        BY <1>a, <1>b, <3>1, <4>1 DEF Linked
      <4>3. SeatsOf(my[w].bid)' = Linked(w)'
        BY <1>c, <1>d, <3>1, <4>2
      <4> QED BY <1>c, <4>3 DEF BookerHasItsRows
    <3>2. CASE l = "abort"
      BY <1>a, <1>b, <1>c, <3>2 DEF BookerHasItsRows, HasBooked
    <3> QED BY <3>1, <3>2
  <2>3. ~HasCancelled(w)' /\ CancellerHasItsBooking(w)'
    BY <1>a, <1>b DEF HasCancelled, CancellerHasItsBooking, CancelSteps
  <2> QED BY <2>1, <2>2, <2>3
<1>5. ASSUME NEW v \in Worker, v # w
      PROVE  StepIsInOrder(v)' /\ BookerHasItsRows(v)' /\ CancellerHasItsBooking(v)'
  <2>1. pc'[v] = pc[v] /\ my'[v] = my[v] /\ my[v].bid \in BookingId \cup {0} /\ next_booking_id \in Nat
    BY <1>a, <1>5 DEF CmdInv, TypeOK, Local
  <2>2. my[v].op = "book" /\ my[v].bid # 0 => my[v].bid # n
    BY <1>b, <1>c, <1>5 DEF CmdInv, BookingsHaveOneWorker
  <2>3. my[v].op = "book" /\ my[v].bid # 0 => SeatsOf(my[v].bid)' = SeatsOf(my[v].bid)
    BY <1>d, <2>1, <2>2
  <2>4. StepIsInOrder(v)' /\ BookerHasItsRows(v)'
    BY <2>1, <2>3, OtherBookers
  <2>5. CancellerHasItsBooking(v)'
    BY <2>1 DEF CmdInv, CancellerHasItsBooking, HasCancelled
  <2> QED BY <2>4, <2>5
<1>6. BookingsHaveOneWorker'
  <2>1. \A v \in Worker : HasCancelled(v)' => HasCancelled(v)
    BY <1>a, <1>4 DEF HasCancelled
  <2> QED BY <2>1 DEF CmdInv, BookingsHaveOneWorker
<1>7. AnswersAreKept'
  <2>1. \A b \in BookingId : acked[b] # {} => SeatsOf(b)' = SeatsOf(b)
    BY <1>c, <1>d
  <2> QED BY <2>1 DEF CmdInv, AnswersAreKept
<1> QED BY <1>1, <1>2, <1>3, <1>4, <1>5, <1>6, <1>7 DEF CmdInv

(* The booking becomes CANCELLED.  It was CONFIRMED, so no other worker has *)
(* cancelled it, and none can be past its check, since this one has the    *)
(* lock of its record.                                                     *)
LEMMA MarkCancelledCommand ==
    ASSUME CmdInv, NEW w \in Worker, MarkCancelled(w)
    PROVE  CmdInv'
<1> DEFINE n == my[w].bid
<1>a. /\ pc[w] = "cancel" /\ bookings' = [bookings EXCEPT ![n].status = "CANCELLED"]
      /\ pc' = [pc EXCEPT ![w] = "commit"]
      /\ UNCHANGED <<events, seats, next_booking_id, booking_seats, held, phase, my, acked, cancels, issued, faults>>
  BY DEF MarkCancelled, goto
<1>b. pc' \in [Worker -> Label] /\ pc'[w] = "commit" /\ \A v \in Worker : v # w => pc'[v] = pc[v]
  BY <1>a DEF CmdInv, TypeOK, Label
<1>c. /\ my[w].op = "cancel" /\ my[w].ok = FALSE /\ n \in BookingId /\ my[w].todo \subseteq my[w].seats
      /\ bookings[n].status = "CONFIRMED" /\ held[w][BookingRecord(n)] = "EXCLUSIVE"
      /\ ~cancels[n].early => acked[n] # {}
  BY <1>a, SMTT(30) DEF CmdInv, StepIsInOrder, CancellerHasItsBooking, CancelSteps, TypeOK, Local
<1>d. /\ bookings'[n].status = "CANCELLED" /\ bookings'[n].seat_count = bookings[n].seat_count
      /\ \A b \in BookingId : b # n => bookings'[b] = bookings[b]
  BY <1>a, <1>c DEF CmdInv, TypeOK
<1>e. ASSUME NEW v \in Worker, v # w, pc[v] \in CancelSteps \ {"lock_booking"}
      PROVE  my[v].bid # n
  BY <1>c, <1>e DEF CmdInv, LocksAreExclusive, CancellerHasItsBooking, Record, BookingRecord
<1>f. cancels[n].ok = 0 /\ \A v \in Worker : HasCancelled(v) => my[v].bid # n
  BY <1>c DEF CmdInv, AnswersAreKept, CancellerHasItsBooking
<1>1. TypeOK'
  <2>1. /\ bookings \in [BookingId -> [user : User \cup {NULL}, seat_count : Nat, status : Status]]
        /\ \A b \in BookingId : b >= next_booking_id => bookings[b] = NoBooking
    BY DEF CmdInv, TypeOK
  <2>2. [bookings[n] EXCEPT !.status = "CANCELLED"]
           \in [user : User \cup {NULL}, seat_count : Nat, status : Status]
    BY <1>c, <2>1 DEF Status
  <2>3. NoBooking.status = "none"
    BY DEF NoBooking
  <2>4. /\ bookings' \in [BookingId -> [user : User \cup {NULL}, seat_count : Nat, status : Status]]
        /\ \A b \in BookingId : b >= next_booking_id => bookings'[b] = NoBooking
    BY <1>a, <1>c, <1>d, <2>1, <2>2, <2>3
  <2> QED BY <1>a, <1>b, <2>4 DEF CmdInv, TypeOK, TP!RL!HeldType
<1>2. LocksAreExclusive'
  BY <1>a DEF CmdInv, LocksAreExclusive
<1>3. RowsHaveBookings'
  BY <1>a, <1>d DEF CmdInv, RowsHaveBookings
<1>4. StepIsInOrder(w)' /\ BookerHasItsRows(w)' /\ CancellerHasItsBooking(w)'
  <2>1. my' = my /\ acked' = acked /\ cancels' = cancels
    BY <1>a
  <2> QED BY <1>b, <1>c, <1>d, <1>f, <2>1 DEF StepIsInOrder, BookerHasItsRows, HasBooked, CancellerHasItsBooking,
         CancelSteps, HasCancelled
<1>5. ASSUME NEW v \in Worker, v # w
      PROVE  StepIsInOrder(v)' /\ BookerHasItsRows(v)' /\ CancellerHasItsBooking(v)'
  <2>1. /\ pc'[v] = pc[v] /\ my'[v] = my[v] /\ my[v].bid \in BookingId \cup {0}
        /\ next_booking_id' = next_booking_id /\ next_booking_id \in Nat
        /\ acked' = acked /\ booking_seats' = booking_seats /\ held' = held /\ cancels' = cancels
    BY <1>a, <1>b, <1>5 DEF CmdInv, TypeOK, Local
  <2>2. my[v].op = "book" /\ my[v].bid # 0 =>
          /\ bookings'[my[v].bid].seat_count = bookings[my[v].bid].seat_count
          /\ bookings[my[v].bid].status = "CONFIRMED" =>
                bookings'[my[v].bid].status \in {"CONFIRMED", "CANCELLED"}
          /\ bookings[my[v].bid].status = "CANCELLED" => bookings'[my[v].bid].status = "CANCELLED"
    BY <1>d, <2>1
  <2>3. SeatsOf(my[v].bid)' = SeatsOf(my[v].bid)
    BY <2>1 DEF SeatsOf
  <2>4. StepIsInOrder(v)' /\ BookerHasItsRows(v)'
    BY <2>1, <2>2, <2>3, OtherBookers
  <2>5. CancellerHasItsBooking(v)'
    <3>1. CancellerHasItsBooking(v) /\ StepIsInOrder(v)
      BY DEF CmdInv
    <3>2. pc[v] \in CancelSteps \/ my[v].op = "cancel" => my[v].bid \in BookingId
      BY <3>1 DEF StepIsInOrder
    <3> QED BY <1>d, <1>e, <1>f, <1>5, <2>1, <3>1, <3>2 DEF CancellerHasItsBooking, HasCancelled
  <2> QED BY <2>4, <2>5
<1>6. BookingsHaveOneWorker'
  <2>1. \A v \in Worker : v # w => (HasCancelled(v)' <=> HasCancelled(v))
    BY <1>a, <1>b DEF HasCancelled
  <2>2. my' = my
    BY <1>a
  <2> SUFFICES ASSUME NEW x \in Worker, NEW y \in Worker, my[x].bid = my[y].bid, my[x].bid # 0
               PROVE  /\ my[x].op = "book" /\ my[y].op = "book" => x = y
                      /\ HasCancelled(x)' /\ HasCancelled(y)' => x = y
    BY <2>2 DEF BookingsHaveOneWorker
  <2>3. my[x].op = "book" /\ my[y].op = "book" => x = y
    BY DEF CmdInv, BookingsHaveOneWorker
  <2>4. HasCancelled(x)' /\ HasCancelled(y)' => x = y
    <3>1. CASE x # w /\ y # w
      BY <2>1, <3>1 DEF CmdInv, BookingsHaveOneWorker
    <3>2. CASE x = w \/ y = w
      BY <1>f, <2>1, <3>2
    <3> QED BY <3>1, <3>2
  <2> QED BY <2>3, <2>4
<1>7. AnswersAreKept'
  <2>1. \A b \in BookingId : SeatsOf(b)' = SeatsOf(b)
    BY <1>a DEF SeatsOf
  <2>2. acked' = acked /\ cancels' = cancels
    BY <1>a
  <2> QED BY <1>c, <1>d, <1>f, <2>1, <2>2 DEF CmdInv, AnswersAreKept
<1> QED BY <1>1, <1>2, <1>3, <1>4, <1>5, <1>6, <1>7 DEF CmdInv

(* The record of the booking is locked.                                    *)
LEMMA LockBookingCommand ==
    ASSUME CmdInv, NEW w \in Worker, LockBooking(w)
    PROVE  CmdInv'
<1>a. /\ pc[w] = "lock_booking" /\ pc' = [pc EXCEPT ![w] = "check"]
      /\ TP!Lock(w, BookingRecord(my[w].bid))
      /\ UNCHANGED <<events, seats, bookings, next_booking_id, booking_seats, my, acked, cancels, issued, faults>>
  BY DEF LockBooking, tables, goto
<1>b. pc' \in [Worker -> Label] /\ pc'[w] = "check" /\ \A v \in Worker : v # w => pc'[v] = pc[v]
  BY <1>a DEF CmdInv, TypeOK, Label
<1>c. StepIsInOrder(w) /\ my[w].ok = FALSE /\ my[w].op = "cancel" /\ my[w].bid \in BookingId
  BY <1>a DEF CmdInv, StepIsInOrder, TypeOK, Local, CancelSteps
<1>d. /\ TP!RL!HeldType' /\ LocksAreExclusive' /\ phase' = phase /\ \A v \in Worker : v # w => held'[v] = held[v]
      /\ held'[w][BookingRecord(my[w].bid)] = "EXCLUSIVE"
  BY <1>a, <1>c, LockIsGranted DEF Record, BookingRecord, CmdInv
<1>1. TypeOK'
  BY <1>a, <1>b, <1>d DEF CmdInv, TypeOK
<1>2. my' = my
  BY <1>a
<1>3. StepIsInOrder(w)'
  BY <1>b, <1>c, <1>2 DEF StepIsInOrder, CancelSteps
<1>4. BookerHasItsRows(w)' /\ ~HasCancelled(w)'
  BY <1>b, <1>c, <1>2 DEF BookerHasItsRows, HasBooked, HasCancelled
<1>5. CancellerHasItsBooking(w)'
  <2>1. held'[w][BookingRecord(my'[w].bid)] = "EXCLUSIVE"
    BY <1>2, <1>d
  <2>2. my[w].op = "cancel" /\ ~cancels'[my[w].bid].early => acked'[my[w].bid] # {}
    BY <1>a DEF CmdInv, CancellerHasItsBooking
  <2> QED BY <1>b, <1>2, <1>4, <2>1, <2>2 DEF CancellerHasItsBooking, CancelSteps
<1> QED BY <1>a, <1>b, <1>d, <1>1, <1>3, <1>4, <1>5, QuietCommandStep

(* The booking is found CONFIRMED, under its lock.                         *)
LEMMA CheckBookingCommand ==
    ASSUME CmdInv, NEW w \in Worker, CheckBooking(w), MayCancel(w, my[w].bid)
    PROVE  CmdInv'
<1>a. /\ pc[w] = "check" /\ pc' = [pc EXCEPT ![w] = "scan"] /\ bookings[my[w].bid].status = "CONFIRMED"
      /\ UNCHANGED <<events, seats, bookings, next_booking_id, booking_seats, held, phase, my,
                     acked, cancels, issued, faults>>
  BY DEF CheckBooking, MayCancel, tables, goto
<1>b. pc' \in [Worker -> Label] /\ pc'[w] = "scan" /\ \A v \in Worker : v # w => pc'[v] = pc[v]
  BY <1>a DEF CmdInv, TypeOK, Label
<1>c. StepIsInOrder(w) /\ my[w].ok = FALSE /\ my[w].op = "cancel"
  BY <1>a DEF CmdInv, StepIsInOrder, TypeOK, Local, CancelSteps
<1>d. my' = my /\ bookings' = bookings /\ held' = held /\ acked' = acked /\ cancels' = cancels
  BY <1>a
<1>1. TypeOK'
  BY <1>a, <1>b DEF CmdInv, TypeOK, TP!RL!HeldType
<1>2. LocksAreExclusive'
  BY <1>d DEF CmdInv, LocksAreExclusive
<1>3. StepIsInOrder(w)'
  BY <1>b, <1>c, <1>d DEF StepIsInOrder, CancelSteps
<1>4. BookerHasItsRows(w)' /\ ~HasCancelled(w)'
  BY <1>b, <1>c, <1>d DEF BookerHasItsRows, HasBooked, HasCancelled
<1>5. CancellerHasItsBooking(w)'
  <2>1. CancellerHasItsBooking(w)
    BY DEF CmdInv
  <2> QED BY <1>a, <1>b, <1>c, <1>d, <1>4, <2>1 DEF CancellerHasItsBooking, CancelSteps
<1> QED BY <1>a, <1>b, <1>1, <1>2, <1>3, <1>4, <1>5, QuietCommandStep

(* The seats of the booking are collected, all of them or, when pages       *)
(* cannot be read, some.                                                   *)
LEMMA ScanCommand ==
    ASSUME CmdInv, NEW w \in Worker, NEW S \in SUBSET SeatsOf(my[w].bid), pc[w] = "scan",
           my' = [my EXCEPT ![w].seats = S, ![w].todo = S],
           pc' = [pc EXCEPT ![w] = IF S = {} THEN "cancel" ELSE "lock_seat"],
           UNCHANGED <<tables, held, phase, acked, cancels, issued>>, faults' \in 0..MaxFaults
    PROVE  CmdInv'
<1>a. UNCHANGED <<events, seats, bookings, next_booking_id, booking_seats>>
  BY DEF tables
<1>b. /\ pc' \in [Worker -> Label] /\ my' \in [Worker -> Local]
      /\ \A v \in Worker : v # w => pc'[v] = pc[v] /\ my'[v] = my[v]
      /\ my'[w].op = my[w].op /\ my'[w].bid = my[w].bid /\ my'[w].ok = my[w].ok
      /\ my'[w].seats = S /\ my'[w].todo = S /\ pc'[w] \in {"cancel", "lock_seat"}
  <2>1. S \subseteq SeatId
    BY BookingConstants DEF SeatsOf
  <2>2. my[w] \in Local /\ my \in [Worker -> Local] /\ my'[w] = [my[w] EXCEPT !.seats = S, !.todo = S]
    BY DEF CmdInv, TypeOK
  <2>3. /\ my'[w] \in Local /\ my'[w].op = my[w].op /\ my'[w].ok = my[w].ok
        /\ my'[w].bid = my[w].bid /\ my'[w].seats = S /\ my'[w].todo = S
    BY <2>1, <2>2 DEF Local
  <2>4. /\ pc' \in [Worker -> Label] /\ \A v \in Worker : v # w => pc'[v] = pc[v]
        /\ pc'[w] \in {"cancel", "lock_seat"}
    BY DEF CmdInv, TypeOK, Label
  <2> QED BY <2>2, <2>3, <2>4
<1>c. StepIsInOrder(w) /\ my[w].ok = FALSE /\ my[w].op = "cancel" /\ CancellerHasItsBooking(w)
  BY DEF CmdInv, StepIsInOrder, TypeOK, Local, CancelSteps
<1>1. TypeOK'
  BY <1>a, <1>b DEF CmdInv, TypeOK, TP!RL!HeldType
<1>2. LocksAreExclusive'
  BY DEF CmdInv, LocksAreExclusive
<1>3. StepIsInOrder(w)'
  BY <1>b, <1>c DEF StepIsInOrder, CancelSteps
<1>4. BookerHasItsRows(w)' /\ ~HasCancelled(w)'
  BY <1>b, <1>c DEF BookerHasItsRows, HasBooked, HasCancelled
<1>5. CancellerHasItsBooking(w)'
  BY <1>a, <1>b, <1>c, <1>4 DEF CancellerHasItsBooking, CancelSteps
<1> QED BY <1>a, <1>b, <1>1, <1>2, <1>3, <1>4, <1>5, QuietCommandStep

(* A seat of the booking is locked.                                        *)
LEMMA LockBookedSeatCommand ==
    ASSUME CmdInv, NEW w \in Worker, NEW s \in SeatId, LockBookedSeat(w, s)
    PROVE  CmdInv'
<1>a. /\ pc[w] = "lock_seat" /\ pc' = [pc EXCEPT ![w] = "free"] /\ TP!Lock(w, SeatRecord(s))
      /\ UNCHANGED <<events, seats, bookings, next_booking_id, booking_seats, my, acked, cancels, issued, faults>>
  BY DEF LockBookedSeat, tables, goto
<1>b. pc' \in [Worker -> Label] /\ pc'[w] = "free" /\ \A v \in Worker : v # w => pc'[v] = pc[v]
  BY <1>a DEF CmdInv, TypeOK, Label
<1>c. /\ StepIsInOrder(w) /\ my[w].ok = FALSE /\ my[w].op = "cancel" /\ my[w].bid \in BookingId
      /\ CancellerHasItsBooking(w)
  BY <1>a DEF CmdInv, StepIsInOrder, TypeOK, Local, CancelSteps
<1>d. /\ TP!RL!HeldType' /\ LocksAreExclusive' /\ phase' = phase /\ \A v \in Worker : v # w => held'[v] = held[v]
      /\ held'[w][BookingRecord(my[w].bid)] = held[w][BookingRecord(my[w].bid)]
  <2>1. SeatRecord(s) \in Record /\ BookingRecord(my[w].bid) \in Record /\ SeatRecord(s) # BookingRecord(my[w].bid)
    BY <1>c DEF Record, SeatRecord, BookingRecord
  <2> QED BY <1>a, <2>1, LockIsGranted DEF CmdInv
<1>e. my' = my /\ bookings' = bookings /\ acked' = acked /\ cancels' = cancels
  BY <1>a
<1>1. TypeOK'
  BY <1>a, <1>b, <1>d DEF CmdInv, TypeOK
<1>3. StepIsInOrder(w)'
  BY <1>b, <1>c, <1>e DEF StepIsInOrder, CancelSteps
<1>4. BookerHasItsRows(w)' /\ ~HasCancelled(w)'
  BY <1>b, <1>c, <1>e DEF BookerHasItsRows, HasBooked, HasCancelled
<1>5. CancellerHasItsBooking(w)'
  <2>1. held'[w][BookingRecord(my'[w].bid)] = "EXCLUSIVE"
    BY <1>a, <1>c, <1>d, <1>e DEF CancellerHasItsBooking, CancelSteps
  <2> QED BY <1>a, <1>b, <1>c, <1>e, <1>4, <2>1 DEF CancellerHasItsBooking, CancelSteps
<1> QED BY <1>a, <1>b, <1>d, <1>1, <1>3, <1>4, <1>5, QuietCommandStep

(* A seat is given back, or passed over when it cannot be read.            *)
LEMMA FreeCommand ==
    ASSUME CmdInv, NEW w \in Worker, NEW s \in SeatId, pc[w] = "free", Lowest(s, my[w].todo),
           Iterate(w, s, "lock_seat", "cancel"),
           seats' \in {seats, [seats EXCEPT ![s] = FreeSeat]},
           UNCHANGED <<events, bookings, next_booking_id, booking_seats, held, phase, acked, cancels, issued>>,
           faults' \in 0..MaxFaults
    PROVE  CmdInv'
<1>b. /\ pc' \in [Worker -> Label] /\ my' \in [Worker -> Local]
      /\ \A v \in Worker : v # w => pc'[v] = pc[v] /\ my'[v] = my[v]
      /\ my'[w].op = my[w].op /\ my'[w].bid = my[w].bid /\ my'[w].ok = my[w].ok
      /\ my'[w].seats = my[w].seats /\ my'[w].todo \subseteq my[w].seats
      /\ pc'[w] \in {"cancel", "lock_seat"}
  <2>1. "lock_seat" \in Label /\ "cancel" \in Label
    BY DEF Label
  <2> QED BY <2>1, LoopMoves
<1>c. StepIsInOrder(w) /\ my[w].ok = FALSE /\ my[w].op = "cancel" /\ CancellerHasItsBooking(w)
  BY DEF CmdInv, StepIsInOrder, TypeOK, Local, CancelSteps
<1>d. seats' \in [Seat -> [status : {"AVAILABLE", "BOOKED"}, booked_by : User \cup {NULL}]]
  BY DEF CmdInv, TypeOK, FreeSeat
<1>1. TypeOK'
  BY <1>b, <1>d DEF CmdInv, TypeOK, TP!RL!HeldType
<1>2. LocksAreExclusive'
  BY DEF CmdInv, LocksAreExclusive
<1>3. StepIsInOrder(w)'
  BY <1>b, <1>c DEF StepIsInOrder, CancelSteps
<1>4. BookerHasItsRows(w)' /\ ~HasCancelled(w)'
  BY <1>b, <1>c DEF BookerHasItsRows, HasBooked, HasCancelled
<1>5. CancellerHasItsBooking(w)'
  BY <1>b, <1>c, <1>4 DEF CancellerHasItsBooking, CancelSteps
<1> QED BY <1>b, <1>1, <1>2, <1>3, <1>4, <1>5, QuietCommandStep

(* The transaction commits: from now on the command will be answered with  *)
(* OK.                                                                     *)
LEMMA CommitCommand ==
    ASSUME CmdInv, NEW w \in Worker, Commit(w)
    PROVE  CmdInv'
<1>a. /\ pc[w] = "commit" /\ pc' = [pc EXCEPT ![w] = "release"] /\ my' = [my EXCEPT ![w].ok = TRUE]
      /\ phase' = [phase EXCEPT ![w] = "shrinking"]
      /\ UNCHANGED <<events, seats, bookings, next_booking_id, booking_seats, held, acked, cancels, issued, faults>>
  BY DEF Commit, TP!End, tables, goto
<1>b. /\ pc' \in [Worker -> Label] /\ my' \in [Worker -> Local] /\ pc'[w] = "release"
      /\ \A v \in Worker : v # w => pc'[v] = pc[v] /\ my'[v] = my[v]
      /\ my'[w].op = my[w].op /\ my'[w].bid = my[w].bid
      /\ my'[w].seats = my[w].seats /\ my'[w].todo = my[w].todo
  <2>1. pc \in [Worker -> Label] /\ my \in [Worker -> Local]
    BY DEF CmdInv, TypeOK
  <2>2. /\ my' \in [Worker -> Local] /\ my'[w].op = my[w].op /\ my'[w].bid = my[w].bid
        /\ my'[w].seats = my[w].seats /\ my'[w].todo = my[w].todo
        /\ \A v \in Worker : v # w => my'[v] = my[v]
    BY <1>a, <2>1 DEF Local
  <2> QED BY <1>a, <2>1, <2>2 DEF Label
<1>c. StepIsInOrder(w) /\ BookerHasItsRows(w) /\ CancellerHasItsBooking(w)
  BY DEF CmdInv
<1>d. /\ bookings' = bookings /\ next_booking_id' = next_booking_id /\ booking_seats' = booking_seats
      /\ acked' = acked /\ cancels' = cancels
  BY <1>a
<1>1. TypeOK'
  BY <1>a, <1>b DEF CmdInv, TypeOK, TP!RL!HeldType
<1>2. LocksAreExclusive'
  BY <1>a DEF CmdInv, LocksAreExclusive
<1>3. StepIsInOrder(w)'
  BY <1>b, <1>c DEF StepIsInOrder, CancelSteps
<1>4. HasBooked(w)' => HasBooked(w)
  BY <1>a, <1>b DEF HasBooked
<1>5. HasCancelled(w)' => HasCancelled(w)
  BY <1>a, <1>b DEF HasCancelled
<1>6. BookerHasItsRows(w)'
  <2>1. Linked(w)' = Linked(w) /\ SeatsOf(my[w].bid)' = SeatsOf(my[w].bid)
    BY <1>a, <1>b, <1>d DEF Linked, SeatsOf
  <2> QED BY <1>b, <1>c, <1>d, <1>4, <2>1 DEF BookerHasItsRows
<1>7. CancellerHasItsBooking(w)'
  BY <1>b, <1>c, <1>d, <1>5 DEF CancellerHasItsBooking, CancelSteps
<1> QED BY <1>a, <1>b, <1>1, <1>2, <1>3, <1>5, <1>6, <1>7, QuietCommandStep

(* The locks of the transaction are released one by one, and the call      *)
(* returns.                                                                *)
LEMMA ReleaseCommand ==
    ASSUME CmdInv, NEW w \in Worker, (\E r \in Record : Release(w, r)) \/ EndTxn(w)
    PROVE  CmdInv'
<1>a. /\ pc[w] = "release" /\ pc' \in {pc, [pc EXCEPT ![w] = "reply"]}
      /\ \/ held' = held
         \/ \E r \in Record : held' = [held EXCEPT ![w][r] = "none"]
      /\ phase' \in {phase, [phase EXCEPT ![w] = "none"]}
      /\ UNCHANGED <<events, seats, bookings, next_booking_id, booking_seats, my, acked, cancels, issued, faults>>
  BY DEF Release, EndTxn, TP!Unlock, TP!Finish, TP!RL!Release, tables, goto
<1>b. /\ pc' \in [Worker -> Label] /\ pc'[w] \in {"release", "reply"} /\ \A v \in Worker : v # w => pc'[v] = pc[v]
  BY <1>a DEF CmdInv, TypeOK, Label
<1>c. /\ TP!RL!HeldType' /\ \A v \in Worker : v # w => held'[v] = held[v]
      /\ \A v \in Worker, q \in Record : held'[v][q] = held[v][q] \/ held'[v][q] = "none"
  <2>1. TP!RL!HeldType
    BY DEF CmdInv, TypeOK
  <2>2. CASE held' = held
    BY <2>1, <2>2 DEF TP!RL!HeldType
  <2>3. ASSUME NEW r \in Record, held' = [held EXCEPT ![w][r] = "none"]
        PROVE  /\ TP!RL!HeldType' /\ \A v \in Worker : v # w => held'[v] = held[v]
               /\ \A v \in Worker, q \in Record : held'[v][q] = held[v][q] \/ held'[v][q] = "none"
    BY <2>1, <2>3 DEF TP!RL!HeldType, TP!RL!Mode
  <2> QED BY <1>a, <2>2, <2>3
<1>d. /\ bookings' = bookings /\ next_booking_id' = next_booking_id /\ booking_seats' = booking_seats
      /\ acked' = acked /\ cancels' = cancels /\ my' = my
  BY <1>a
<1>e. StepIsInOrder(w) /\ BookerHasItsRows(w) /\ CancellerHasItsBooking(w)
  BY DEF CmdInv
<1>1. TypeOK'
  BY <1>a, <1>b, <1>c DEF CmdInv, TypeOK
<1>2. LocksAreExclusive'
  BY <1>c DEF CmdInv, LocksAreExclusive
<1>3. StepIsInOrder(w)'
  BY <1>b, <1>d, <1>e DEF StepIsInOrder, CancelSteps
<1>4. HasBooked(w)' => HasBooked(w)
  BY <1>b, <1>d DEF HasBooked
<1>5. HasCancelled(w)' => HasCancelled(w)
  BY <1>b, <1>d DEF HasCancelled
<1>6. BookerHasItsRows(w)'
  <2>1. Linked(w)' = Linked(w) /\ SeatsOf(my[w].bid)' = SeatsOf(my[w].bid)
    BY <1>a, <1>b, <1>d DEF Linked, SeatsOf
  <2> QED BY <1>d, <1>e, <1>4, <2>1 DEF BookerHasItsRows
<1>7. CancellerHasItsBooking(w)'
  BY <1>b, <1>d, <1>e, <1>5 DEF CancellerHasItsBooking, CancelSteps
<1> QED BY <1>b, <1>c, <1>d, <1>1, <1>2, <1>3, <1>5, <1>6, <1>7, QuietCommandStep

(* The client is answered: an OK to BOOK is given by the one worker that    *)
(* made the booking, an OK to CANCEL by the one that cancelled it.         *)
LEMMA ReplyCommand ==
    ASSUME CmdInv, NEW w \in Worker, Reply(w)
    PROVE  CmdInv'
<1> DEFINE n == my[w].bid
<1>a. /\ pc[w] = "reply" /\ pc' = [pc EXCEPT ![w] = "idle"] /\ my' = [my EXCEPT ![w] = Idle]
      /\ acked' = IF my[w].ok /\ my[w].op = "book" THEN [acked EXCEPT ![n] = my[w].seats] ELSE acked
      /\ cancels' = IF my[w].ok /\ my[w].op = "cancel" THEN [cancels EXCEPT ![n].ok = @ + 1] ELSE cancels
      /\ UNCHANGED <<events, seats, bookings, next_booking_id, booking_seats, held, phase, issued, faults>>
  BY DEF Reply, tables, goto
<1>b. /\ Idle \in Local /\ Idle.todo = Idle.seats /\ Idle.op = "none" /\ Idle.ok = FALSE
  BY DEF Idle, Local
<1>c. /\ pc' \in [Worker -> Label] /\ my' \in [Worker -> Local] /\ pc'[w] = "idle" /\ my'[w] = Idle
      /\ \A v \in Worker : v # w => pc'[v] = pc[v] /\ my'[v] = my[v]
  BY <1>a, <1>b DEF CmdInv, TypeOK, Label
<1>d. /\ acked \in [BookingId -> SUBSET SeatId] /\ cancels \in [BookingId -> Tally] /\ my[w] \in Local
      /\ StepIsInOrder(w) /\ BookerHasItsRows(w) /\ CancellerHasItsBooking(w)
  BY DEF CmdInv, TypeOK
<1>e. HasBooked(w) <=> my[w].ok /\ my[w].op = "book"
  BY <1>a DEF HasBooked
<1>f. HasCancelled(w) <=> my[w].ok /\ my[w].op = "cancel"
  BY <1>a DEF HasCancelled
<1>g. /\ acked' \in [BookingId -> SUBSET SeatId]
      /\ \A b \in BookingId : acked'[b] = IF HasBooked(w) /\ b = n THEN my[w].seats ELSE acked[b]
  <2>1. CASE HasBooked(w)
    <3>1. acked' = [acked EXCEPT ![n] = my[w].seats] /\ my[w].seats \in SUBSET SeatId
      BY <1>a, <1>d, <1>e, <2>1 DEF Local
    <3> QED BY <1>d, <2>1, <3>1
  <2>2. CASE ~HasBooked(w)
    BY <1>a, <1>d, <1>e, <2>2
  <2> QED BY <2>1, <2>2
<1>h. /\ cancels' \in [BookingId -> Tally]
      /\ \A b \in BookingId :
            /\ cancels'[b].early = cancels[b].early
            /\ cancels'[b].ok = IF HasCancelled(w) /\ b = n THEN cancels[b].ok + 1 ELSE cancels[b].ok
  <2>1. CASE HasCancelled(w)
    <3>1. cancels' = [cancels EXCEPT ![n].ok = @ + 1]
      BY <1>a, <1>f, <2>1
    <3>2. \A b \in BookingId : cancels[b] \in Tally /\ [cancels[b] EXCEPT !.ok = @ + 1] \in Tally
      BY <1>d DEF Tally
    <3>3. /\ cancels' \in [BookingId -> Tally]
          /\ \A b \in BookingId : cancels'[b] = IF b = n THEN [cancels[b] EXCEPT !.ok = @ + 1] ELSE cancels[b]
      BY <1>d, <3>1, <3>2
    <3> QED BY <2>1, <3>2, <3>3 DEF Tally
  <2>2. CASE ~HasCancelled(w)
    BY <1>a, <1>d, <1>f, <2>2
  <2> QED BY <2>1, <2>2
<1>i. /\ bookings' = bookings /\ next_booking_id' = next_booking_id /\ booking_seats' = booking_seats /\ held' = held
      /\ \A b \in BookingId : SeatsOf(b)' = SeatsOf(b)
  BY <1>a DEF SeatsOf
<1>1. TypeOK'
  <2>1. acked' \in [BookingId -> SUBSET SeatId] /\ cancels' \in [BookingId -> Tally]
    BY <1>g, <1>h
  <2>2. UNCHANGED <<events, seats, bookings, next_booking_id, booking_seats, held, phase, issued, faults>>
    BY <1>a
  <2> QED BY <1>c, <2>1, <2>2 DEF CmdInv, TypeOK, TP!RL!HeldType
<1>2. LocksAreExclusive'
  BY <1>i DEF CmdInv, LocksAreExclusive
<1>3. RowsHaveBookings'
  BY <1>i DEF CmdInv, RowsHaveBookings
<1>4. StepIsInOrder(w)' /\ BookerHasItsRows(w)' /\ CancellerHasItsBooking(w)' /\ ~HasCancelled(w)'
  BY <1>b, <1>c DEF StepIsInOrder, BookerHasItsRows, HasBooked, CancellerHasItsBooking, CancelSteps, HasCancelled
<1>5. ASSUME NEW v \in Worker, v # w
      PROVE  StepIsInOrder(v)' /\ BookerHasItsRows(v)' /\ CancellerHasItsBooking(v)'
  <2>1. /\ pc'[v] = pc[v] /\ my'[v] = my[v] /\ my[v].bid \in BookingId \cup {0}
        /\ next_booking_id \in Nat /\ StepIsInOrder(v) /\ CancellerHasItsBooking(v)
    BY <1>c, <1>5 DEF CmdInv, TypeOK, Local
  <2>2. my[v].op = "book" /\ my[v].bid # 0 => acked'[my[v].bid] = acked[my[v].bid]
    <3>1. HasBooked(w) /\ my[v].op = "book" /\ my[v].bid # 0 => my[v].bid # n
      BY <1>5 DEF HasBooked, CmdInv, BookingsHaveOneWorker
    <3> QED BY <1>g, <2>1, <3>1
  <2>3. SeatsOf(my[v].bid)' = SeatsOf(my[v].bid)
    BY <1>i, <2>1 DEF SeatsOf
  <2>4. StepIsInOrder(v)' /\ BookerHasItsRows(v)'
    BY <1>i, <2>1, <2>2, <2>3, OtherBookers
  <2>5. CancellerHasItsBooking(v)'
    <3>1. pc[v] \in CancelSteps \/ my[v].op = "cancel" => my[v].bid \in BookingId
      BY <2>1 DEF StepIsInOrder
    <3>2. HasCancelled(v)' <=> HasCancelled(v)
      BY <2>1 DEF HasCancelled
    <3>3. HasCancelled(v) => cancels'[my[v].bid].ok = cancels[my[v].bid].ok
      <4>1. HasCancelled(v) => my[v].bid \in BookingId /\ my[v].bid # 0
        BY <3>1 DEF HasCancelled, BookingId
      <4>2. HasCancelled(w) /\ HasCancelled(v) => my[v].bid # n
        BY <1>5, <4>1 DEF CmdInv, BookingsHaveOneWorker
      <4> QED BY <1>h, <4>1, <4>2
    <3>4. my[v].op = "cancel" /\ acked[my[v].bid] # {} => acked'[my[v].bid] # {}
      <4>1. HasBooked(w) => acked[n] = {}
        BY <1>d DEF HasBooked, BookerHasItsRows, BookingId
      <4> QED BY <1>g, <3>1, <4>1
    <3>5. my[v].op = "cancel" => cancels'[my[v].bid].early = cancels[my[v].bid].early
      BY <1>h, <3>1
    <3>6. /\ pc'[v] \in CancelSteps \ {"lock_booking"} => held'[v][BookingRecord(my'[v].bid)] = "EXCLUSIVE"
          /\ pc'[v] \in CancelSteps \ {"lock_booking", "check"} => bookings'[my'[v].bid].status = "CONFIRMED"
          /\ HasCancelled(v)' => bookings'[my'[v].bid].status = "CANCELLED" /\ cancels'[my'[v].bid].ok = 0
      BY <1>i, <2>1, <3>2, <3>3 DEF CancellerHasItsBooking
    <3>7. my'[v].op = "cancel" /\ ~cancels'[my'[v].bid].early => acked'[my'[v].bid] # {}
      BY <2>1, <3>4, <3>5 DEF CancellerHasItsBooking
    <3> QED BY <3>6, <3>7 DEF CancellerHasItsBooking
  <2> QED BY <2>4, <2>5
<1>6. BookingsHaveOneWorker'
  <2>1. \A v \in Worker : HasCancelled(v)' => HasCancelled(v) /\ my[v].bid = my'[v].bid
    BY <1>c, <1>4 DEF HasCancelled
  <2>2. \A v \in Worker : my'[v].op = "book" => my[v].op = "book" /\ my[v].bid = my'[v].bid
    BY <1>b, <1>c
  <2> QED BY <2>1, <2>2 DEF CmdInv, BookingsHaveOneWorker
<1>7. AnswersAreKept'
  <2> SUFFICES ASSUME NEW b \in BookingId
               PROVE  /\ acked'[b] # {} =>
                            /\ bookings'[b].status \in {"CONFIRMED", "CANCELLED"}
                            /\ SeatsOf(b)' = acked'[b] /\ bookings'[b].seat_count = Cardinality(acked'[b])
                      /\ cancels'[b].ok <= 1 /\ (cancels'[b].ok # 0 => bookings'[b].status = "CANCELLED")
                      /\ bookings'[b].status = "CANCELLED" /\ acked'[b] = {} => cancels'[b].early
    BY DEF AnswersAreKept
  <2>a. /\ acked[b] # {} => /\ bookings[b].status \in {"CONFIRMED", "CANCELLED"}
                            /\ SeatsOf(b) = acked[b] /\ bookings[b].seat_count = Cardinality(acked[b])
        /\ cancels[b].ok <= 1 /\ (cancels[b].ok # 0 => bookings[b].status = "CANCELLED")
        /\ bookings[b].status = "CANCELLED" /\ acked[b] = {} => cancels[b].early
    BY DEF CmdInv, AnswersAreKept
  <2>1. HasBooked(w) /\ b = n =>
          /\ acked[b] = {} /\ bookings[b].status \in {"CONFIRMED", "CANCELLED"}
          /\ SeatsOf(b) = my[w].seats /\ bookings[b].seat_count = Cardinality(my[w].seats)
    <3>1. HasBooked(w) => Linked(w) = my[w].seats
      BY <1>a DEF Linked
    <3>2. HasBooked(w) => my[w].op = "book" /\ n # 0
      BY <1>d DEF HasBooked, BookerHasItsRows, BookingId
    <3> QED BY <1>d, <3>1, <3>2 DEF BookerHasItsRows
  <2>2. HasCancelled(w) /\ b = n => bookings[b].status = "CANCELLED" /\ cancels[b].ok = 0
    BY <1>d DEF CancellerHasItsBooking
  <2>3. acked'[b] # {} =>
          /\ bookings'[b].status \in {"CONFIRMED", "CANCELLED"}
          /\ SeatsOf(b)' = acked'[b] /\ bookings'[b].seat_count = Cardinality(acked'[b])
    BY <1>g, <1>i, <2>a, <2>1
  <2>4. cancels'[b].ok <= 1 /\ (cancels'[b].ok # 0 => bookings'[b].status = "CANCELLED")
    BY <1>h, <1>i, <2>a, <2>2
  <2>5. bookings'[b].status = "CANCELLED" /\ acked'[b] = {} => cancels'[b].early
    <3>1. acked'[b] = {} => acked[b] = {}
      BY <1>g, <2>1
    <3>2. cancels'[b].early = cancels[b].early /\ bookings'[b] = bookings[b]
      BY <1>h, <1>i
    <3> QED BY <2>a, <3>1, <3>2
  <2> QED BY <2>3, <2>4, <2>5
<1> QED BY <1>1, <1>2, <1>3, <1>4, <1>5, <1>6, <1>7 DEF CmdInv

(* Every call that may fail, at every point where it may: the commands keep *)
(* their invariant.                                                        *)
LEMMA FaultCommand ==
    ASSUME CmdInv, NEW w \in Worker, Fault(w)
    PROVE  CmdInv'
<1>a. UNCHANGED <<held, phase, acked, cancels, issued>> /\ faults' \in 0..MaxFaults
  BY BookingConstants DEF Fault, CmdInv, TypeOK
<1>b. phase' \in [Worker -> {"none", "growing", "shrinking"}]
  BY <1>a DEF CmdInv, TypeOK
<1>1. CASE CallFails(w)
  <2>1. /\ pc[w] \notin {"release", "reply"} /\ pc' = [pc EXCEPT ![w] = "abort"]
        /\ tables' = tables /\ my' = my
    BY <1>1 DEF CallFails, goto
  <2> QED BY <1>a, <1>b, <2>1, GiveUpStep
<1>2. CASE InsertBookingFails(w)
  BY <1>a, <1>2, InsertBookingFailsCommand
<1>3. ASSUME NEW s \in SeatId, InsertBookingSeatFails(w, s)
      PROVE  CmdInv'
  <2>1. /\ pc[w] = "link" /\ Lowest(s, my[w].todo) /\ pc' = [pc EXCEPT ![w] = "abort"]
        /\ booking_seats' \in {booking_seats, booking_seats \cup {<<my[w].bid, s>>}}
        /\ UNCHANGED <<events, seats, bookings, next_booking_id, my>>
    BY <1>3 DEF InsertBookingSeatFails, goto
  <2> QED BY <1>a, <2>1, RowCommand
<1>4. ASSUME NEW s \in SeatId, FindSeatFails(w, s)
      PROVE  CmdInv'
  <2>1. /\ pc[w] = "free" /\ Lowest(s, my[w].todo) /\ Iterate(w, s, "lock_seat", "cancel")
        /\ UNCHANGED <<events, seats, bookings, next_booking_id, booking_seats>>
    BY <1>4 DEF FindSeatFails, tables
  <2> QED BY <1>a, <2>1, FreeCommand
<1>5. ASSUME NEW S \in SUBSET SeatsOf(my[w].bid), ScanMissesRows(w, S)
      PROVE  CmdInv'
  <2>1. /\ pc[w] = "scan" /\ my' = [my EXCEPT ![w].seats = S, ![w].todo = S] /\ tables' = tables
        /\ pc' = [pc EXCEPT ![w] = IF S = {} THEN "cancel" ELSE "lock_seat"]
    BY <1>5 DEF ScanMissesRows, goto
  <2> QED BY <1>a, <2>1, ScanCommand
<1> QED BY <1>1, <1>2, <1>3, <1>4, <1>5 DEF Fault

(* Every step of booking_book_seats and booking_cancel.                    *)
LEMMA StepCommand ==
    ASSUME CmdInv, NEW w \in Worker, Step(w)
    PROVE  CmdInv'
<1>a. faults \in 0..MaxFaults /\ phase \in [Worker -> {"none", "growing", "shrinking"}]
  BY DEF CmdInv, TypeOK
<1>1. CASE NoSlot(w)
  <2>1. /\ pc[w] = "begin" /\ pc' = [pc EXCEPT ![w] = "reply"]
        /\ UNCHANGED <<tables, held, phase, my, acked, cancels, issued, faults>>
    BY <1>1 DEF NoSlot, goto
  <2> QED BY <1>a, <2>1, GiveUpStep
<1>2. CASE Abort(w)
  <2>1. /\ pc[w] = "abort" /\ pc' = [pc EXCEPT ![w] = "release"] /\ phase' = [phase EXCEPT ![w] = "shrinking"]
        /\ UNCHANGED <<tables, held, my, acked, cancels, issued, faults>>
    BY <1>2 DEF Abort, TP!End, goto
  <2>2. phase' \in [Worker -> {"none", "growing", "shrinking"}]
    BY <1>a, <2>1
  <2> QED BY <1>a, <2>1, <2>2, GiveUpStep
<1>3. CASE CheckBooking(w)
  <2>1. CASE MayCancel(w, my[w].bid)
    BY <1>3, <2>1, CheckBookingCommand
  <2>2. CASE ~MayCancel(w, my[w].bid)
    <3>1. /\ pc[w] = "check" /\ pc' = [pc EXCEPT ![w] = "abort"]
          /\ UNCHANGED <<tables, held, phase, my, acked, cancels, issued, faults>>
      BY <1>3, <2>2 DEF CheckBooking, goto
    <3> QED BY <1>a, <3>1, GiveUpStep
  <2> QED BY <2>1, <2>2
<1>4. CASE ScanBookingSeats(w)
  <2> DEFINE S == SeatsOf(my[w].bid)
  <2>1. /\ pc[w] = "scan" /\ my' = [my EXCEPT ![w].seats = S, ![w].todo = S]
        /\ pc' = [pc EXCEPT ![w] = IF S = {} THEN "cancel" ELSE "lock_seat"]
        /\ UNCHANGED <<tables, held, phase, acked, cancels, issued, faults>>
    BY <1>4 DEF ScanBookingSeats, goto
  <2>2. S \in SUBSET SeatsOf(my[w].bid)
    OBVIOUS
  <2> HIDE DEF S
  <2> QED BY <1>a, <2>1, <2>2, ScanCommand
<1>5. CASE Begin(w) \/ InsertBooking(w) \/ LockBooking(w) \/ MarkCancelled(w)
  BY <1>5, BeginCommand, InsertBookingCommand, LockBookingCommand, MarkCancelledCommand
<1>6. CASE Commit(w) \/ EndTxn(w) \/ Reply(w) \/ \E r \in Record : Release(w, r)
  BY <1>6, CommitCommand, ReleaseCommand, ReplyCommand
<1>7. ASSUME NEW s \in SeatId, LockSeat(w, s) \/ MarkBooked(w, s) \/ LockBookedSeat(w, s)
      PROVE  CmdInv'
  BY <1>7, LockSeatCommand, MarkBookedCommand, LockBookedSeatCommand
<1>8. ASSUME NEW s \in SeatId, VerifySeat(w, s)
      PROVE  CmdInv'
  <2>1. CASE Bookable(w, s)
    BY <1>8, <2>1, VerifySeatCommand
  <2>2. CASE ~Bookable(w, s)
    <3>1. /\ pc[w] = "verify" /\ pc' = [pc EXCEPT ![w] = "abort"]
          /\ UNCHANGED <<tables, held, phase, my, acked, cancels, issued, faults>>
      BY <1>8, <2>2 DEF VerifySeat, goto
    <3> QED BY <1>a, <3>1, GiveUpStep
  <2> QED BY <2>1, <2>2
<1>9. ASSUME NEW s \in SeatId, InsertBookingSeat(w, s)
      PROVE  CmdInv'
  <2>1. /\ pc[w] = "link" /\ Lowest(s, my[w].todo) /\ pc' = [pc EXCEPT ![w] = "mark"]
        /\ booking_seats' = booking_seats \cup {<<my[w].bid, s>>}
        /\ UNCHANGED <<events, seats, bookings, next_booking_id, held, phase, my, acked, cancels, issued, faults>>
    BY <1>9 DEF InsertBookingSeat, goto
  <2> QED BY <1>a, <2>1, RowCommand
<1>10. ASSUME NEW s \in SeatId, ReleaseSeat(w, s)
       PROVE  CmdInv'
  <2>1. /\ pc[w] = "free" /\ Lowest(s, my[w].todo) /\ Iterate(w, s, "lock_seat", "cancel")
        /\ seats' = [seats EXCEPT ![s] = FreeSeat]
        /\ UNCHANGED <<events, bookings, next_booking_id, booking_seats, held, phase, acked, cancels, issued, faults>>
    BY <1>10 DEF ReleaseSeat
  <2> QED BY <1>a, <2>1, FreeCommand
<1> QED BY <1>1, <1>2, <1>3, <1>4, <1>5, <1>6, <1>7, <1>8, <1>9, <1>10 DEF Step

(* No step of the system, failing calls included, leaves the invariant of  *)
(* the commands.                                                           *)
LEMMA NextCmdInv ==
    ASSUME CmdInv, [Next]_vars
    PROVE  CmdInv'
<1>1. CASE UNCHANGED vars
  BY <1>1 DEF vars, tables, CmdInv, TypeOK, TP!RL!HeldType, LocksAreExclusive, RowsHaveBookings, StepIsInOrder,
     BookerHasItsRows, HasBooked, Linked, CancellerHasItsBooking, HasCancelled, BookingsHaveOneWorker,
     AnswersAreKept, SeatsOf
<1>2. ASSUME NEW w \in Worker, Command(w)
      PROVE  CmdInv'
  <2>1. ASSUME NEW u \in User, NEW e \in Event, NEW args \in Args, Book(w, u, e, args)
        PROVE  CmdInv'
    BY <2>1, BookCommand
  <2>2. ASSUME NEW u \in User, NEW b \in BookingId, Cancel(w, u, b)
        PROVE  CmdInv'
    BY <2>2, CancelCommand
  <2>3. ASSUME NEW e \in Event, DeleteEvent(w, e)
        PROVE  CmdInv'
    BY <2>3, DeleteEventCommand
  <2> QED BY <1>2, <2>1, <2>2, <2>3 DEF Command
<1>3. ASSUME NEW w \in Worker, Step(w) \/ Fault(w)
      PROVE  CmdInv'
  BY <1>3, StepCommand, FaultCommand
<1> QED BY <1>1, <1>2, <1>3 DEF Next, Quiescent

(* Before the first command nothing is claimed of any worker.              *)
LEMMA InitCmdInv == Init => CmdInv
<1> SUFFICES ASSUME Init PROVE CmdInv
  OBVIOUS
<1>a. /\ bookings = [b \in BookingId |-> NoBooking] /\ booking_seats = {}
      /\ pc = [w \in Worker |-> "idle"] /\ my = [w \in Worker |-> Idle]
      /\ acked = [b \in BookingId |-> {}] /\ cancels = [b \in BookingId |-> [ok |-> 0, early |-> FALSE]]
  BY DEF Init
<1>b. /\ Idle.op = "none" /\ Idle.ok = FALSE /\ Idle.todo = {} /\ Idle.seats = {} /\ Idle.bid = 0
      /\ NoBooking.status = "none"
  BY DEF Idle, NoBooking
<1>1. TypeOK /\ LocksAreExclusive /\ RowsHaveBookings
  BY InitIInv DEF IInv
<1>2. \A w \in Worker : StepIsInOrder(w) /\ BookerHasItsRows(w) /\ CancellerHasItsBooking(w)
  BY <1>a, <1>b DEF StepIsInOrder, BookerHasItsRows, HasBooked, CancellerHasItsBooking, CancelSteps, HasCancelled
<1>3. BookingsHaveOneWorker
  BY <1>a, <1>b DEF BookingsHaveOneWorker
<1>4. AnswersAreKept
  BY <1>a, <1>b DEF AnswersAreKept
<1> QED BY <1>1, <1>2, <1>3, <1>4 DEF CmdInv

-----------------------------------------------------------------------------
(* The invariant of the commands holds for any number of workers, users,   *)
(* seats and commands, whichever calls fail.                               *)
THEOREM CmdInvHolds == Spec => []CmdInv
<1> QED BY InitCmdInv, NextCmdInv, PTL DEF Spec

(* An OK to BOOK means a complete booking, whatever failed on the way:     *)
(* booking_book_seats reports success only after the booking's record and  *)
(* the junction row of every seat are in their tables, and nothing takes   *)
(* them out again.                                                         *)
THEOREM AckedBookingsAreCompleteHolds == Spec => []AckedBookingsAreComplete
<1>1. CmdInv => AckedBookingsAreComplete
  BY DEF CmdInv, AnswersAreKept, AckedBookingsAreComplete
<1> QED BY <1>1, CmdInvHolds, PTL

(* A booking is cancelled with success at most once, whichever calls fail: *)
(* the check of its status under the lock of its record (the race the      *)
(* comment at booking_engine.c:228 is about) is enough.                    *)
THEOREM CancelledAtMostOnceHolds == Spec => []CancelledAtMostOnce
<1>1. CmdInv => CancelledAtMostOnce
  BY DEF CmdInv, AnswersAreKept, CancelledAtMostOnce
<1> QED BY <1>1, CmdInvHolds, PTL

(* Until a call fails, a booking that was answered with OK keeps all its   *)
(* seats, booked for its user, until a cancellation of that booking gets   *)
(* hold of it: its rows are accounted for, and neither a worker that still *)
(* makes it nor one that has freed the seat is left.                       *)
THEOREM AckedBookingsHoldTheirSeatsHolds == Spec => []AckedBookingsHoldTheirSeats
<1>1. CmdInv /\ IInvUntilAFault => AckedBookingsHoldTheirSeats
  <2> SUFFICES ASSUME CmdInv, IInv, NEW b \in BookingId, NEW s \in acked[b],
                      bookings[b].status = "CONFIRMED", \A w \in Worker : ~Cancelling(w, b)
               PROVE  seats[s] = [status |-> "BOOKED", booked_by |-> bookings[b].user]
    BY DEF IInvUntilAFault, AckedBookingsHoldTheirSeats
  <2>1. s \in Seat /\ <<b, s>> \in booking_seats
    BY DEF CmdInv, AnswersAreKept, SeatsOf
  <2>2. ASSUME NEW w \in Worker
        PROVE  ~AboutToBook(w, b, s) /\ ~HasFreed(w, b, s)
    <3>1. StepIsInOrder(w) /\ BookerHasItsRows(w) /\ b # 0
      BY DEF CmdInv, BookingId
    <3>2. ~AboutToBook(w, b, s)
      BY <3>1 DEF AboutToBook, StepIsInOrder, BookerHasItsRows
    <3>3. ~HasFreed(w, b, s)
      BY <3>1 DEF HasFreed, StepIsInOrder, CancelSteps, Cancelling
    <3> QED BY <3>2, <3>3
  <2> QED BY <2>1, <2>2 DEF IInv, RowsAreAccountedFor
<1> QED BY <1>1, CmdInvHolds, BookingInvariant, PTL

-----------------------------------------------------------------------------
(* A step of worker w that leaves the tables alone.                        *)
LEMMA QuietRaceStep ==
    ASSUME CmdInv, SeatsAreBacked, NEW w \in Worker, UNCHANGED <<seats, bookings, booking_seats>>,
           \A b \in BookingId : cancels[b].early => cancels'[b].early,
           \A v \in Worker : v # w => pc'[v] = pc[v] /\ my'[v] = my[v],
           CancelFreesItsSeats(w)'
    PROVE  SeatsAreBacked'
<1>1. ASSUME NEW v \in Worker
      PROVE  CancelFreesItsSeats(v)'
  <2>1. CASE v = w
    BY <2>1
  <2>2. CASE v # w
    <3>1. pc'[v] = pc[v] /\ my'[v] = my[v] /\ CancelFreesItsSeats(v)
      BY <2>2 DEF SeatsAreBacked
    <3>2. pc[v] \in {"lock_seat", "free", "cancel"} => my[v].bid \in BookingId
      BY DEF CmdInv, StepIsInOrder, CancelSteps
    <3>3. pc[v] \in {"lock_seat", "free", "cancel"} /\ ~cancels'[my[v].bid].early => ~cancels[my[v].bid].early
      BY <3>2
    <3> QED BY <3>1, <3>3 DEF CancelFreesItsSeats, SeatsOf
  <2> QED BY <2>1, <2>2
<1>2. SeatsHaveABooking'
  BY DEF SeatsAreBacked, SeatsHaveABooking
<1> QED BY <1>1, <1>2 DEF SeatsAreBacked

(* The steps of a cancellation up to its last seat.                        *)
LEMMA CancelRace ==
    ASSUME IInv, CmdInv, SeatsAreBacked, NEW w \in Worker,
           ScanBookingSeats(w) \/ \E s \in SeatId : LockBookedSeat(w, s)
    PROVE  SeatsAreBacked'
<1>a. UNCHANGED <<seats, bookings, booking_seats, cancels>>
  BY DEF ScanBookingSeats, LockBookedSeat, tables
<1>1. CASE ScanBookingSeats(w)
  <2> DEFINE S == SeatsOf(my[w].bid)
  <2>1. /\ my' = [my EXCEPT ![w].seats = S, ![w].todo = S]
        /\ pc' = [pc EXCEPT ![w] = IF S = {} THEN "cancel" ELSE "lock_seat"]
    BY <1>1 DEF ScanBookingSeats, goto
  <2>2. pc \in [Worker -> Label] /\ my \in [Worker -> Local]
    BY DEF CmdInv, TypeOK
  <2>3. /\ my'[w].seats = S /\ my'[w].todo = S /\ my'[w].bid = my[w].bid
        /\ pc'[w] = (IF S = {} THEN "cancel" ELSE "lock_seat")
        /\ \A v \in Worker : v # w => pc'[v] = pc[v] /\ my'[v] = my[v]
    BY <2>1, <2>2 DEF Local
  <2>4. SeatsOf(my[w].bid)' = S
    BY <1>a, <2>3 DEF SeatsOf
  <2>5. CancelFreesItsSeats(w)'
    BY <2>3, <2>4 DEF CancelFreesItsSeats
  <2> QED BY <1>a, <2>3, <2>5, QuietRaceStep
<1>2. ASSUME NEW s \in SeatId, LockBookedSeat(w, s)
      PROVE  SeatsAreBacked'
  <2>1. pc[w] = "lock_seat" /\ pc' = [pc EXCEPT ![w] = "free"] /\ my' = my
    BY <1>2 DEF LockBookedSeat, goto
  <2>2. pc'[w] = "free" /\ \A v \in Worker : v # w => pc'[v] = pc[v]
    BY <2>1 DEF CmdInv, TypeOK
  <2>3. CancelFreesItsSeats(w)'
    BY <1>a, <2>1, <2>2 DEF SeatsAreBacked, CancelFreesItsSeats, SeatsOf
  <2> QED BY <1>a, <2>1, <2>2, <2>3, QuietRaceStep
<1> QED BY <1>1, <1>2

(* A seat is freed, by a cancellation that has its lock.                   *)
LEMMA ReleaseSeatRace ==
    ASSUME IInv, CmdInv, SeatsAreBacked, NEW w \in Worker, NEW s \in SeatId, ReleaseSeat(w, s)
    PROVE  SeatsAreBacked'
<1>a. /\ pc[w] = "free" /\ Lowest(s, my[w].todo) /\ seats' = [seats EXCEPT ![s] = FreeSeat]
      /\ UNCHANGED <<bookings, booking_seats, cancels>>
  BY DEF ReleaseSeat
<1>b. /\ s \in my[w].todo /\ \A v \in Worker : v # w => pc'[v] = pc[v] /\ my'[v] = my[v]
      /\ my'[w].bid = my[w].bid /\ my'[w].seats = my[w].seats
      /\ \/ my[w].todo = {s} /\ pc'[w] = "cancel"
         \/ my[w].todo # {s} /\ pc'[w] = "lock_seat" /\ my'[w].todo = my[w].todo \ {s}
  <2>1. Iterate(w, s, "lock_seat", "cancel") /\ "lock_seat" \in Label /\ "cancel" \in Label
    BY DEF ReleaseSeat, Label
  <2> QED BY <1>a, <2>1, LoopMoves
<1>c. /\ my[w].seats \subseteq Seat /\ s \in Seat
      /\ \A v \in Worker : pc[v] \in {"lock_seat", "free", "cancel"} => my[v].seats \subseteq Seat
  BY <1>a, <1>b DEF IInv, BookingsStayPut, SeatsOf, CmdInv, StepIsInOrder
<1>d. /\ seats'[s].status = "AVAILABLE" /\ \A x \in Seat : x # s => seats'[x] = seats[x]
  BY <1>a, <1>c DEF CmdInv, TypeOK, FreeSeat
<1>1. ASSUME NEW v \in Worker
      PROVE  CancelFreesItsSeats(v)'
  <2>0. CancelFreesItsSeats(v) /\ SeatsOf(my[v].bid)' = SeatsOf(my[v].bid)
    BY <1>a, <1>b DEF SeatsAreBacked, SeatsOf
  <2>1. CASE v = w
    <3>1. \A x \in my[w].seats : x \notin my[w].todo \/ x = s => seats'[x].status = "AVAILABLE"
      BY <1>a, <1>c, <1>d, <2>0, <2>1 DEF CancelFreesItsSeats
    <3>2. \A x \in my'[w].seats : pc'[w] = "cancel" \/ x \notin my'[w].todo => seats'[x].status = "AVAILABLE"
      BY <1>b, <3>1
    <3>3. ~cancels'[my'[w].bid].early => my'[w].seats = SeatsOf(my[w].bid)'
      BY <1>a, <1>b, <2>0, <2>1 DEF CancelFreesItsSeats
    <3> QED BY <2>1, <3>2, <3>3 DEF CancelFreesItsSeats
  <2>2. CASE v # w
    <3>1. pc'[v] = pc[v] /\ my'[v] = my[v] /\ cancels' = cancels
      BY <1>a, <1>b, <2>2
    <3>2. pc[v] \in {"lock_seat", "free", "cancel"} =>
             \A x \in my[v].seats : seats[x].status = "AVAILABLE" => seats'[x].status = "AVAILABLE"
      BY <1>c, <1>d
    <3> QED BY <2>0, <3>1, <3>2 DEF CancelFreesItsSeats
  <2> QED BY <2>1, <2>2
<1>2. SeatsHaveABooking'
  <2>1. \A x \in Seat : seats'[x].status = "BOOKED" => seats'[x] = seats[x]
    BY <1>d
  <2>2. bookings' = bookings /\ booking_seats' = booking_seats /\ cancels' = cancels
    BY <1>a
  <2> QED BY <2>1, <2>2 DEF SeatsAreBacked, SeatsHaveABooking
<1> QED BY <1>1, <1>2 DEF SeatsAreBacked

(* A seat is booked: its junction row is there, and if the booking has been *)
(* cancelled by now, a CANCEL came before the reply.                       *)
LEMMA MarkBookedRace ==
    ASSUME IInv, CmdInv, SeatsAreBacked, NEW w \in Worker, NEW s \in SeatId, MarkBooked(w, s)
    PROVE  SeatsAreBacked'
<1> DEFINE n == my[w].bid
<1>a. /\ pc[w] = "mark" /\ Lowest(s, my[w].todo) /\ s \in my[w].todo
      /\ seats' = [seats EXCEPT ![s] = [status |-> "BOOKED", booked_by |-> my[w].user]]
      /\ UNCHANGED <<bookings, booking_seats, cancels>>
  BY DEF MarkBooked, Lowest
<1>b. /\ \A v \in Worker : v # w => pc'[v] = pc[v] /\ my'[v] = my[v]
      /\ pc'[w] \in {"link", "commit"}
  <2>1. Iterate(w, s, "link", "commit") /\ "link" \in Label /\ "commit" \in Label
    BY DEF MarkBooked, Label
  <2> QED BY <1>a, <2>1, LoopMoves
<1>c. s \in Seat /\ HasSeat(w, s) /\ bookings[n].user = my[w].user
  BY <1>a DEF IInv, VerifiedSeatsStayFree, Verified, WorkersHaveTheirLocks, BookingsStayPut
<1>d. /\ seats'[s] = [status |-> "BOOKED", booked_by |-> my[w].user]
      /\ \A x \in Seat : x # s => seats'[x] = seats[x]
  BY <1>a, <1>c DEF CmdInv, TypeOK
<1>e. n \in BookingId /\ s \in SeatsOf(n) /\ (bookings[n].status = "CONFIRMED" \/ cancels[n].early)
  <2>1. StepIsInOrder(w) /\ BookerHasItsRows(w)
    BY DEF CmdInv
  <2>2. HasBooked(w) /\ s \in Linked(w)
    BY <1>a, <2>1 DEF StepIsInOrder, HasBooked, Linked
  <2>3. n \in BookingId /\ s \in SeatsOf(n) /\ bookings[n].status \in {"CONFIRMED", "CANCELLED"}
    BY <2>1, <2>2 DEF BookerHasItsRows
  <2>4. acked[n] = {}
    BY <2>1, <2>2, <2>3 DEF BookerHasItsRows, HasBooked, BookingId
  <2> QED BY <2>3, <2>4 DEF CmdInv, AnswersAreKept
<1>1. ASSUME NEW v \in Worker
      PROVE  CancelFreesItsSeats(v)'
  <2>1. CASE v = w
    BY <1>b, <2>1 DEF CancelFreesItsSeats
  <2>2. CASE v # w
    <3>1. /\ pc'[v] = pc[v] /\ my'[v] = my[v] /\ cancels' = cancels /\ CancelFreesItsSeats(v)
          /\ SeatsOf(my[v].bid)' = SeatsOf(my[v].bid)
      BY <1>a, <1>b, <2>2 DEF SeatsAreBacked, SeatsOf
    <3>2. pc[v] \in {"lock_seat", "free", "cancel"} =>
             \A x \in my[v].seats : pc[v] = "cancel" \/ x \notin my[v].todo => seats'[x] = seats[x]
      <4> SUFFICES ASSUME pc[v] \in {"lock_seat", "free", "cancel"}, NEW x \in my[v].seats,
                          pc[v] = "cancel" \/ x \notin my[v].todo
                   PROVE  seats'[x] = seats[x]
        OBVIOUS
      <4>1. HasSeat(v, x) /\ x \in Seat
        BY DEF IInv, WorkersHaveTheirLocks, BookingsStayPut, SeatsOf
      <4>2. ~HasSeat(v, s)
        BY <1>c, <2>2, OthersSeats
      <4> QED BY <1>d, <4>1, <4>2
    <3> QED BY <3>1, <3>2 DEF CancelFreesItsSeats
  <2> QED BY <2>1, <2>2
<1>2. SeatsHaveABooking'
  <2> SUFFICES ASSUME NEW x \in Seat, seats'[x].status = "BOOKED"
               PROVE  \E b \in BookingId : /\ <<b, x>> \in booking_seats
                                           /\ bookings[b].status = "CONFIRMED" \/ cancels[b].early
                                           /\ bookings[b].user = seats'[x].booked_by
    BY <1>a DEF SeatsHaveABooking
  <2>1. CASE x = s
    BY <1>c, <1>d, <1>e, <2>1 DEF SeatsOf
  <2>2. CASE x # s
    BY <1>d, <2>2 DEF SeatsAreBacked, SeatsHaveABooking
  <2> QED BY <2>1, <2>2
<1> QED BY <1>1, <1>2 DEF SeatsAreBacked

(* A junction row is inserted: a cancellation at work on the same booking   *)
(* came before the reply.                                                  *)
LEMMA InsertBookingSeatRace ==
    ASSUME IInv, CmdInv, SeatsAreBacked, NEW w \in Worker, NEW s \in SeatId, InsertBookingSeat(w, s)
    PROVE  SeatsAreBacked'
<1> DEFINE n == my[w].bid
<1>a. /\ pc[w] = "link" /\ pc' = [pc EXCEPT ![w] = "mark"] /\ my' = my
      /\ booking_seats' = booking_seats \cup {<<n, s>>} /\ UNCHANGED <<seats, bookings, cancels>>
  BY DEF InsertBookingSeat, goto
<1>b. pc'[w] = "mark" /\ \A v \in Worker : v # w => pc'[v] = pc[v]
  BY <1>a DEF CmdInv, TypeOK
<1>c. n \in BookingId /\ acked[n] = {}
  <2>1. StepIsInOrder(w) /\ BookerHasItsRows(w)
    BY DEF CmdInv
  <2>2. HasBooked(w)
    BY <1>a, <2>1 DEF StepIsInOrder, HasBooked
  <2> QED BY <2>1, <2>2 DEF BookerHasItsRows, HasBooked, BookingId
<1>1. ASSUME NEW v \in Worker
      PROVE  CancelFreesItsSeats(v)'
  <2>1. CASE v = w
    BY <1>b, <2>1 DEF CancelFreesItsSeats
  <2>2. CASE v # w
    <3>1. pc'[v] = pc[v] /\ my'[v] = my[v] /\ cancels' = cancels /\ seats' = seats /\ CancelFreesItsSeats(v)
      BY <1>a, <1>b, <2>2 DEF SeatsAreBacked
    <3>2. pc[v] \in {"lock_seat", "free", "cancel"} /\ ~cancels[my[v].bid].early => my[v].bid # n
      BY <1>c DEF CmdInv, StepIsInOrder, CancelSteps, CancellerHasItsBooking
    <3>3. my[v].bid # n => SeatsOf(my[v].bid)' = SeatsOf(my[v].bid)
      BY <1>a, <3>1 DEF SeatsOf
    <3> QED BY <3>1, <3>2, <3>3 DEF CancelFreesItsSeats
  <2> QED BY <2>1, <2>2
<1>2. SeatsHaveABooking'
  BY <1>a DEF SeatsAreBacked, SeatsHaveABooking
<1> QED BY <1>1, <1>2 DEF SeatsAreBacked

(* A booking is confirmed under a fresh id, which no junction row names.   *)
LEMMA InsertBookingRace ==
    ASSUME IInv, CmdInv, SeatsAreBacked, NEW w \in Worker, InsertBooking(w)
    PROVE  SeatsAreBacked'
<1> DEFINE n == next_booking_id
<1>a. /\ pc[w] = "insert" /\ n \in BookingId /\ UNCHANGED <<seats, booking_seats, cancels>>
      /\ bookings' = [bookings EXCEPT ![n] =
            [user |-> my[w].user, seat_count |-> Cardinality(my[w].seats), status |-> "CONFIRMED"]]
      /\ my' = [my EXCEPT ![w].bid = n] /\ pc' = [pc EXCEPT ![w] = "link"]
  BY DEF InsertBooking, NewBooking, goto
<1>b. pc'[w] = "link" /\ \A v \in Worker : v # w => pc'[v] = pc[v] /\ my'[v] = my[v]
  BY <1>a DEF CmdInv, TypeOK
<1>c. \A b \in BookingId, x \in Seat : <<b, x>> \in booking_seats => bookings'[b] = bookings[b]
  <2>1. bookings[n].status = "none"
    BY <1>a, FreshId
  <2> QED BY <1>a, <2>1 DEF CmdInv, TypeOK, RowsHaveBookings
<1>1. ASSUME NEW v \in Worker
      PROVE  CancelFreesItsSeats(v)'
  <2>1. CASE v = w
    BY <1>b, <2>1 DEF CancelFreesItsSeats
  <2>2. CASE v # w
    <3>1. /\ pc'[v] = pc[v] /\ my'[v] = my[v] /\ cancels' = cancels /\ seats' = seats
          /\ booking_seats' = booking_seats /\ CancelFreesItsSeats(v)
      BY <1>a, <1>b, <2>2 DEF SeatsAreBacked
    <3> QED BY <3>1 DEF CancelFreesItsSeats, SeatsOf
  <2> QED BY <2>1, <2>2
<1>2. SeatsHaveABooking'
  <2>1. seats' = seats /\ booking_seats' = booking_seats /\ cancels' = cancels
    BY <1>a
  <2> QED BY <1>c, <2>1 DEF SeatsAreBacked, SeatsHaveABooking
<1> QED BY <1>1, <1>2 DEF SeatsAreBacked

(* The booking is cancelled: unless the CANCEL came before the reply, all   *)
(* its seats have been freed by now.                                       *)
LEMMA MarkCancelledRace ==
    ASSUME IInv, CmdInv, SeatsAreBacked, NEW w \in Worker, MarkCancelled(w)
    PROVE  SeatsAreBacked'
<1> DEFINE n == my[w].bid
<1>a. /\ pc[w] = "cancel" /\ bookings' = [bookings EXCEPT ![n].status = "CANCELLED"]
      /\ pc' = [pc EXCEPT ![w] = "commit"] /\ UNCHANGED <<seats, booking_seats, my, cancels>>
  BY DEF MarkCancelled, goto
<1>b. pc'[w] = "commit" /\ \A v \in Worker : v # w => pc'[v] = pc[v]
  BY <1>a DEF CmdInv, TypeOK
<1>c. n \in BookingId /\ CancelFreesItsSeats(w)
  BY <1>a DEF CmdInv, StepIsInOrder, CancelSteps, SeatsAreBacked
<1>d. bookings'[n].user = bookings[n].user /\ \A b \in BookingId : b # n => bookings'[b] = bookings[b]
  BY <1>a, <1>c DEF CmdInv, TypeOK
<1>1. ASSUME NEW v \in Worker
      PROVE  CancelFreesItsSeats(v)'
  <2>1. CASE v = w
    BY <1>b, <2>1 DEF CancelFreesItsSeats
  <2>2. CASE v # w
    <3>1. /\ pc'[v] = pc[v] /\ my'[v] = my[v] /\ cancels' = cancels /\ seats' = seats
          /\ booking_seats' = booking_seats /\ CancelFreesItsSeats(v)
      BY <1>a, <1>b, <2>2 DEF SeatsAreBacked
    <3> QED BY <3>1 DEF CancelFreesItsSeats, SeatsOf
  <2> QED BY <2>1, <2>2
<1>2. SeatsHaveABooking'
  <2> SUFFICES ASSUME NEW x \in Seat, seats[x].status = "BOOKED"
               PROVE  \E b \in BookingId : /\ <<b, x>> \in booking_seats
                                           /\ bookings'[b].status = "CONFIRMED" \/ cancels[b].early
                                           /\ bookings'[b].user = seats[x].booked_by
    BY <1>a DEF SeatsHaveABooking
  <2>1. PICK b \in BookingId : /\ <<b, x>> \in booking_seats
                               /\ bookings[b].status = "CONFIRMED" \/ cancels[b].early
                               /\ bookings[b].user = seats[x].booked_by
    BY DEF SeatsAreBacked, SeatsHaveABooking
  <2>2. CASE b # n
    BY <1>d, <2>1, <2>2
  <2>3. CASE b = n
    <3>1. x \in SeatsOf(n)
      BY <2>1, <2>3 DEF SeatsOf
    <3>2. ~cancels[n].early => seats[x].status = "AVAILABLE"
      BY <1>a, <1>c, <3>1 DEF CancelFreesItsSeats
    <3> QED BY <1>d, <2>1, <2>3, <3>2
  <2> QED BY <2>2, <2>3
<1> QED BY <1>1, <1>2 DEF SeatsAreBacked

(* The commands, which leave the tables of seats and bookings alone.       *)
LEMMA CommandRace ==
    ASSUME CmdInv, SeatsAreBacked, NEW w \in Worker, Command(w)
    PROVE  SeatsAreBacked'
<1>a. /\ pc \in [Worker -> Label] /\ my \in [Worker -> Local] /\ cancels \in [BookingId -> Tally]
  BY DEF CmdInv, TypeOK
<1>1. ASSUME NEW u \in User, NEW e \in Event, NEW args \in Args, Book(w, u, e, args)
      PROVE  SeatsAreBacked'
  <2>1. /\ UNCHANGED <<seats, bookings, booking_seats, cancels>>
        /\ pc' \in {[pc EXCEPT ![w] = "begin"], [pc EXCEPT ![w] = "reply"]}
    BY <1>1 DEF Book, tables, goto
  <2>2. pc'[w] \in {"begin", "reply"} /\ \A v \in Worker : v # w => pc'[v] = pc[v]
    BY <1>a, <2>1
  <2>3. \A v \in Worker : v # w => my'[v] = my[v]
    <3>1. CASE ValidSeats(Capped(args)) /\ e \in events
      BY <1>a, <1>1, <3>1 DEF Book
    <3>2. CASE ~(ValidSeats(Capped(args)) /\ e \in events)
      BY <1>1, <3>2 DEF Book
    <3> QED BY <3>1, <3>2
  <2>4. CancelFreesItsSeats(w)'
    BY <2>2 DEF CancelFreesItsSeats
  <2> QED BY <2>1, <2>2, <2>3, <2>4, QuietRaceStep
<1>2. ASSUME NEW u \in User, NEW b \in BookingId, Cancel(w, u, b)
      PROVE  SeatsAreBacked'
  <2>1. /\ UNCHANGED <<seats, bookings, booking_seats>> /\ pc' = [pc EXCEPT ![w] = "begin"]
        /\ my' = [my EXCEPT ![w] = [Idle EXCEPT !.op = "cancel", !.user = u, !.bid = b]]
        /\ cancels' = [cancels EXCEPT ![b].early = @ \/ acked[b] = {}]
    BY <1>2 DEF Cancel, tables, goto
  <2>2. pc'[w] = "begin" /\ \A v \in Worker : v # w => pc'[v] = pc[v] /\ my'[v] = my[v]
    BY <1>a, <2>1
  <2>3. \A c \in BookingId : cancels[c].early => cancels'[c].early
    BY <1>a, <2>1 DEF Tally
  <2>4. CancelFreesItsSeats(w)'
    BY <2>2 DEF CancelFreesItsSeats
  <2> QED BY <2>1, <2>2, <2>3, <2>4, QuietRaceStep
<1>3. ASSUME NEW e \in Event, DeleteEvent(w, e)
      PROVE  SeatsAreBacked'
  BY <1>3 DEF DeleteEvent, SeatsAreBacked, CancelFreesItsSeats, SeatsHaveABooking, SeatsOf
<1> QED BY <1>1, <1>2, <1>3 DEF Command

(* The steps of a transaction that write no table of seats or bookings,    *)
(* outside the loop of a cancellation.                                     *)
LEMMA OtherStepsRace ==
    ASSUME CmdInv, SeatsAreBacked, NEW w \in Worker,
           \/ Begin(w) \/ NoSlot(w) \/ LockBooking(w) \/ CheckBooking(w)
           \/ Commit(w) \/ Abort(w) \/ EndTxn(w) \/ Reply(w)
           \/ \E r \in Record : Release(w, r)
           \/ \E s \in SeatId : LockSeat(w, s) \/ VerifySeat(w, s)
    PROVE  SeatsAreBacked'
<1> DEFINE Others == \A v \in Worker : v # w => pc'[v] = pc[v] /\ my'[v] = my[v]
           Away == pc'[w] \notin {"lock_seat", "free", "cancel"}
           Early == \A b \in BookingId : cancels[b].early => cancels'[b].early
<1>a. pc \in [Worker -> Label] /\ my \in [Worker -> Local] /\ cancels \in [BookingId -> Tally]
  BY DEF CmdInv, TypeOK
<1>b. UNCHANGED <<seats, bookings, booking_seats>>
  BY DEF Begin, NoSlot, LockBooking, CheckBooking, Commit, Abort, EndTxn, Reply, Release, LockSeat, VerifySeat, tables
<1>c. ASSUME NEW l \in Label \ {"lock_seat", "free", "cancel"}, pc' = [pc EXCEPT ![w] = l], my' = my
      PROVE  Others /\ Away
  BY <1>a, <1>c
<1>1. ASSUME Begin(w) \/ NoSlot(w) \/ LockBooking(w) \/ CheckBooking(w) \/ Abort(w) \/ EndTxn(w)
      PROVE  Others /\ Away /\ Early
  <2>1. my' = my /\ cancels' = cancels
    BY <1>1 DEF Begin, NoSlot, LockBooking, CheckBooking, Abort, EndTxn
  <2>2. \E l \in {"lock", "lock_booking", "reply", "check", "scan", "abort", "release"} : pc' = [pc EXCEPT ![w] = l]
    BY <1>1 DEF Begin, NoSlot, LockBooking, CheckBooking, Abort, EndTxn, goto
  <2>3. Others /\ Away
    BY <1>c, <2>1, <2>2 DEF Label
  <2> QED BY <2>1, <2>3
<1>2. ASSUME Commit(w)
      PROVE  Others /\ Away /\ Early
  <2>1. cancels' = cancels /\ pc' = [pc EXCEPT ![w] = "release"] /\ my' = [my EXCEPT ![w].ok = TRUE]
    BY <1>2 DEF Commit, goto
  <2> QED BY <1>a, <2>1
<1>3. ASSUME Reply(w)
      PROVE  Others /\ Away /\ Early
  <2>1. /\ pc' = [pc EXCEPT ![w] = "idle"] /\ my' = [my EXCEPT ![w] = Idle]
        /\ cancels' \in {cancels, [cancels EXCEPT ![my[w].bid].ok = @ + 1]}
    BY <1>3 DEF Reply, goto
  <2>2. Early
    BY <1>a, <2>1 DEF Tally
  <2>3. Others /\ Away
    BY <1>a, <2>1
  <2> QED BY <2>2, <2>3
<1>4. ASSUME NEW r \in Record, Release(w, r)
      PROVE  Others /\ Away /\ Early
  BY <1>4 DEF Release
<1>5. ASSUME NEW s \in SeatId, LockSeat(w, s) \/ VerifySeat(w, s)
      PROVE  Others /\ Away /\ Early
  <2>1. cancels' = cancels /\ Lowest(s, my[w].todo)
    BY <1>5 DEF LockSeat, VerifySeat
  <2>2. \/ Iterate(w, s, "lock", "verify") \/ Iterate(w, s, "verify", "insert")
        \/ pc' = [pc EXCEPT ![w] = "abort"] /\ my' = my
    BY <1>5 DEF LockSeat, VerifySeat, goto
  <2>3. ASSUME Iterate(w, s, "lock", "verify") \/ Iterate(w, s, "verify", "insert")
        PROVE  Others /\ Away
    <3>1. "lock" \in Label /\ "verify" \in Label /\ "insert" \in Label
      BY DEF Label
    <3>2. Others
      BY <2>1, <2>3, <3>1, LoopMoves
    <3>3. pc'[w] \in {"lock", "verify", "insert"}
      BY <2>1, <2>3, <3>1, LoopMoves
    <3> QED BY <3>2, <3>3
  <2>4. ASSUME pc' = [pc EXCEPT ![w] = "abort"], my' = my
        PROVE  Others /\ Away
    BY <1>c, <2>4 DEF Label
  <2>5. Others /\ Away
    BY <2>2, <2>3, <2>4
  <2> QED BY <2>1, <2>5
<1>6. Others /\ Away /\ Early
  BY <1>1, <1>2, <1>3, <1>4, <1>5
<1>7. CancelFreesItsSeats(w)'
  BY <1>6 DEF CancelFreesItsSeats
<1> QED BY <1>b, <1>6, <1>7, QuietRaceStep

(* No step but a failing call leaves a booked seat without a booking.      *)
LEMMA NextSeatsAreBacked ==
    ASSUME IInv, CmdInv, SeatsAreBacked, [Next]_vars, \A w \in Worker : ~Fault(w)
    PROVE  SeatsAreBacked'
<1>1. CASE UNCHANGED vars
  BY <1>1 DEF vars, tables, SeatsAreBacked, CancelFreesItsSeats, SeatsHaveABooking, SeatsOf
<1>2. ASSUME NEW w \in Worker, Command(w)
      PROVE  SeatsAreBacked'
  BY <1>2, CommandRace
<1>3. ASSUME NEW w \in Worker, Step(w)
      PROVE  SeatsAreBacked'
  <2>1. CASE InsertBooking(w) \/ MarkCancelled(w)
    BY <2>1, InsertBookingRace, MarkCancelledRace
  <2>2. ASSUME NEW s \in SeatId, InsertBookingSeat(w, s) \/ MarkBooked(w, s) \/ ReleaseSeat(w, s)
        PROVE  SeatsAreBacked'
    BY <2>2, InsertBookingSeatRace, MarkBookedRace, ReleaseSeatRace
  <2>3. CASE ScanBookingSeats(w) \/ \E s \in SeatId : LockBookedSeat(w, s)
    BY <2>3, CancelRace
  <2>4. CASE \/ Begin(w) \/ NoSlot(w) \/ LockBooking(w) \/ CheckBooking(w)
             \/ Commit(w) \/ Abort(w) \/ EndTxn(w) \/ Reply(w)
             \/ \E r \in Record : Release(w, r)
             \/ \E s \in SeatId : LockSeat(w, s) \/ VerifySeat(w, s)
    BY <2>4, OtherStepsRace
  <2> QED BY <1>3, <2>1, <2>2, <2>3, <2>4 DEF Step
<1> QED BY <1>1, <1>2, <1>3 DEF Next, Quiescent

(* Until a call fails, a cancellation that was sent after the reply to its *)
(* BOOK frees every seat of the booking before it marks it, and a booked   *)
(* seat has a booking of its user.                                         *)
THEOREM RaceInvHolds == Spec => []RaceInv
<1>1. Init => RaceInv
  <2> SUFFICES ASSUME Init PROVE RaceInv
    OBVIOUS
  <2>1. CmdInv /\ IInv /\ faults = 0
    BY InitCmdInv, InitIInv DEF Init
  <2>2. seats = [s \in Seat |-> FreeSeat] /\ pc = [w \in Worker |-> "idle"]
    BY DEF Init
  <2>3. SeatsAreBacked
    BY <2>2 DEF SeatsAreBacked, CancelFreesItsSeats, SeatsHaveABooking, FreeSeat
  <2> QED BY <2>1, <2>3 DEF RaceInv, IInvUntilAFault
<1>2. RaceInv /\ [Next]_vars => RaceInv'
  <2> SUFFICES ASSUME RaceInv, [Next]_vars PROVE RaceInv'
    OBVIOUS
  <2>1. CmdInv /\ faults \in Nat /\ (faults = 0 => IInv /\ SeatsAreBacked)
    BY DEF RaceInv, IInvUntilAFault
  <2>2. faults' \in Nat /\ (faults' = 0 => faults = 0 /\ \A w \in Worker : ~Fault(w))
    BY <2>1, FaultsAreCounted
  <2>3. CmdInv'
    BY <2>1, NextCmdInv
  <2>4. faults' = 0 => IInv' /\ SeatsAreBacked'
    BY <2>1, <2>2, NextIInv, NextSeatsAreBacked
  <2> QED BY <2>2, <2>3, <2>4 DEF RaceInv, IInvUntilAFault
<1> QED BY <1>1, <1>2, PTL DEF Spec

(* "Booking %u cancelled, seats released" (main.c:547): until a call fails, *)
(* a seat that is booked has a confirmed booking of its user, or one that a *)
(* CANCEL met before the reply to its BOOK.  That exception is the only one. *)
THEOREM BookedSeatsAreBackedOrRacedHolds == Spec => []BookedSeatsAreBackedOrRaced
<1>1. RaceInv => BookedSeatsAreBackedOrRaced
  BY DEF RaceInv, SeatsAreBacked, SeatsHaveABooking, BookedSeatsAreBackedOrRaced
<1> QED BY <1>1, RaceInvHolds, PTL

-----------------------------------------------------------------------------
(* The invariant behind SomeWorkerIsReady: the locks a worker has come     *)
(* before the ones it will still ask for, its booking before its seats and *)
(* the seats in ascending order, ...                                       *)
LocksAscend(w) ==
    /\ pc[w] \in {"idle", "begin", "lock_booking", "reply"} => \A r \in Record : held[w][r] = "none"
    /\ pc[w] = "lock" => \A b \in BookingId : held[w][BookingRecord(b)] = "none"
    /\ pc[w] \in {"check", "scan"} => \A s \in SeatId : held[w][SeatRecord(s)] = "none"
    /\ pc[w] \in {"lock", "lock_seat", "free"} =>
          /\ \A s \in SeatId : held[w][SeatRecord(s)] # "none" =>
                s \in my[w].seats \ my[w].todo \/ (pc[w] = "free" /\ Lowest(s, my[w].todo))
          /\ \A s \in my[w].seats \ my[w].todo, x \in my[w].todo : s < x

\* ... its transaction is in the phase that its next call needs, ...
PhaseFits(w) ==
    /\ pc[w] \in {"idle", "begin", "reply"} => phase[w] = "none"
    /\ pc[w] = "release" => phase[w] = "shrinking"
    /\ pc[w] \notin {"idle", "begin", "reply", "release"} => phase[w] = "growing"

\* ... a loop has a seat to go on with, ...
LoopsHaveSeats(w) ==
    /\ pc[w] \in {"lock", "verify", "link", "mark", "lock_seat", "free"} => my[w].todo # {}
    /\ pc[w] = "insert" \/ (pc[w] = "begin" /\ my[w].op = "book") =>
          my[w].todo = my[w].seats /\ my[w].todo # {}

\* ... and an id is left for every BOOK that has not inserted its booking yet.
Unbooked(w) == pc[w] \in {"begin", "lock", "verify", "insert"} /\ my[w].op = "book"

IdsAreLeft ==
    LET todo == {w \in Worker : Unbooked(w)}
    IN  IsFiniteSet(todo) /\ next_booking_id + Cardinality(todo) <= issued + 1

GoesOn(w) == LocksAscend(w) /\ PhaseFits(w) /\ LoopsHaveSeats(w)

WaitInv == CmdInv /\ (\A w \in Worker : GoesOn(w)) /\ IdsAreLeft

-----------------------------------------------------------------------------
(* A finite set of numbers has a greatest one, by the well-founded order   *)
(* of inclusion on the numbers above each.                                 *)
LEMMA FiniteHasGreatest ==
    ASSUME NEW S, S \subseteq Int, IsFiniteSet(S), S # {}
    PROVE  \E m \in S : \A i \in S : i <= m
<1> DEFINE Above(m) == {i \in S : i > m}
           T == {Above(m) : m \in S}
<1>1. T \subseteq FiniteSubsetsOf(S) /\ T # {}
  <2>1. \A m \in S : IsFiniteSet(Above(m)) /\ Above(m) \in SUBSET S
    BY FS_Subset
  <2> QED BY <2>1 DEF FiniteSubsetsOf
<1>2. IsWellFoundedOn(StrictSubsetOrdering(S), FiniteSubsetsOf(S))
  BY FS_StrictSubsetOrderingWellFounded
<1>3. \E x \in T : \A y \in T : ~(<<y, x>> \in StrictSubsetOrdering(S))
  <2> HIDE DEF T
  <2> QED BY <1>1, <1>2, WFMin
<1>4. PICK m \in S : \A y \in T : ~(<<y, Above(m)>> \in StrictSubsetOrdering(S))
  BY <1>3
<1>5. ASSUME NEW i \in Above(m) PROVE FALSE
  <2>1. i \in S /\ i > m /\ i \in Int /\ m \in Int
    BY <1>5
  <2>2. (\A j \in S : j > i => j > m) /\ ~(i > i)
    BY <2>1
  <2>3. Above(i) \subseteq Above(m) /\ i \notin Above(i) /\ i \in Above(m)
    BY <2>1, <2>2, Zenon
  <2>4. <<Above(i), Above(m)>> \in StrictSubsetOrdering(S)
    BY <2>3 DEF StrictSubsetOrdering
  <2> QED BY <2>1, <2>4, <1>4
<1> QED BY <1>5

(* A loop that has seats left has a next one: the seat ids are finitely    *)
(* many numbers.                                                           *)
LEMMA LoopHasALowest ==
    ASSUME NEW S \in SUBSET SeatId, S # {}
    PROVE  \E s \in SeatId : Lowest(s, S)
<1> DEFINE T == {0 - x : x \in S}
<1>1. S \subseteq Nat /\ IsFiniteSet(S)
  BY BookingConstants, FS_Subset
<1>2. IsFiniteSet(T)
  <2> DEFINE f == [x \in S |-> 0 - x]
  <2>1. f \in Surjection(S, T)
    BY DEF Surjection
  <2> HIDE DEF f, T
  <2> QED BY <1>1, <2>1, FS_Surjection
<1>3. T \subseteq Int /\ T # {}
  BY <1>1
<1> HIDE DEF T
<1>4. PICK m \in T : \A i \in T : i <= m
  BY <1>2, <1>3, FiniteHasGreatest
<1>5. PICK s \in S : m = 0 - s
  BY DEF T
<1>6. \A x \in S : 0 - x <= 0 - s
  BY <1>4, <1>5 DEF T
<1>7. \A x \in S : s <= x
  BY <1>1, <1>6
<1> QED BY <1>7 DEF Lowest

(* The count of the BOOKs that still need an id, when worker w takes a     *)
(* step: none is added, or one with the command just issued, or w has got  *)
(* its id.                                                                 *)
LEMMA IdsAreStillLeft ==
    ASSUME TypeOK, IdsAreLeft, NEW w \in Worker,
           \A v \in Worker : v # w => (Unbooked(v)' <=> Unbooked(v)),
           \/ (Unbooked(w)' => Unbooked(w)) /\ next_booking_id' = next_booking_id /\ issued' = issued
           \/ next_booking_id' = next_booking_id /\ issued' = issued + 1
           \/ Unbooked(w) /\ ~Unbooked(w)' /\ next_booking_id' = next_booking_id + 1 /\ issued' = issued
    PROVE  IdsAreLeft'
<1> DEFINE U == {v \in Worker : Unbooked(v)}
           V == {v \in Worker : Unbooked(v)'}
<1>1. /\ IsFiniteSet(U) /\ next_booking_id + Cardinality(U) <= issued + 1
      /\ next_booking_id \in Nat /\ issued \in Nat /\ Cardinality(U) \in Nat
  BY FS_CardinalityType, BookingConstants DEF IdsAreLeft, TypeOK
<1>2. V \subseteq U \cup {w} /\ (w \notin V => V \subseteq U \ {w}) /\ (w \in U => V \subseteq U)
  OBVIOUS
<1>3. w \in U <=> Unbooked(w)
  OBVIOUS
<1>4. w \in V <=> Unbooked(w)'
  OBVIOUS
<1>5. IdsAreLeft' <=> IsFiniteSet(V) /\ next_booking_id' + Cardinality(V) <= issued' + 1
  BY DEF IdsAreLeft
<1> HIDE DEF U, V
<1>6. /\ IsFiniteSet(U \cup {w}) /\ Cardinality(U \cup {w}) <= Cardinality(U) + 1
      /\ IsFiniteSet(U \ {w}) /\ (w \in U => Cardinality(U \ {w}) = Cardinality(U) - 1)
      /\ Cardinality(U \cup {w}) \in Nat /\ Cardinality(U \ {w}) \in Nat
  <2>1. IsFiniteSet(U \cup {w}) /\ Cardinality(U \cup {w}) <= Cardinality(U) + 1
    BY <1>1, FS_AddElement
  <2>2. IsFiniteSet(U \ {w}) /\ (w \in U => Cardinality(U \ {w}) = Cardinality(U) - 1)
    BY <1>1, FS_RemoveElement
  <2> QED BY <2>1, <2>2, FS_CardinalityType
<1>7. IsFiniteSet(V) /\ Cardinality(V) \in Nat /\ Cardinality(V) <= Cardinality(U \cup {w})
  BY <1>2, <1>6, FS_Subset, FS_CardinalityType
<1>8. CASE (Unbooked(w)' => Unbooked(w)) /\ next_booking_id' = next_booking_id /\ issued' = issued
  <2>1. V \subseteq U
    BY <1>2, <1>3, <1>4, <1>8
  <2>2. Cardinality(V) <= Cardinality(U)
    BY <1>1, <2>1, FS_Subset
  <2> QED BY <1>1, <1>5, <1>7, <1>8, <2>2
<1>9. CASE next_booking_id' = next_booking_id /\ issued' = issued + 1
  BY <1>1, <1>5, <1>6, <1>7, <1>9
<1>10. CASE Unbooked(w) /\ ~Unbooked(w)' /\ next_booking_id' = next_booking_id + 1 /\ issued' = issued
  <2>1. Cardinality(V) <= Cardinality(U \ {w})
    BY <1>2, <1>4, <1>6, <1>10, FS_Subset
  <2> QED BY <1>1, <1>3, <1>5, <1>6, <1>7, <1>10, <2>1
<1> QED BY <1>8, <1>9, <1>10

(* A step of worker w leaves the other workers where they are.             *)
LEMMA WaitFrame ==
    ASSUME WaitInv, CmdInv', NEW w \in Worker, GoesOn(w)', IdsAreLeft',
           \A v \in Worker : v # w => /\ pc'[v] = pc[v] /\ my'[v] = my[v]
                                      /\ held'[v] = held[v] /\ phase'[v] = phase[v]
    PROVE  WaitInv'
<1>1. ASSUME NEW v \in Worker, v # w PROVE GoesOn(v)'
  <2>1. pc'[v] = pc[v] /\ my'[v] = my[v] /\ held'[v] = held[v] /\ phase'[v] = phase[v] /\ GoesOn(v)
    BY <1>1 DEF WaitInv
  <2>2. LocksAscend(v)'
    BY <2>1 DEF GoesOn, LocksAscend
  <2> QED BY <2>1, <2>2 DEF GoesOn, PhaseFits, LoopsHaveSeats
<1> QED BY <1>1 DEF WaitInv

(* A worker whose transaction goes on and asks for no lock next.           *)
LEMMA PlainStep ==
    ASSUME WaitInv, CmdInv', NEW w \in Worker,
           pc[w] \notin {"idle", "begin", "reply", "release"},
           pc'[w] \in {"verify", "insert", "link", "mark", "cancel", "commit", "abort"},
           \A v \in Worker : v # w => pc'[v] = pc[v] /\ my'[v] = my[v],
           held' = held, phase' = phase, issued' = issued, LoopsHaveSeats(w)',
           \/ next_booking_id' = next_booking_id /\ (Unbooked(w)' => Unbooked(w))
           \/ next_booking_id' = next_booking_id + 1 /\ pc[w] = "insert" /\ ~Unbooked(w)'
    PROVE  WaitInv'
<1>1. GoesOn(w)'
  BY DEF WaitInv, GoesOn, LocksAscend, PhaseFits
<1>2. \A v \in Worker : v # w => (Unbooked(v)' <=> Unbooked(v))
  BY DEF Unbooked
<1>3. pc[w] = "insert" => Unbooked(w)
  BY DEF Unbooked, WaitInv, CmdInv, StepIsInOrder
<1>4. TypeOK /\ IdsAreLeft
  BY DEF WaitInv, CmdInv
<1>5. IdsAreLeft'
  BY <1>2, <1>3, <1>4, IdsAreStillLeft
<1> QED BY <1>1, <1>5, WaitFrame

(* Any call that fails once the transaction has begun leads to txn_abort.  *)
LEMMA AbortWait ==
    ASSUME WaitInv, CmdInv', NEW w \in Worker,
           pc[w] \notin {"idle", "begin", "reply", "release"}, pc' = [pc EXCEPT ![w] = "abort"],
           my' = my, held' = held, phase' = phase, issued' = issued,
           \/ next_booking_id' = next_booking_id
           \/ next_booking_id' = next_booking_id + 1 /\ pc[w] = "insert"
    PROVE  WaitInv'
<1>1. pc'[w] = "abort" /\ \A v \in Worker : v # w => pc'[v] = pc[v] /\ my'[v] = my[v]
  BY DEF WaitInv, CmdInv, TypeOK
<1>2. LoopsHaveSeats(w)' /\ ~Unbooked(w)'
  BY <1>1 DEF LoopsHaveSeats, Unbooked
<1> QED BY <1>1, <1>2, PlainStep

(* BOOK, CANCEL and DELETE_EVENT arrive at an idle worker.                 *)
LEMMA CommandWait ==
    ASSUME WaitInv, CmdInv', NEW w \in Worker, Command(w)
    PROVE  WaitInv'
<1>a. /\ pc[w] = "idle" /\ held' = held /\ phase' = phase
      /\ issued' = issued + 1 /\ next_booking_id' = next_booking_id
  BY DEF Command, Book, Cancel, DeleteEvent, tables
<1>b. /\ pc \in [Worker -> Label] /\ my \in [Worker -> Local] /\ TypeOK /\ IdsAreLeft /\ GoesOn(w)
  BY DEF WaitInv, CmdInv, TypeOK
<1> DEFINE Others == \A v \in Worker : v # w => pc'[v] = pc[v] /\ my'[v] = my[v]
           Starts == \/ pc'[w] \in {"idle", "reply"}
                     \/ pc'[w] = "begin" /\ (my'[w].op = "book" => my'[w].todo = my'[w].seats /\ my'[w].todo # {})
<1>1. ASSUME NEW u \in User, NEW e \in Event, NEW args \in Args, Book(w, u, e, args)
      PROVE  Others /\ Starts
  <2> DEFINE S == ToSet(Capped(args))
             m == [Idle EXCEPT !.op = "book", !.user = u, !.event = e, !.seats = S, !.todo = S]
  <2>1. Capped(args) # <<>> => S # {}
    <3>1. \A q \in Seq(SeatId) : q # <<>> => q[1] \in ToSet(q)
      BY DEF ToSet
    <3> QED BY <3>1, CappedSeats
  <2>2. m.todo = S /\ m.seats = S
    BY DEF Idle
  <2>3. \/ pc' = [pc EXCEPT ![w] = "begin"] /\ my' = [my EXCEPT ![w] = m] /\ Capped(args) # <<>>
        \/ pc' = [pc EXCEPT ![w] = "reply"] /\ my' = my
    BY <1>1 DEF Book, goto, ValidSeats
  <2> HIDE DEF m, S
  <2> QED BY <1>b, <2>1, <2>2, <2>3
<1>2. ASSUME NEW u \in User, NEW b \in BookingId, Cancel(w, u, b)
      PROVE  Others /\ Starts
  <2> DEFINE m == [Idle EXCEPT !.op = "cancel", !.user = u, !.bid = b]
  <2>1. pc' = [pc EXCEPT ![w] = "begin"] /\ my' = [my EXCEPT ![w] = m]
    BY <1>2 DEF Cancel, goto
  <2>2. m.op = "cancel"
    BY DEF Idle
  <2> HIDE DEF m
  <2> QED BY <1>b, <2>1, <2>2
<1>3. ASSUME NEW e \in Event, DeleteEvent(w, e)
      PROVE  Others /\ Starts
  BY <1>a, <1>3 DEF DeleteEvent
<1>4. Others /\ Starts
  BY <1>1, <1>2, <1>3 DEF Command
<1>5. GoesOn(w)'
  BY <1>a, <1>b, <1>4 DEF GoesOn, LocksAscend, PhaseFits, LoopsHaveSeats
<1>6. \A v \in Worker : v # w => (Unbooked(v)' <=> Unbooked(v))
  BY <1>4 DEF Unbooked
<1>7. IdsAreLeft'
  BY <1>a, <1>b, <1>6, IdsAreStillLeft
<1> QED BY <1>a, <1>4, <1>5, <1>7, WaitFrame

(* txn_begin gives the worker a transaction, or has no slot for it.        *)
LEMMA BeginWait ==
    ASSUME WaitInv, CmdInv', NEW w \in Worker, Begin(w) \/ NoSlot(w)
    PROVE  WaitInv'
<1>a. /\ pc[w] = "begin" /\ UNCHANGED <<held, my, issued, next_booking_id>>
      /\ \/ pc' = [pc EXCEPT ![w] = IF my[w].op = "book" THEN "lock" ELSE "lock_booking"]
            /\ phase' = [phase EXCEPT ![w] = "growing"]
         \/ pc' = [pc EXCEPT ![w] = "reply"] /\ phase' = phase
  BY DEF Begin, NoSlot, TP!Begin, goto, tables
<1>b. /\ pc \in [Worker -> Label] /\ phase \in [Worker -> {"none", "growing", "shrinking"}]
      /\ TypeOK /\ IdsAreLeft /\ GoesOn(w)
  BY DEF WaitInv, CmdInv, TypeOK
<1>c. /\ \A v \in Worker : v # w => pc'[v] = pc[v] /\ my'[v] = my[v] /\ held'[v] = held[v] /\ phase'[v] = phase[v]
      /\ my'[w] = my[w] /\ held'[w] = held[w]
      /\ \/ my[w].op = "book" /\ pc'[w] = "lock" /\ phase'[w] = "growing"
         \/ pc'[w] = "lock_booking" /\ phase'[w] = "growing"
         \/ pc'[w] = "reply" /\ phase'[w] = phase[w]
  BY <1>a, <1>b
<1>d. \A s \in SeatId : SeatRecord(s) \in Record
  BY DEF Record, SeatRecord
<1>e. \A b \in BookingId : BookingRecord(b) \in Record
  BY DEF Record, BookingRecord
<1>1. LocksAscend(w)'
  BY <1>a, <1>b, <1>c, <1>d, <1>e DEF GoesOn, LocksAscend, LoopsHaveSeats
<1>2. PhaseFits(w)' /\ LoopsHaveSeats(w)'
  BY <1>a, <1>b, <1>c DEF GoesOn, PhaseFits, LoopsHaveSeats
<1>3. (Unbooked(w)' => Unbooked(w)) /\ \A v \in Worker : v # w => (Unbooked(v)' <=> Unbooked(v))
  BY <1>a, <1>c DEF Unbooked
<1>4. IdsAreLeft'
  BY <1>a, <1>b, <1>3, IdsAreStillLeft
<1> QED BY <1>c, <1>1, <1>2, <1>4, WaitFrame DEF GoesOn

(* The locking loop of booking_book_seats: the seat just locked is below    *)
(* the ones still to come.                                                 *)
LEMMA LockSeatWait ==
    ASSUME WaitInv, CmdInv', NEW w \in Worker, NEW s \in SeatId, LockSeat(w, s)
    PROVE  WaitInv'
<1>a. /\ pc[w] = "lock" /\ Lowest(s, my[w].todo) /\ TP!Lock(w, SeatRecord(s)) /\ Iterate(w, s, "lock", "verify")
      /\ UNCHANGED <<issued, next_booking_id>>
  BY DEF LockSeat, tables
<1>b. CmdInv /\ TypeOK /\ LocksAreExclusive /\ IdsAreLeft /\ GoesOn(w) /\ my[w] \in Local /\ StepIsInOrder(w)
  BY DEF WaitInv, CmdInv, TypeOK
<1>c. "lock" \in Label /\ "verify" \in Label /\ SeatRecord(s) \in Record
  BY DEF Label, Record, SeatRecord
<1>d. /\ s \in my[w].todo /\ \A v \in Worker : v # w => pc'[v] = pc[v] /\ my'[v] = my[v]
      /\ my'[w].op = my[w].op /\ my'[w].seats = my[w].seats
      /\ \/ my[w].todo = {s} /\ pc'[w] = "verify" /\ my'[w].todo = my[w].seats
         \/ my[w].todo # {s} /\ pc'[w] = "lock" /\ my'[w].todo = my[w].todo \ {s}
  BY <1>a, <1>b, <1>c, LoopMoves
<1>e. /\ phase' = phase
      /\ \A q \in Record : q # SeatRecord(s) => held'[w][q] = held[w][q]
      /\ \A v \in Worker : v # w => held'[v] = held[v]
  BY <1>a, <1>b, <1>c, LockIsGranted
<1>1. LocksAscend(w)'
  <2>1. CASE pc'[w] = "verify"
    BY <2>1 DEF LocksAscend
  <2>2. CASE pc'[w] = "lock"
    <3>1. /\ my'[w].todo = my[w].todo \ {s} /\ my'[w].seats = my[w].seats
          /\ my[w].todo \subseteq my[w].seats /\ my[w].seats \subseteq Nat /\ \A x \in my[w].todo : s <= x
      BY <1>a, <1>b, <1>d, <2>2, BookingConstants DEF Local, StepIsInOrder, Lowest
    <3>2. /\ \A b \in BookingId : held[w][BookingRecord(b)] = "none"
          /\ \A x \in SeatId : held[w][SeatRecord(x)] # "none" => x \in my[w].seats \ my[w].todo
          /\ \A x \in my[w].seats \ my[w].todo, y \in my[w].todo : x < y
      BY <1>a, <1>b DEF GoesOn, LocksAscend
    <3>3. \A b \in BookingId : held'[w][BookingRecord(b)] = "none"
      BY <1>e, <3>2 DEF Record, BookingRecord, SeatRecord
    <3>4. \A x \in SeatId : held'[w][SeatRecord(x)] # "none" => x \in my'[w].seats \ my'[w].todo
      <4> SUFFICES ASSUME NEW x \in SeatId, held'[w][SeatRecord(x)] # "none", x # s
                   PROVE  x \in my'[w].seats \ my'[w].todo
        BY <1>d, <3>1
      <4>1. SeatRecord(x) \in Record /\ SeatRecord(x) # SeatRecord(s)
        BY DEF Record, SeatRecord
      <4> QED BY <1>e, <3>1, <3>2, <4>1
    <3>5. \A x \in my'[w].seats \ my'[w].todo, y \in my'[w].todo : x < y
      <4> SUFFICES ASSUME NEW x \in my[w].seats \ (my[w].todo \ {s}), NEW y \in my[w].todo \ {s}
                   PROVE  x < y
        BY <3>1
      <4>1. CASE x = s
        BY <3>1, <4>1
      <4>2. CASE x # s
        BY <3>2, <4>2
      <4> QED BY <4>1, <4>2
    <3> QED BY <2>2, <3>3, <3>4, <3>5 DEF LocksAscend
  <2> QED BY <1>d, <2>1, <2>2
<1>2. PhaseFits(w)' /\ LoopsHaveSeats(w)'
  BY <1>a, <1>b, <1>d, <1>e DEF GoesOn, PhaseFits, LoopsHaveSeats, StepIsInOrder
<1>3. (Unbooked(w)' => Unbooked(w)) /\ \A v \in Worker : v # w => (Unbooked(v)' <=> Unbooked(v))
  BY <1>a, <1>d DEF Unbooked
<1>4. IdsAreLeft'
  BY <1>a, <1>b, <1>3, IdsAreStillLeft
<1> QED BY <1>d, <1>e, <1>1, <1>2, <1>4, WaitFrame DEF GoesOn

(* The loop that verifies the seats, the insertion of the booking, and the *)
(* loop that links and marks them.                                         *)
LEMMA BookWait ==
    ASSUME WaitInv, CmdInv', NEW w \in Worker,
           \/ InsertBooking(w)
           \/ \E s \in SeatId : VerifySeat(w, s) \/ InsertBookingSeat(w, s) \/ MarkBooked(w, s)
    PROVE  WaitInv'
<1>a. /\ pc \in [Worker -> Label] /\ my \in [Worker -> Local] /\ CmdInv /\ GoesOn(w) /\ StepIsInOrder(w)
  BY DEF WaitInv, CmdInv, TypeOK
<1>b. {"verify", "insert", "link", "commit"} \subseteq Label
  BY DEF Label
<1>c. ASSUME NEW s \in SeatId, NEW l \in Label, NEW after \in Label,
             Lowest(s, my[w].todo), Iterate(w, s, l, after)
      PROVE  /\ \A v \in Worker : v # w => pc'[v] = pc[v] /\ my'[v] = my[v]
             /\ my'[w].op = my[w].op /\ my'[w].seats = my[w].seats /\ my'[w].todo # {}
             /\ \/ pc'[w] = after /\ my'[w].todo = my[w].seats
                \/ pc'[w] = l
  <2>1. s \in my[w].todo /\ my[w].todo \subseteq my[w].seats
    BY <1>a, <1>c DEF Lowest, StepIsInOrder
  <2> QED BY <1>a, <1>c, <2>1, LoopMoves
<1>1. CASE InsertBooking(w)
  <2>1. /\ pc[w] = "insert" /\ next_booking_id' = next_booking_id + 1
        /\ my' = [my EXCEPT ![w].bid = next_booking_id] /\ pc' = [pc EXCEPT ![w] = "link"]
        /\ UNCHANGED <<held, phase, issued>>
    BY <1>1 DEF InsertBooking, NewBooking, goto
  <2>2. /\ pc'[w] = "link" /\ \A v \in Worker : v # w => pc'[v] = pc[v] /\ my'[v] = my[v]
        /\ my'[w].todo = my[w].todo
    BY <1>a, <2>1 DEF Local
  <2>3. LoopsHaveSeats(w)' /\ ~Unbooked(w)'
    BY <1>a, <2>1, <2>2 DEF GoesOn, LoopsHaveSeats, Unbooked
  <2> QED BY <2>1, <2>2, <2>3, PlainStep
<1>2. ASSUME NEW s \in SeatId, VerifySeat(w, s) PROVE WaitInv'
  <2>1. /\ pc[w] = "verify" /\ Lowest(s, my[w].todo) /\ UNCHANGED <<held, phase, issued, next_booking_id>>
        /\ \/ Iterate(w, s, "verify", "insert")
           \/ pc' = [pc EXCEPT ![w] = "abort"] /\ my' = my
    BY <1>2 DEF VerifySeat, goto, tables
  <2>2. CASE Iterate(w, s, "verify", "insert")
    <3>1. /\ \A v \in Worker : v # w => pc'[v] = pc[v] /\ my'[v] = my[v]
          /\ my'[w].op = my[w].op /\ my'[w].seats = my[w].seats /\ my'[w].todo # {}
          /\ \/ pc'[w] = "insert" /\ my'[w].todo = my[w].seats
             \/ pc'[w] = "verify"
      BY <1>b, <1>c, <2>1, <2>2
    <3>2. LoopsHaveSeats(w)' /\ (Unbooked(w)' => Unbooked(w))
      BY <2>1, <3>1 DEF LoopsHaveSeats, Unbooked
    <3> QED BY <2>1, <3>1, <3>2, PlainStep
  <2>3. CASE pc' = [pc EXCEPT ![w] = "abort"] /\ my' = my
    BY <2>1, <2>3, AbortWait
  <2> QED BY <2>1, <2>2, <2>3
<1>3. ASSUME NEW s \in SeatId, InsertBookingSeat(w, s) PROVE WaitInv'
  <2>1. /\ pc[w] = "link" /\ pc' = [pc EXCEPT ![w] = "mark"] /\ my' = my
        /\ UNCHANGED <<held, phase, issued, next_booking_id>>
    BY <1>3 DEF InsertBookingSeat, goto
  <2>2. pc'[w] = "mark" /\ \A v \in Worker : v # w => pc'[v] = pc[v] /\ my'[v] = my[v]
    BY <1>a, <2>1
  <2>3. LoopsHaveSeats(w)' /\ ~Unbooked(w)'
    BY <1>a, <2>1, <2>2 DEF GoesOn, LoopsHaveSeats, Unbooked
  <2> QED BY <2>1, <2>2, <2>3, PlainStep
<1>4. ASSUME NEW s \in SeatId, MarkBooked(w, s) PROVE WaitInv'
  <2>1. /\ pc[w] = "mark" /\ Lowest(s, my[w].todo) /\ Iterate(w, s, "link", "commit")
        /\ UNCHANGED <<held, phase, issued, next_booking_id>>
    BY <1>4 DEF MarkBooked
  <2>2. /\ \A v \in Worker : v # w => pc'[v] = pc[v] /\ my'[v] = my[v]
        /\ my'[w].todo # {} /\ pc'[w] \in {"link", "commit"}
    BY <1>b, <1>c, <2>1
  <2>3. LoopsHaveSeats(w)' /\ ~Unbooked(w)'
    BY <2>2 DEF LoopsHaveSeats, Unbooked
  <2> QED BY <2>1, <2>2, <2>3, PlainStep
<1> QED BY <1>1, <1>2, <1>3, <1>4

(* booking_cancel up to its seats: it locks its booking before any seat.   *)
LEMMA CancelWait ==
    ASSUME WaitInv, CmdInv', NEW w \in Worker, LockBooking(w) \/ CheckBooking(w) \/ MarkCancelled(w)
    PROVE  WaitInv'
<1>a. /\ pc \in [Worker -> Label] /\ TypeOK /\ LocksAreExclusive /\ IdsAreLeft /\ GoesOn(w) /\ StepIsInOrder(w)
  BY DEF WaitInv, CmdInv, TypeOK
<1>1. CASE LockBooking(w)
  <2>1. /\ pc[w] = "lock_booking" /\ TP!Lock(w, BookingRecord(my[w].bid)) /\ pc' = [pc EXCEPT ![w] = "check"]
        /\ UNCHANGED <<my, issued, next_booking_id>>
    BY <1>1 DEF LockBooking, goto, tables
  <2>2. BookingRecord(my[w].bid) \in Record
    BY <1>a, <2>1 DEF StepIsInOrder, CancelSteps, Record, BookingRecord
  <2>3. /\ phase' = phase /\ \A v \in Worker : v # w => held'[v] = held[v]
        /\ \A q \in Record : q # BookingRecord(my[w].bid) => held'[w][q] = held[w][q]
    BY <1>a, <2>1, <2>2, LockIsGranted
  <2>4. pc'[w] = "check" /\ \A v \in Worker : v # w => pc'[v] = pc[v] /\ my'[v] = my[v]
    BY <1>a, <2>1
  <2>5. \A s \in SeatId : held'[w][SeatRecord(s)] = "none"
    <3>1. \A s \in SeatId : SeatRecord(s) \in Record /\ SeatRecord(s) # BookingRecord(my[w].bid)
      BY DEF Record, SeatRecord, BookingRecord
    <3> QED BY <1>a, <2>1, <2>3, <3>1 DEF GoesOn, LocksAscend
  <2>6. GoesOn(w)'
    BY <1>a, <2>1, <2>3, <2>4, <2>5 DEF GoesOn, LocksAscend, PhaseFits, LoopsHaveSeats
  <2>7. ~Unbooked(w)' /\ \A v \in Worker : v # w => (Unbooked(v)' <=> Unbooked(v))
    BY <2>4 DEF Unbooked
  <2>8. IdsAreLeft'
    BY <1>a, <2>1, <2>7, IdsAreStillLeft
  <2> QED BY <2>3, <2>4, <2>6, <2>8, WaitFrame
<1>2. CASE CheckBooking(w)
  <2>1. /\ pc[w] = "check" /\ UNCHANGED <<my, held, phase, issued, next_booking_id>>
        /\ \/ pc' = [pc EXCEPT ![w] = "scan"]
           \/ pc' = [pc EXCEPT ![w] = "abort"]
    BY <1>2 DEF CheckBooking, goto, tables
  <2>2. CASE pc' = [pc EXCEPT ![w] = "scan"]
    <3>1. pc'[w] = "scan" /\ \A v \in Worker : v # w => pc'[v] = pc[v]
      BY <1>a, <2>2
    <3>2. GoesOn(w)'
      BY <1>a, <2>1, <3>1 DEF GoesOn, LocksAscend, PhaseFits, LoopsHaveSeats
    <3>3. ~Unbooked(w)' /\ \A v \in Worker : v # w => (Unbooked(v)' <=> Unbooked(v))
      BY <2>1, <3>1 DEF Unbooked
    <3>4. IdsAreLeft'
      BY <1>a, <2>1, <3>3, IdsAreStillLeft
    <3> QED BY <2>1, <3>1, <3>2, <3>4, WaitFrame
  <2>3. CASE pc' = [pc EXCEPT ![w] = "abort"]
    BY <2>1, <2>3, AbortWait
  <2> QED BY <2>1, <2>2, <2>3
<1>3. CASE MarkCancelled(w)
  <2>1. /\ pc[w] = "cancel" /\ pc' = [pc EXCEPT ![w] = "commit"] /\ my' = my
        /\ UNCHANGED <<held, phase, issued, next_booking_id>>
    BY <1>3 DEF MarkCancelled, goto
  <2>2. pc'[w] = "commit" /\ \A v \in Worker : v # w => pc'[v] = pc[v] /\ my'[v] = my[v]
    BY <1>a, <2>1
  <2>3. LoopsHaveSeats(w)' /\ ~Unbooked(w)'
    BY <2>2 DEF LoopsHaveSeats, Unbooked
  <2> QED BY <2>1, <2>2, <2>3, PlainStep
<1> QED BY <1>1, <1>2, <1>3

(* The seats of the booking have been collected, all of them or some.      *)
LEMMA ScanWait ==
    ASSUME WaitInv, CmdInv', NEW w \in Worker, NEW S \in SUBSET SeatsOf(my[w].bid), pc[w] = "scan",
           my' = [my EXCEPT ![w].seats = S, ![w].todo = S],
           pc' = [pc EXCEPT ![w] = IF S = {} THEN "cancel" ELSE "lock_seat"],
           UNCHANGED <<held, phase, issued, next_booking_id>>
    PROVE  WaitInv'
<1>a. /\ pc \in [Worker -> Label] /\ my \in [Worker -> Local] /\ TypeOK /\ IdsAreLeft /\ GoesOn(w)
  BY DEF WaitInv, CmdInv, TypeOK
<1>b. /\ \A v \in Worker : v # w => pc'[v] = pc[v] /\ my'[v] = my[v]
      /\ \/ pc'[w] = "cancel"
         \/ pc'[w] = "lock_seat" /\ S # {}
  BY <1>a
<1>c. my'[w].seats = S /\ my'[w].todo = S
  BY <1>a DEF Local
<1>1. GoesOn(w)'
  BY <1>a, <1>b, <1>c DEF GoesOn, LocksAscend, PhaseFits, LoopsHaveSeats
<1>2. ~Unbooked(w)' /\ \A v \in Worker : v # w => (Unbooked(v)' <=> Unbooked(v))
  BY <1>b DEF Unbooked
<1>3. IdsAreLeft'
  BY <1>a, <1>2, IdsAreStillLeft
<1> QED BY <1>b, <1>1, <1>3, WaitFrame

(* The next seat of the booking is locked ...                              *)
LEMMA LockBookedSeatWait ==
    ASSUME WaitInv, CmdInv', NEW w \in Worker, NEW s \in SeatId, LockBookedSeat(w, s)
    PROVE  WaitInv'
<1>a. /\ pc[w] = "lock_seat" /\ Lowest(s, my[w].todo) /\ TP!Lock(w, SeatRecord(s))
      /\ pc' = [pc EXCEPT ![w] = "free"] /\ UNCHANGED <<my, issued, next_booking_id>>
  BY DEF LockBookedSeat, goto, tables
<1>b. /\ pc \in [Worker -> Label] /\ TypeOK /\ LocksAreExclusive /\ IdsAreLeft /\ GoesOn(w)
  BY DEF WaitInv, CmdInv, TypeOK
<1>c. SeatRecord(s) \in Record
  BY DEF Record, SeatRecord
<1>d. /\ phase' = phase /\ \A v \in Worker : v # w => held'[v] = held[v]
      /\ \A q \in Record : q # SeatRecord(s) => held'[w][q] = held[w][q]
  BY <1>a, <1>b, <1>c, LockIsGranted
<1>e. pc'[w] = "free" /\ \A v \in Worker : v # w => pc'[v] = pc[v] /\ my'[v] = my[v]
  BY <1>a, <1>b
<1>1. LocksAscend(w)'
  <2>1. \A x \in SeatId : held'[w][SeatRecord(x)] # "none" =>
          x \in my[w].seats \ my[w].todo \/ Lowest(x, my[w].todo)
    <3> SUFFICES ASSUME NEW x \in SeatId, held'[w][SeatRecord(x)] # "none", x # s
                 PROVE  x \in my[w].seats \ my[w].todo
      BY <1>a
    <3>1. SeatRecord(x) \in Record /\ SeatRecord(x) # SeatRecord(s)
      BY DEF Record, SeatRecord
    <3> QED BY <1>a, <1>b, <1>d, <3>1 DEF GoesOn, LocksAscend
  <2>2. \A x \in my[w].seats \ my[w].todo, y \in my[w].todo : x < y
    BY <1>a, <1>b DEF GoesOn, LocksAscend
  <2>3. my'[w] = my[w]
    BY <1>a
  <2>4. \A x : Lowest(x, my[w].todo) => Lowest(x, my[w].todo)'
    BY <1>a DEF Lowest
  <2> QED BY <1>e, <2>1, <2>2, <2>3, <2>4 DEF LocksAscend
<1>2. PhaseFits(w)' /\ LoopsHaveSeats(w)'
  BY <1>a, <1>b, <1>d, <1>e DEF GoesOn, PhaseFits, LoopsHaveSeats
<1>3. ~Unbooked(w)' /\ \A v \in Worker : v # w => (Unbooked(v)' <=> Unbooked(v))
  BY <1>e DEF Unbooked
<1>4. IdsAreLeft'
  BY <1>a, <1>b, <1>3, IdsAreStillLeft
<1> QED BY <1>d, <1>e, <1>1, <1>2, <1>4, WaitFrame DEF GoesOn

(* ... and given back, or passed over.                                     *)
LEMMA FreeWait ==
    ASSUME WaitInv, CmdInv', NEW w \in Worker, NEW s \in SeatId, pc[w] = "free", Lowest(s, my[w].todo),
           Iterate(w, s, "lock_seat", "cancel"), UNCHANGED <<held, phase, issued, next_booking_id>>
    PROVE  WaitInv'
<1>a. CmdInv /\ TypeOK /\ IdsAreLeft /\ GoesOn(w) /\ my[w] \in Local /\ StepIsInOrder(w)
  BY DEF WaitInv, CmdInv, TypeOK
<1>b. "lock_seat" \in Label /\ "cancel" \in Label
  BY DEF Label
<1>c. /\ s \in my[w].todo /\ \A v \in Worker : v # w => pc'[v] = pc[v] /\ my'[v] = my[v]
      /\ my'[w].seats = my[w].seats
      /\ \/ pc'[w] = "cancel"
         \/ my[w].todo # {s} /\ pc'[w] = "lock_seat" /\ my'[w].todo = my[w].todo \ {s}
  BY <1>a, <1>b, LoopMoves
<1>1. CASE pc'[w] = "cancel"
  <2>1. LoopsHaveSeats(w)' /\ ~Unbooked(w)'
    BY <1>1 DEF LoopsHaveSeats, Unbooked
  <2> QED BY <1>1, <1>c, <2>1, PlainStep
<1>2. CASE pc'[w] = "lock_seat"
  <2>1. /\ my'[w].todo = my[w].todo \ {s} /\ my'[w].seats = my[w].seats /\ my[w].todo # {s}
        /\ my[w].todo \subseteq my[w].seats /\ my[w].seats \subseteq Nat /\ \A x \in my[w].todo : s <= x
    BY <1>a, <1>c, <1>2, BookingConstants DEF Local, StepIsInOrder, Lowest
  <2>2. /\ \A x \in SeatId : held[w][SeatRecord(x)] # "none" => x \in my[w].seats \ my[w].todo \/ Lowest(x, my[w].todo)
        /\ \A x \in my[w].seats \ my[w].todo, y \in my[w].todo : x < y
    BY <1>a DEF GoesOn, LocksAscend
  <2>3. \A x \in SeatId : Lowest(x, my[w].todo) => x = s
    BY <1>c, <2>1, BookingConstants DEF Lowest
  <2>4. \A x \in SeatId : held'[w][SeatRecord(x)] # "none" => x \in my'[w].seats \ my'[w].todo
    BY <1>c, <2>1, <2>2, <2>3
  <2>5. \A x \in my'[w].seats \ my'[w].todo, y \in my'[w].todo : x < y
    <3> SUFFICES ASSUME NEW x \in my[w].seats \ (my[w].todo \ {s}), NEW y \in my[w].todo \ {s}
                 PROVE  x < y
      BY <2>1
    <3>1. CASE x = s
      BY <2>1, <3>1
    <3>2. CASE x # s
      BY <2>2, <3>2
    <3> QED BY <3>1, <3>2
  <2>6. LocksAscend(w)'
    BY <1>2, <2>4, <2>5 DEF LocksAscend
  <2>7. PhaseFits(w)' /\ LoopsHaveSeats(w)'
    BY <1>2, <1>a, <1>c, <2>1 DEF GoesOn, PhaseFits, LoopsHaveSeats
  <2>8. ~Unbooked(w)' /\ \A v \in Worker : v # w => (Unbooked(v)' <=> Unbooked(v))
    BY <1>2, <1>c DEF Unbooked
  <2>9. IdsAreLeft'
    BY <1>a, <2>8, IdsAreStillLeft
  <2> QED BY <1>c, <2>6, <2>7, <2>9, WaitFrame DEF GoesOn
<1> QED BY <1>c, <1>1, <1>2

(* The transaction ends, its locks are released, the client is answered:   *)
(* the worker is idle without a lock.                                      *)
LEMMA EndWait ==
    ASSUME WaitInv, CmdInv', NEW w \in Worker,
           Commit(w) \/ Abort(w) \/ EndTxn(w) \/ Reply(w) \/ \E r \in Record : Release(w, r)
    PROVE  WaitInv'
<1>a. /\ pc \in [Worker -> Label] /\ my \in [Worker -> Local] /\ TypeOK /\ IdsAreLeft /\ GoesOn(w)
      /\ phase \in [Worker -> {"none", "growing", "shrinking"}]
      /\ held \in [Worker -> [Record -> TP!RL!Mode \cup {"none"}]]
  BY DEF WaitInv, CmdInv, TypeOK, TP!RL!HeldType
<1>b. issued' = issued /\ next_booking_id' = next_booking_id
  BY DEF Commit, Abort, EndTxn, Reply, Release, tables
<1> DEFINE Others == \A v \in Worker : v # w => /\ pc'[v] = pc[v] /\ my'[v] = my[v]
                                              /\ held'[v] = held[v] /\ phase'[v] = phase[v]
           Ended == \/ pc'[w] = "release" /\ phase'[w] = "shrinking"
                    \/ pc'[w] \in {"reply", "idle"} /\ phase'[w] = "none" /\ \A r \in Record : held'[w][r] = "none"
<1>1. ASSUME Commit(w) \/ Abort(w) PROVE Others /\ Ended
  <2>1. /\ pc' = [pc EXCEPT ![w] = "release"] /\ phase' = [phase EXCEPT ![w] = "shrinking"] /\ held' = held
        /\ my' \in {my, [my EXCEPT ![w].ok = TRUE]}
    BY <1>1 DEF Commit, Abort, TP!End, goto
  <2> QED BY <1>a, <2>1
<1>2. ASSUME EndTxn(w) PROVE Others /\ Ended
  <2>1. /\ pc' = [pc EXCEPT ![w] = "reply"] /\ phase' = [phase EXCEPT ![w] = "none"] /\ held' = held /\ my' = my
        /\ \A r \in Record : held[w][r] = "none"
    BY <1>2 DEF EndTxn, TP!Finish, TP!LocksOf, goto
  <2> QED BY <1>a, <2>1
<1>3. ASSUME Reply(w) PROVE Others /\ Ended
  <2>1. /\ pc[w] = "reply" /\ pc' = [pc EXCEPT ![w] = "idle"] /\ my' = [my EXCEPT ![w] = Idle]
        /\ phase' = phase /\ held' = held
    BY <1>3 DEF Reply, goto
  <2>2. phase[w] = "none" /\ \A r \in Record : held[w][r] = "none"
    BY <1>a, <2>1 DEF GoesOn, LocksAscend, PhaseFits
  <2> QED BY <1>a, <2>1, <2>2
<1>4. ASSUME NEW r \in Record, Release(w, r) PROVE Others /\ Ended
  <2>1. /\ pc[w] = "release" /\ pc' = pc /\ my' = my /\ phase' = phase /\ held' = [held EXCEPT ![w][r] = "none"]
    BY <1>4 DEF Release, TP!Unlock, TP!RL!Release
  <2>2. phase[w] = "shrinking"
    BY <1>a, <2>1 DEF GoesOn, PhaseFits
  <2>3. \A v \in Worker : v # w => held'[v] = held[v]
    BY <1>a, <2>1
  <2> QED BY <2>1, <2>2, <2>3
<1>5. Others /\ Ended
  BY <1>1, <1>2, <1>3, <1>4
<1>6. GoesOn(w)'
  BY <1>5 DEF GoesOn, LocksAscend, PhaseFits, LoopsHaveSeats
<1>7. ~Unbooked(w)' /\ \A v \in Worker : v # w => (Unbooked(v)' <=> Unbooked(v))
  BY <1>5 DEF Unbooked
<1>8. IdsAreLeft'
  BY <1>a, <1>b, <1>7, IdsAreStillLeft
<1> QED BY <1>5, <1>6, <1>8, WaitFrame

(* Every call that may fail, at every point where it may.                  *)
LEMMA FaultWait ==
    ASSUME WaitInv, CmdInv', NEW w \in Worker, Fault(w)
    PROVE  WaitInv'
<1>a. UNCHANGED <<held, phase, issued>>
  BY DEF Fault
<1>1. CASE CallFails(w)
  <2>1. /\ pc[w] \notin {"idle", "begin", "reply", "release"} /\ pc' = [pc EXCEPT ![w] = "abort"] /\ my' = my
        /\ next_booking_id' = next_booking_id
    BY <1>1 DEF CallFails, goto, tables
  <2> QED BY <1>a, <2>1, AbortWait
<1>2. CASE InsertBookingFails(w)
  <2>1. /\ pc[w] = "insert" /\ pc' = [pc EXCEPT ![w] = "abort"] /\ my' = my
        /\ next_booking_id' = next_booking_id + 1
    BY <1>2 DEF InsertBookingFails, goto
  <2> QED BY <1>a, <2>1, AbortWait
<1>3. ASSUME NEW s \in SeatId, InsertBookingSeatFails(w, s) PROVE WaitInv'
  <2>1. /\ pc[w] = "link" /\ pc' = [pc EXCEPT ![w] = "abort"] /\ my' = my
        /\ next_booking_id' = next_booking_id
    BY <1>3 DEF InsertBookingSeatFails, goto
  <2> QED BY <1>a, <2>1, AbortWait
<1>4. ASSUME NEW s \in SeatId, FindSeatFails(w, s) PROVE WaitInv'
  <2>1. /\ pc[w] = "free" /\ Lowest(s, my[w].todo) /\ Iterate(w, s, "lock_seat", "cancel")
        /\ next_booking_id' = next_booking_id
    BY <1>4 DEF FindSeatFails, tables
  <2> QED BY <1>a, <2>1, FreeWait
<1>5. ASSUME NEW S \in SUBSET SeatsOf(my[w].bid), ScanMissesRows(w, S) PROVE WaitInv'
  <2>1. /\ pc[w] = "scan" /\ my' = [my EXCEPT ![w].seats = S, ![w].todo = S]
        /\ pc' = [pc EXCEPT ![w] = IF S = {} THEN "cancel" ELSE "lock_seat"]
        /\ next_booking_id' = next_booking_id
    BY <1>5 DEF ScanMissesRows, goto, tables
  <2> QED BY <1>a, <2>1, ScanWait
<1> QED BY <1>1, <1>2, <1>3, <1>4, <1>5 DEF Fault

(* Every step of the system keeps the order of the locks.                  *)
LEMMA NextWaitInv ==
    ASSUME WaitInv, [Next]_vars
    PROVE  WaitInv'
<1>1. CmdInv'
  BY NextCmdInv DEF WaitInv
<1>2. CASE UNCHANGED vars
  <2>1. UNCHANGED <<pc, my, held, phase, issued, next_booking_id>>
    BY <1>2 DEF vars, tables
  <2>2. \A w \in Worker : GoesOn(w)'
    BY <2>1 DEF WaitInv, GoesOn, LocksAscend, PhaseFits, LoopsHaveSeats, Lowest
  <2>3. IdsAreLeft'
    BY <2>1 DEF WaitInv, IdsAreLeft, Unbooked
  <2> QED BY <1>1, <2>2, <2>3 DEF WaitInv
<1>3. ASSUME NEW w \in Worker, Step(w) PROVE WaitInv'
  <2>1. CASE ScanBookingSeats(w)
    <3> DEFINE S == SeatsOf(my[w].bid)
    <3>1. /\ pc[w] = "scan" /\ my' = [my EXCEPT ![w].seats = S, ![w].todo = S]
          /\ pc' = [pc EXCEPT ![w] = IF S = {} THEN "cancel" ELSE "lock_seat"]
          /\ UNCHANGED <<held, phase, issued, next_booking_id>>
      BY <2>1 DEF ScanBookingSeats, goto, tables
    <3>2. S \in SUBSET SeatsOf(my[w].bid)
      OBVIOUS
    <3> HIDE DEF S
    <3> QED BY <1>1, <3>1, <3>2, ScanWait
  <2>2. ASSUME NEW s \in SeatId, ReleaseSeat(w, s) PROVE WaitInv'
    <3>1. /\ pc[w] = "free" /\ Lowest(s, my[w].todo) /\ Iterate(w, s, "lock_seat", "cancel")
          /\ UNCHANGED <<held, phase, issued, next_booking_id>>
      BY <2>2 DEF ReleaseSeat
    <3> QED BY <1>1, <3>1, FreeWait
  <2>3. ASSUME NEW s \in SeatId, LockSeat(w, s) \/ LockBookedSeat(w, s) PROVE WaitInv'
    BY <1>1, <2>3, LockSeatWait, LockBookedSeatWait
  <2>4. CASE Begin(w) \/ NoSlot(w)
    BY <1>1, <2>4, BeginWait
  <2>5. CASE \/ InsertBooking(w)
             \/ \E s \in SeatId : VerifySeat(w, s) \/ InsertBookingSeat(w, s) \/ MarkBooked(w, s)
    BY <1>1, <2>5, BookWait
  <2>6. CASE LockBooking(w) \/ CheckBooking(w) \/ MarkCancelled(w)
    BY <1>1, <2>6, CancelWait
  <2>7. CASE Commit(w) \/ Abort(w) \/ EndTxn(w) \/ Reply(w) \/ \E r \in Record : Release(w, r)
    BY <1>1, <2>7, EndWait
  <2> QED BY <1>3, <2>1, <2>2, <2>3, <2>4, <2>5, <2>6, <2>7 DEF Step
<1>4. ASSUME NEW w \in Worker, Command(w) \/ Fault(w) PROVE WaitInv'
  BY <1>1, <1>4, CommandWait, FaultWait
<1> QED BY <1>2, <1>3, <1>4 DEF Next, Quiescent

(* Before the first command no worker is at work.                          *)
LEMMA InitWaitInv == Init => WaitInv
<1> SUFFICES ASSUME Init PROVE WaitInv
  OBVIOUS
<1>1. /\ pc = [w \in Worker |-> "idle"] /\ phase = [w \in Worker |-> "none"]
      /\ held = [w \in Worker |-> [r \in Record |-> "none"]] /\ next_booking_id = 1 /\ issued = 0
  BY DEF Init, TP!Init, TP!RL!Init
<1>2. \A w \in Worker : GoesOn(w)
  BY <1>1 DEF GoesOn, LocksAscend, PhaseFits, LoopsHaveSeats
<1>3. {w \in Worker : Unbooked(w)} = {}
  BY <1>1 DEF Unbooked
<1>4. IdsAreLeft
  BY <1>1, <1>3, FS_EmptySet DEF IdsAreLeft
<1> QED BY <1>2, <1>4, InitCmdInv DEF WaitInv

(* A worker that asks for no lock next is ready: a loop has a lowest seat, *)
(* and there is an id for a booking.                                       *)
LEMMA OnlyLocksAreWaitedFor ==
    ASSUME WaitInv, NEW w \in Worker, pc[w] \notin {"idle", "lock", "lock_booking", "lock_seat"}
    PROVE  Ready(w)
<1>1. /\ GoesOn(w) /\ StepIsInOrder(w) /\ my[w] \in Local /\ IdsAreLeft
      /\ issued \in 0..MaxCommands /\ next_booking_id \in Nat \ {0} /\ MaxCommands \in Nat
  BY BookingConstants DEF WaitInv, CmdInv, TypeOK
<1>2. pc[w] \in {"verify", "link", "mark", "free"} => \E s \in SeatId : Lowest(s, my[w].todo)
  <2>1. my[w].todo \in SUBSET SeatId
    BY <1>1 DEF Local
  <2> QED BY <1>1, <2>1, LoopHasALowest DEF GoesOn, LoopsHaveSeats
<1>3. pc[w] = "insert" => next_booking_id \in BookingId
  <2> DEFINE U == {v \in Worker : Unbooked(v)}
  <2> SUFFICES ASSUME pc[w] = "insert" PROVE next_booking_id \in BookingId
    OBVIOUS
  <2>1. w \in U /\ IsFiniteSet(U) /\ next_booking_id + Cardinality(U) <= issued + 1
    BY <1>1 DEF StepIsInOrder, Unbooked, IdsAreLeft
  <2> HIDE DEF U
  <2>2. Cardinality(U) \in Nat /\ Cardinality(U) # 0
    BY <2>1, FS_CardinalityType, FS_EmptySet
  <2> QED BY <1>1, <2>1, <2>2 DEF BookingId
<1> QED BY <1>1, <1>2, <1>3 DEF Ready, GoesOn, PhaseFits

(* Of the workers that ask for a lock, the one that asks for the last in   *)
(* the order of the locks gets it: whoever had it would still be at work,  *)
(* and would ask for a later one.                                          *)
LEMMA LastInOrderIsReady ==
    ASSUME WaitInv
    PROVE  SomeWorkerIsReady
<1> SUFFICES ASSUME NEW u \in Worker, pc[u] # "idle", \A w \in Worker : ~Ready(w) PROVE FALSE
  BY DEF SomeWorkerIsReady
<1> DEFINE W == {w \in Worker : pc[w] # "idle"}
           rank == [w \in W |-> IF pc[w] = "lock_booking" THEN 0 - 1
                                 ELSE CHOOSE s \in SeatId : Lowest(s, my[w].todo)]
<1>1. /\ \A w \in Worker : GoesOn(w) /\ StepIsInOrder(w) /\ my[w] \in Local
      /\ SeatId \subseteq Nat /\ IsFiniteSet(SeatId)
  BY BookingConstants DEF WaitInv, CmdInv, TypeOK
<1>a. (0 - 1) \in Int /\ \A s \in SeatId : s \in Int /\ 0 - 1 < s
  BY BookingConstants
<1>2. \A w \in W : w \in Worker /\ pc[w] \in {"lock", "lock_booking", "lock_seat"}
  BY OnlyLocksAreWaitedFor
<1>3. ASSUME NEW w \in W
      PROVE  \/ pc[w] = "lock_booking" /\ rank[w] = 0 - 1
             \/ pc[w] \in {"lock", "lock_seat"} /\ rank[w] \in SeatId /\ Lowest(rank[w], my[w].todo)
  <2>1. CASE pc[w] = "lock_booking"
    BY <2>1
  <2>2. CASE pc[w] \in {"lock", "lock_seat"}
    <3>1. my[w].todo \in SUBSET SeatId /\ my[w].todo # {}
      BY <1>1, <1>2, <2>2 DEF GoesOn, LoopsHaveSeats, Local
    <3>2. \E s \in SeatId : Lowest(s, my[w].todo)
      BY <3>1, LoopHasALowest
    <3>3. rank[w] = CHOOSE s \in SeatId : Lowest(s, my[w].todo)
      BY <2>2
    <3> QED BY <2>2, <3>2, <3>3
  <2> QED BY <1>2, <2>1, <2>2
<1>4. u \in W
  OBVIOUS
<1>5. \A w \in Worker : w \in W <=> pc[w] # "idle"
  OBVIOUS
<1> HIDE DEF rank, W
<1>6. PICK w \in W : \A v \in W : rank[v] <= rank[w]
  <2> DEFINE R == {rank[v] : v \in W}
  <2>1. IsFiniteSet(SeatId \cup {0 - 1})
    BY <1>1, FS_AddElement
  <2>2. R \subseteq SeatId \cup {0 - 1} /\ R # {}
    BY <1>3, <1>4
  <2>3. R \subseteq Int
    BY <1>a, <2>2
  <2>4. IsFiniteSet(R)
    BY <2>1, <2>2, FS_Subset
  <2>5. \E m \in R : \A i \in R : i <= m
    <3> HIDE DEF R
    <3> QED BY <2>2, <2>3, <2>4, FiniteHasGreatest
  <2> QED BY <2>5
<1>7. PICK r \in Record : /\ Wants(w, r)
                          /\ \/ pc[w] = "lock_booking" /\ rank[w] = 0 - 1 /\ r \in {"bookings"} \X BookingId
                             \/ rank[w] \in SeatId /\ r = SeatRecord(rank[w])
  <2>1. CASE pc[w] = "lock_booking"
    <3>1. my[w].bid \in BookingId
      BY <1>1, <1>2, <2>1 DEF StepIsInOrder, CancelSteps
    <3>2. BookingRecord(my[w].bid) \in Record /\ BookingRecord(my[w].bid) \in {"bookings"} \X BookingId
      BY <3>1 DEF Record, BookingRecord
    <3>3. Wants(w, BookingRecord(my[w].bid)) /\ rank[w] = 0 - 1
      BY <1>3, <2>1 DEF Wants
    <3> QED BY <2>1, <3>2, <3>3
  <2>2. CASE pc[w] # "lock_booking"
    <3>1. SeatRecord(rank[w]) \in Record /\ Wants(w, SeatRecord(rank[w])) /\ rank[w] \in SeatId
      BY <1>3, <2>2 DEF Record, SeatRecord, Wants
    <3> QED BY <3>1
  <2> QED BY <2>1, <2>2
<1>8. PICK v \in Worker : held[v][r] # "none"
  <2>1. phase[w] = "growing"
    BY <1>1, <1>2 DEF GoesOn, PhaseFits
  <2> QED BY <1>2, <1>7, <2>1 DEF Ready
<1>9. v \in W /\ LocksAscend(v)
  BY <1>1, <1>5, <1>8 DEF GoesOn, LocksAscend
<1>10. pc[v] \in {"lock", "lock_seat"} /\ rank[v] \in SeatId /\ rank[v] \in my[v].todo
  BY <1>3, <1>8, <1>9 DEF LocksAscend, Lowest
<1>11. rank[w] < rank[v]
  <2>1. CASE r \in {"bookings"} \X BookingId /\ rank[w] = 0 - 1
    BY <1>a, <1>10, <2>1
  <2>2. CASE rank[w] \in SeatId /\ r = SeatRecord(rank[w])
    <3>1. rank[w] \in my[v].seats \ my[v].todo
      BY <1>8, <1>9, <1>10, <2>2 DEF LocksAscend
    <3> QED BY <1>9, <1>10, <3>1 DEF LocksAscend
  <2> QED BY <1>7, <2>1, <2>2
<1>12. rank[w] \in Int /\ rank[v] \in Int
  BY <1>a, <1>3, <1>10
<1> QED BY <1>6, <1>9, <1>11, <1>12

(* The locks of every worker ascend, for any number of workers, seats and  *)
(* commands, whichever calls fail.                                         *)
THEOREM WaitInvHolds == Spec => []WaitInv
<1> QED BY InitWaitInv, NextWaitInv, PTL DEF Spec

(* No deadlock among transactions: as long as any worker is at work, one   *)
(* of them finds the lock it asks for free, or asks for none, because      *)
(* booking_book_seats sorts its seats (booking_engine.c:108) and           *)
(* booking_cancel locks its booking before the seats.                      *)
THEOREM SomeWorkerIsReadyHolds == Spec => []SomeWorkerIsReady
<1> QED BY LastInOrderIsReady, WaitInvHolds, PTL
=============================================================================
