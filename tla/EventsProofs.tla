----------------------------- MODULE EventsProofs -----------------------------
(***************************************************************************)
(* Proofs about the events and their seats: however the insertions of any  *)
(* number of organizers interleave, an event whose creation was answered   *)
(* has a seat for every place of its hall, but the ones whose insertion    *)
(* failed, and no place has two; and a revenue report on such an event     *)
(* shows every seat of the hall but those it could not read.               *)
(***************************************************************************)
EXTENDS Events, FiniteSetTheorems, SequenceTheorems, TLAPS
-----------------------------------------------------------------------------
(* The inductive invariant.  The bounds are kept; ...                      *)
BoundsAreKept ==
  /\ Len(events) <= MaxEvents /\ faults + extras <= MaxExtras
  /\ DOMAIN cmd = Clients /\ cmd = [c \in Clients |-> cmd[c]]
  /\ \A c \in Clients : Reporting(c) => "name" \in DOMAIN cmd[c]

\* ... the seat loop of a creation stands at a place of its hall, or past the
\* last row, and nobody else creates the event; ...
At(k, rows, per_row) ==
  /\ k \in [name : {"create"}, event : Nat, row : Nat, snum : Nat]
  /\ k.row <= rows /\ k.snum \in 1 .. per_row

LoopsAreInTheHall ==
  \A c \in Clients : Creating(c) =>
    /\ cmd[c].event \in 1 .. Len(events) /\ cmd[c].event \notin created
    /\ At(cmd[c], events[cmd[c].event].total_rows, events[cmd[c].event].seats_per_row)

EventsHaveOneCreator ==
  \A c, d \in Clients : Creating(c) /\ Creating(d) /\ cmd[c].event = cmd[d].event => c = d

\* ... a seat is a place of the hall of its event, and no other seat is the same
\* place; ...
SeatsAreInTheirHalls ==
  \A i \in 1 .. Len(seats) :
    /\ seats[i].event \in 1 .. Len(events)
    /\ seats[i].row < events[seats[i].event].total_rows
    /\ seats[i].snum <= events[seats[i].event].seats_per_row

SamePlace(s, t) == s.event = t.event /\ s.row = t.row /\ s.snum = t.snum
PlacesAreSoldOnce == \A i, j \in 1 .. Len(seats) : SamePlace(seats[i], seats[j]) => i = j

\* ... the places before the one a loop stands at have been done, those only, and
\* the ones without a seat are no more than the insertions that failed.
IsBefore(row, snum, k) == row < k.row \/ (row = k.row /\ snum < k.snum)

SeatsComeInOrder ==
  \A c \in Clients : Creating(c) =>
    \A i \in 1 .. Len(seats) : seats[i].event = cmd[c].event => IsBefore(seats[i].row, seats[i].snum, cmd[c])

Missing(e) == Hall(e) \ Places(e)
MissingBefore(k) == {p \in Missing(k.event) : IsBefore(p[1], p[2], k)}

FewAreMissing ==
  /\ \A e \in created : Cardinality(Missing(e)) <= faults
  /\ \A c \in Clients : Creating(c) => Cardinality(MissingBefore(cmd[c])) <= faults

EventsInv ==
  /\ TypeOK
  /\ BoundsAreKept
  /\ LoopsAreInTheHall
  /\ EventsHaveOneCreator
  /\ SeatsAreInTheirHalls
  /\ PlacesAreSoldOnce
  /\ SeatsComeInOrder
  /\ FewAreMissing
-----------------------------------------------------------------------------
(* Halls and their places                                                  *)

\* The rows of the two tables.
EventRow == [organizer : Clients, total_rows : 1 .. MAX_SEAT_ROWS,
             seats_per_row : 1 .. MAX_SEATS_PER_ROW, is_deleted : BOOLEAN]
SeatRow == [event : 1 .. MaxEvents, row : 0 .. MAX_SEAT_ROWS - 1,
            snum : 1 .. MAX_SEATS_PER_ROW, booked : BOOLEAN, indexed : BOOLEAN]

(* The type invariant, a table at a time.                                  *)
LEMMA TypeOfTables ==
  /\ TypeOK <=> /\ events \in Seq(EventRow) /\ seats \in Seq(SeatRow) /\ created \subseteq DOMAIN events
                /\ extras \in 0 .. MaxExtras /\ faults \in 0 .. MaxExtras
  /\ TypeOK' <=> /\ events' \in Seq(EventRow) /\ seats' \in Seq(SeatRow) /\ created' \subseteq DOMAIN events'
                 /\ extras' \in 0 .. MaxExtras /\ faults' \in 0 .. MaxExtras
BY DEF TypeOK, EventRow, SeatRow

(* What Places collects.                                                   *)
LEMMA PlacesOf ==
  ASSUME TypeOK, NEW e
  PROVE  \A p : p \in Places(e) <=>
           \E i \in 1 .. Len(seats) : seats[i].event = e /\ p = <<seats[i].row, seats[i].snum>>
<1>1. DOMAIN seats = 1 .. Len(seats)
  BY DEF TypeOK
<1> QED BY <1>1 DEF Places, Hits

(* A hall is a finite set of places.                                       *)
LEMMA HallIsFinite ==
  ASSUME TypeOK, NEW e \in 1 .. Len(events)
  PROVE  /\ events[e].total_rows \in Nat /\ events[e].seats_per_row \in Nat
         /\ \A row, snum : <<row, snum>> \in Hall(e) <=>
                row \in 0 .. events[e].total_rows - 1 /\ snum \in 1 .. events[e].seats_per_row
         /\ IsFiniteSet(Hall(e)) /\ IsFiniteSet(Missing(e))
<1>1. events[e].total_rows \in Nat /\ events[e].seats_per_row \in Nat
  <2>1. events[e] \in EventRow
    BY TypeOfTables
  <2> QED BY <2>1, BoundsAssumption DEF EventRow
<1>2. IsFiniteSet(0 .. events[e].total_rows - 1) /\ IsFiniteSet(1 .. events[e].seats_per_row)
  <2>1. 0 \in Int /\ 1 \in Int /\ events[e].total_rows - 1 \in Int /\ events[e].seats_per_row \in Int
    BY <1>1
  <2> QED BY <2>1, FS_Interval
<1>3. IsFiniteSet(Hall(e))
  BY <1>2, FS_Product DEF Hall
<1>4. IsFiniteSet(Missing(e))
  BY <1>3, FS_Subset DEF Missing
<1> QED BY <1>1, <1>3, <1>4 DEF Hall

(* The places missing before a point of the seat loop.                     *)
LEMMA MissingIsFinite ==
  ASSUME TypeOK, NEW k, k.event \in 1 .. Len(events)
  PROVE  IsFiniteSet(MissingBefore(k)) /\ MissingBefore(k) \subseteq Missing(k.event)
<1>1. MissingBefore(k) \subseteq Missing(k.event)
  BY DEF MissingBefore
<1> QED BY <1>1, HallIsFinite, FS_Subset

-----------------------------------------------------------------------------
(* Steps                                                                   *)

\* Two lists of rows that differ at most in their flags.
SameHalls(s, t) ==
  /\ Len(s) = Len(t)
  /\ \A e \in 1 .. Len(s) : s[e].total_rows = t[e].total_rows /\ s[e].seats_per_row = t[e].seats_per_row
SamePlaces(s, t) == Len(s) = Len(t) /\ \A i \in 1 .. Len(s) : SamePlace(s[i], t[i])

(* A step that creates nothing: events may be marked as deleted and seats  *)
(* as booked, but halls, places and the loops under way stay.              *)
LEMMA QuietStep ==
  ASSUME EventsInv, TypeOK', BoundsAreKept', SameHalls(events', events), SamePlaces(seats', seats),
         created' = created, faults' = faults,
         \A c \in Clients : Creating(c)' => Creating(c) /\ cmd'[c] = cmd[c]
  PROVE  EventsInv'
<1>a. /\ TypeOK /\ BoundsAreKept /\ LoopsAreInTheHall /\ EventsHaveOneCreator /\ SeatsAreInTheirHalls
      /\ PlacesAreSoldOnce /\ SeatsComeInOrder /\ FewAreMissing
  BY DEF EventsInv
<1>1. LoopsAreInTheHall'
  BY <1>a DEF LoopsAreInTheHall, SameHalls
<1>2. EventsHaveOneCreator'
  BY <1>a DEF EventsHaveOneCreator
<1>3. SeatsAreInTheirHalls'
  BY <1>a DEF SeatsAreInTheirHalls, SameHalls, SamePlaces, SamePlace
<1>4. PlacesAreSoldOnce'
  BY <1>a DEF PlacesAreSoldOnce, SamePlaces, SamePlace
<1>5. SeatsComeInOrder'
  BY <1>a DEF SeatsComeInOrder, SamePlaces, SamePlace, IsBefore
<1>6. \A e \in 1 .. Len(events) : Missing(e)' = Missing(e)
  <2> TAKE e \in 1 .. Len(events)
  <2>1. Hall(e)' = Hall(e)
    BY DEF Hall, SameHalls
  <2>2. \A p : p \in Places(e)' <=>
          \E i \in 1 .. Len(seats') : seats'[i].event = e /\ p = <<seats'[i].row, seats'[i].snum>>
    <3>1. DOMAIN seats' = 1 .. Len(seats')
      BY DEF TypeOK
    <3> QED BY <3>1 DEF Places, Hits
  <2>3. \A p : p \in Places(e) <=>
          \E i \in 1 .. Len(seats) : seats[i].event = e /\ p = <<seats[i].row, seats[i].snum>>
    BY <1>a, PlacesOf
  <2>4. \A p : p \in Places(e)' <=> p \in Places(e)
    BY <2>2, <2>3 DEF SamePlaces, SamePlace
  <2> QED BY <2>1, <2>4 DEF Missing
<1>7. FewAreMissing'
  <2>1. \A e \in created' : Cardinality(Missing(e)') <= faults'
    <3>1. created \subseteq 1 .. Len(events)
      BY <1>a, TypeOfTables
    <3> QED BY <1>a, <1>6, <3>1 DEF FewAreMissing
  <2>2. ASSUME NEW c \in Clients, Creating(c)' PROVE Cardinality(MissingBefore(cmd[c])') <= faults'
    <3>1. Creating(c) /\ cmd'[c] = cmd[c] /\ cmd[c].event \in 1 .. Len(events)
      BY <1>a, <2>2 DEF LoopsAreInTheHall
    <3>2. MissingBefore(cmd[c])' = MissingBefore(cmd[c])
      BY <1>6, <3>1 DEF MissingBefore, IsBefore
    <3> QED BY <1>a, <3>1, <3>2 DEF FewAreMissing
  <2> QED BY <2>1, <2>2 DEF FewAreMissing
<1> QED BY <1>1, <1>2, <1>3, <1>4, <1>5, <1>7 DEF EventsInv

(* CREATE_EVENT adds the event row: the id is new, so there are no seats   *)
(* and no other creation for it.                                           *)
LEMMA CreateEventStep ==
  ASSUME EventsInv, NEW c \in Clients, NEW r \in RowArgs, NEW q \in SeatArgs, CreateEvent(c, r, q)
  PROVE  EventsInv'
<1> DEFINE n == Len(events) + 1
           k == [name |-> "create", event |-> n, row |-> 0, snum |-> 1]
           evt == [organizer |-> c, total_rows |-> uint16(r), seats_per_row |-> uint16(q), is_deleted |-> FALSE]
<1>a. /\ TypeOK /\ BoundsAreKept /\ LoopsAreInTheHall /\ EventsHaveOneCreator /\ SeatsAreInTheirHalls
      /\ PlacesAreSoldOnce /\ SeatsComeInOrder /\ FewAreMissing
  BY DEF EventsInv
<1>b. /\ Len(events) < MaxEvents /\ ValidHall(uint16(r), uint16(q))
      /\ events' = Append(events, evt) /\ cmd' = [cmd EXCEPT ![c] = k]
      /\ UNCHANGED <<seats, created, extras, faults>>
  BY DEF CreateEvent
<1>c. /\ events \in Seq(EventRow) /\ seats \in Seq(SeatRow) /\ Len(events) \in Nat
      /\ created \subseteq 1 .. Len(events) /\ extras \in 0 .. MaxExtras /\ faults \in 0 .. MaxExtras
  BY <1>a, TypeOfTables
<1>d. evt \in EventRow /\ evt.seats_per_row \in Nat /\ evt.seats_per_row >= 1
  BY <1>b, BoundsAssumption DEF ValidHall, EventRow
<1> HIDE DEF evt
<1>e. /\ events' \in Seq(EventRow) /\ Len(events') = n /\ events'[n] = evt
      /\ \A e \in 1 .. Len(events) : e \in 1 .. Len(events') /\ events'[e] = events[e]
  BY <1>b, <1>c, <1>d
<1>f. k.name = "create" /\ k.event = n /\ k.row = 0 /\ k.snum = 1
  OBVIOUS
<1>g. k \in [name : {"create"}, event : Nat, row : Nat, snum : Nat]
  BY <1>c
<1> HIDE DEF k
<1>h. cmd'[c] = k /\ \A d \in Clients : d # c => cmd'[d] = cmd[d]
  BY <1>a, <1>b DEF BoundsAreKept
<1>1. TypeOK'
  <2>1. created' \subseteq DOMAIN events'
    BY <1>b, <1>c, <1>e
  <2> QED BY <1>b, <1>c, <1>e, <2>1, TypeOfTables
<1>2. BoundsAreKept'
  <2>1. \A d \in Clients : Reporting(d)' => "name" \in DOMAIN cmd'[d]
    BY <1>a, <1>f, <1>h DEF BoundsAreKept, Reporting
  <2>2. Len(events') <= MaxEvents
    BY <1>b, <1>c, <1>e, BoundsAssumption
  <2>3. DOMAIN cmd' = Clients /\ cmd' = [d \in Clients |-> cmd'[d]]
    BY <1>a, <1>b DEF BoundsAreKept
  <2> QED BY <1>a, <1>b, <2>1, <2>2, <2>3 DEF BoundsAreKept
<1>3. \A d \in Clients : d # c => (Creating(d)' <=> Creating(d))
  BY <1>h DEF Creating
<1>4. LoopsAreInTheHall'
  <2> SUFFICES ASSUME NEW d \in Clients, Creating(d)'
               PROVE  /\ cmd'[d].event \in 1 .. Len(events') /\ cmd'[d].event \notin created'
                      /\ At(cmd'[d], events'[cmd'[d].event].total_rows, events'[cmd'[d].event].seats_per_row)
    BY DEF LoopsAreInTheHall
  <2>1. CASE d = c
    <3>1. n \notin created' /\ n \in 1 .. Len(events')
      BY <1>b, <1>c, <1>e
    <3>2. At(k, evt.total_rows, evt.seats_per_row)
      BY <1>d, <1>f, <1>g, BoundsAssumption DEF At, EventRow
    <3> QED BY <1>e, <1>f, <1>h, <2>1, <3>1, <3>2
  <2>2. CASE d # c
    BY <1>a, <1>b, <1>e, <1>h, <1>3, <2>2 DEF LoopsAreInTheHall
  <2> QED BY <2>1, <2>2
<1>5. EventsHaveOneCreator'
  <2>1. \A d \in Clients : d # c /\ Creating(d)' => cmd'[d].event # n
    BY <1>a, <1>c, <1>h, <1>3 DEF LoopsAreInTheHall
  <2> QED BY <1>a, <1>f, <1>h, <1>3, <2>1 DEF EventsHaveOneCreator
<1>6. SeatsAreInTheirHalls'
  BY <1>a, <1>b, <1>e DEF SeatsAreInTheirHalls
<1>7. PlacesAreSoldOnce'
  BY <1>a, <1>b DEF PlacesAreSoldOnce
<1>8. \A i \in 1 .. Len(seats) : seats[i].event # n
  BY <1>a, <1>c DEF SeatsAreInTheirHalls
<1>9. SeatsComeInOrder'
  BY <1>a, <1>b, <1>f, <1>h, <1>3, <1>8 DEF SeatsComeInOrder
<1>10. \A e \in 1 .. Len(events) : Missing(e)' = Missing(e)
  BY <1>b, <1>e DEF Missing, Hall, Places, Hits
<1>11. FewAreMissing'
  <2>1. \A e \in created' : Cardinality(Missing(e)') <= faults'
    BY <1>a, <1>b, <1>c, <1>10 DEF FewAreMissing
  <2>2. ASSUME NEW d \in Clients, Creating(d)' PROVE Cardinality(MissingBefore(cmd[d])') <= faults'
    <3>1. CASE d = c
      <4>1. MissingBefore(cmd[c])' \subseteq {}
        <5>1. PICK m : m = Len(events) + 1
          OBVIOUS
        <5>2. Hall(m)' = (0 .. evt.total_rows - 1) \X (1 .. evt.seats_per_row)
          BY <1>e, <5>1 DEF Hall
        <5>3. cmd'[c].event = m
          BY <1>f, <1>h, <5>1
        <5>4. ASSUME NEW p \in MissingBefore(cmd[c])' PROVE FALSE
          <6>1. p \in Hall(m)' /\ IsBefore(p[1], p[2], cmd'[c])
            BY <5>3, <5>4 DEF MissingBefore, Missing, IsBefore
          <6>2. p[1] \in 0 .. evt.total_rows - 1 /\ p[2] \in 1 .. evt.seats_per_row
            BY <5>2, <6>1
          <6>3. p[1] \in Int /\ 0 <= p[1] /\ p[2] \in Int /\ 1 <= p[2]
            BY <6>2
          <6> QED BY <1>f, <1>h, <6>1, <6>3 DEF IsBefore
        <5> QED BY <5>4
      <4>2. Cardinality(MissingBefore(cmd[c])') = 0
        BY <4>1, FS_EmptySet
      <4> QED BY <1>b, <1>c, <3>1, <4>2, BoundsAssumption
    <3>2. CASE d # c
      <4>1. Creating(d) /\ cmd'[d] = cmd[d] /\ cmd[d].event \in 1 .. Len(events)
        BY <1>a, <1>h, <1>3, <2>2, <3>2 DEF LoopsAreInTheHall
      <4>2. MissingBefore(cmd[d])' = MissingBefore(cmd[d])
        BY <1>10, <4>1 DEF MissingBefore, IsBefore
      <4> QED BY <1>a, <1>b, <4>1, <4>2 DEF FewAreMissing
    <3> QED BY <3>1, <3>2
  <2> QED BY <2>1, <2>2 DEF FewAreMissing
<1> QED BY <1>1, <1>2, <1>4, <1>5, <1>6, <1>7, <1>9, <1>11 DEF EventsInv

(* The seat loop moves to the next place of the hall: what is before it    *)
(* then is what was before it, and the place it was at.                    *)
LEMMA NextSeatMoves ==
  ASSUME NEW evt, NEW rows \in Nat, evt.seats_per_row \in Nat, NEW k, At(k, rows, evt.seats_per_row), k.row < rows
  PROVE  LET n == NextSeat(k, evt)
         IN  /\ At(n, rows, evt.seats_per_row) /\ n.event = k.event /\ n.name = "create"
             /\ \A row \in Nat, snum \in 1 .. evt.seats_per_row :
                  IsBefore(row, snum, n) <=> IsBefore(row, snum, k) \/ (row = k.row /\ snum = k.snum)
<1> DEFINE n == NextSeat(k, evt)
<1>1. /\ k \in [name : {"create"}, event : Nat, row : Nat, snum : Nat]
      /\ k.row \in Nat /\ k.snum \in Nat /\ k.snum >= 1 /\ k.snum <= evt.seats_per_row
  BY DEF At
<1>2. CASE k.snum < evt.seats_per_row
  <2>1. /\ n \in [name : {"create"}, event : Nat, row : Nat, snum : Nat]
        /\ n.name = "create" /\ n.event = k.event /\ n.row = k.row /\ n.snum = k.snum + 1
    BY <1>1, <1>2 DEF NextSeat
  <2> HIDE DEF n
  <2>2. At(n, rows, evt.seats_per_row)
    BY <1>1, <1>2, <2>1 DEF At
  <2>3. \A row \in Nat, snum \in 1 .. evt.seats_per_row :
          IsBefore(row, snum, n) <=> IsBefore(row, snum, k) \/ (row = k.row /\ snum = k.snum)
    BY <1>1, <2>1 DEF IsBefore
  <2> QED BY <2>1, <2>2, <2>3 DEF n
<1>3. CASE ~(k.snum < evt.seats_per_row)
  <2>1. /\ n \in [name : {"create"}, event : Nat, row : Nat, snum : Nat]
        /\ n.name = "create" /\ n.event = k.event /\ n.row = k.row + 1 /\ n.snum = 1
    <3>1. n = [k EXCEPT !.row = k.row + 1, !.snum = 1]
      BY <1>3 DEF NextSeat
    <3>2. 1 \in Nat /\ k.row + 1 \in Nat
      BY <1>1
    <3> HIDE DEF n
    <3> QED BY <1>1, <3>1, <3>2
  <2> HIDE DEF n
  <2>2. At(n, rows, evt.seats_per_row)
    BY <1>1, <2>1 DEF At
  <2>3. k.snum = evt.seats_per_row
    BY <1>1, <1>3
  <2>4. \A row \in Nat, snum \in 1 .. evt.seats_per_row :
          IsBefore(row, snum, n) <=> IsBefore(row, snum, k) \/ (row = k.row /\ snum = k.snum)
    BY <1>1, <2>1, <2>3 DEF IsBefore
  <2> QED BY <2>1, <2>2, <2>4 DEF n
<1> QED BY <1>2, <1>3

(* A place is inserted at most once: the seats of the event so far are all *)
(* before it.  One that fails makes one place more that is missing.        *)
LEMMA InsertSeatStep ==
  ASSUME EventsInv, NEW c \in Clients, NEW outcome \in {"ok", "nothing", "row"}, InsertSeat(c, outcome)
  PROVE  EventsInv'
<1>a. /\ TypeOK /\ BoundsAreKept /\ LoopsAreInTheHall /\ EventsHaveOneCreator /\ SeatsAreInTheirHalls
      /\ PlacesAreSoldOnce /\ SeatsComeInOrder /\ FewAreMissing
  BY DEF EventsInv
<1>k. PICK k : k = cmd[c]
  OBVIOUS
<1>v. PICK evt : evt = events[k.event]
  OBVIOUS
<1>n. PICK n : n = NextSeat(k, evt)
  OBVIOUS
<1>q. PICK indexed \in BOOLEAN : indexed = (outcome = "ok")
  <2>1. (outcome = "ok") \in BOOLEAN
    BY SMT
  <2> QED BY <2>1, Zenon
<1>r. PICK fails \in BOOLEAN : fails <=> outcome = "nothing"
  OBVIOUS
<1>s. PICK s : s = [event |-> k.event, row |-> k.row, snum |-> k.snum, booked |-> FALSE, indexed |-> indexed]
  OBVIOUS
<1>b. /\ Creating(c) /\ k.row < evt.total_rows
      /\ faults' = faults \/ (faults' = faults + 1 /\ faults + extras < MaxExtras)
      /\ fails => faults' = faults + 1
      /\ seats' = (IF fails THEN seats ELSE Append(seats, s))
      /\ cmd' = [cmd EXCEPT ![c] = n] /\ UNCHANGED <<events, created, extras>>
  <2>1. /\ Creating(c) /\ k.row < evt.total_rows
        /\ cmd' = [cmd EXCEPT ![c] = n] /\ UNCHANGED <<events, created, extras>>
    BY <1>a, <1>k, <1>v, <1>n DEF InsertSeat, BoundsAreKept
  <2>2. /\ faults' = faults \/ (faults' = faults + 1 /\ faults + extras < MaxExtras)
        /\ fails => faults' = faults + 1
    BY <1>r DEF InsertSeat
  <2>3. seats' = IF outcome = "nothing" THEN seats
                 ELSE Append(seats, [event |-> k.event, row |-> k.row, snum |-> k.snum,
                                     booked |-> FALSE, indexed |-> outcome = "ok"])
    BY <1>k DEF InsertSeat
  <2>4. seats' = IF outcome = "nothing" THEN seats ELSE Append(seats, s)
    BY <1>q, <1>s, <2>3, Zenon
  <2> QED BY <1>r, <2>1, <2>2, <2>4
<1>c. /\ events \in Seq(EventRow) /\ seats \in Seq(SeatRow) /\ Len(events) \in Nat /\ Len(seats) \in Nat
      /\ created \subseteq 1 .. Len(events) /\ extras \in 0 .. MaxExtras /\ faults \in 0 .. MaxExtras
      /\ created' \subseteq DOMAIN events'
  BY <1>a, <1>b, TypeOfTables
<1>d. /\ k.event \in 1 .. Len(events) /\ k.event \notin created /\ At(k, evt.total_rows, evt.seats_per_row)
      /\ evt \in EventRow
  BY <1>a, <1>b, <1>c, <1>k, <1>v DEF LoopsAreInTheHall
<1>e. /\ evt.total_rows \in Nat /\ evt.total_rows <= MAX_SEAT_ROWS
      /\ evt.seats_per_row \in Nat /\ evt.seats_per_row <= MAX_SEATS_PER_ROW
  BY <1>d, BoundsAssumption DEF EventRow
<1>f. k.row \in Nat /\ k.snum \in Nat /\ 1 <= k.snum /\ k.snum <= evt.seats_per_row
  BY <1>d, <1>e DEF At
<1>g. /\ At(n, evt.total_rows, evt.seats_per_row) /\ n.event = k.event /\ n.name = "create"
      /\ \A row \in Nat, snum \in 1 .. evt.seats_per_row :
           IsBefore(row, snum, n) <=> IsBefore(row, snum, k) \/ (row = k.row /\ snum = k.snum)
  BY <1>b, <1>d, <1>e, <1>n, NextSeatMoves
<1>h. cmd'[c] = n /\ \A d \in Clients : d # c => cmd'[d] = cmd[d]
  BY <1>a, <1>b DEF BoundsAreKept
<1>i. \A d \in Clients : Creating(d)' => Creating(d) /\ cmd'[d].event = cmd[d].event
  BY <1>b, <1>g, <1>h, <1>k DEF Creating
<1>j. s \in SeatRow /\ s.event = k.event /\ s.row = k.row /\ s.snum = k.snum
  <2>1. Len(events) <= MaxEvents
    BY <1>a DEF BoundsAreKept
  <2>2. k.event \in 1 .. MaxEvents /\ k.row \in 0 .. MAX_SEAT_ROWS - 1 /\ k.snum \in 1 .. MAX_SEATS_PER_ROW
    BY <1>b, <1>c, <1>d, <1>e, <1>f, <2>1, BoundsAssumption
  <2> QED BY <1>q, <1>s, <2>2 DEF SeatRow
<1>l. /\ seats' \in Seq(SeatRow) /\ Len(seats') \in Nat
      /\ \A i \in 1 .. Len(seats) : i \in 1 .. Len(seats') /\ seats'[i] = seats[i]
      /\ \A i \in 1 .. Len(seats') : i \in 1 .. Len(seats) \/ (i = Len(seats) + 1 /\ ~fails /\ seats'[i] = s)
      /\ ~fails => \E i \in 1 .. Len(seats') : seats'[i] = s
  <2>1. CASE fails
    BY <1>b, <1>c, <2>1
  <2>2. CASE ~fails
    <3>1. seats' = Append(seats, s)
      BY <1>b, <2>2
    <3>2. seats' \in Seq(SeatRow) /\ Len(seats') = Len(seats) + 1 /\ seats'[Len(seats) + 1] = s
      BY <1>c, <1>j, <3>1
    <3>3. \A i \in 1 .. Len(seats) : seats'[i] = seats[i]
      BY <1>c, <1>j, <3>1
    <3> QED BY <1>c, <2>2, <3>2, <3>3
  <2> QED BY <2>1, <2>2
<1>m. ASSUME NEW i \in 1 .. Len(seats)
      PROVE  seats[i].event \in Nat /\ seats[i].row \in Nat /\ seats[i].snum \in Nat /\ seats[i].snum >= 1
  <2>1. seats[i] \in SeatRow
    BY <1>c
  <2> QED BY <2>1, BoundsAssumption DEF SeatRow
<1>o. ASSUME NEW i \in 1 .. Len(seats), seats[i].event = k.event
      PROVE  IsBefore(seats[i].row, seats[i].snum, k) /\ seats[i].snum \in 1 .. evt.seats_per_row
  <2>1. IsBefore(seats[i].row, seats[i].snum, k)
    BY <1>a, <1>b, <1>k, <1>o DEF SeatsComeInOrder
  <2>2. seats[i].snum <= evt.seats_per_row
    BY <1>a, <1>o, <1>v DEF SeatsAreInTheirHalls
  <2> QED BY <1>e, <1>m, <2>1, <2>2
<1>p. ASSUME NEW i \in 1 .. Len(seats) PROVE ~SamePlace(seats[i], s)
  BY <1>f, <1>j, <1>m, <1>o DEF SamePlace, IsBefore
<1>1. TypeOK'
  <2>1. faults' \in 0 .. MaxExtras /\ extras' \in 0 .. MaxExtras
    BY <1>b, <1>c, BoundsAssumption
  <2> QED BY <1>b, <1>c, <1>l, <2>1, TypeOfTables
<1>2. BoundsAreKept'
  <2>1. \A d \in Clients : Reporting(d)' => "name" \in DOMAIN cmd'[d]
    BY <1>a, <1>g, <1>h DEF BoundsAreKept, Reporting
  <2>2. faults' + extras' <= MaxExtras
    BY <1>a, <1>b, <1>c, BoundsAssumption DEF BoundsAreKept
  <2>3. DOMAIN cmd' = Clients /\ cmd' = [d \in Clients |-> cmd'[d]]
    BY <1>a, <1>b DEF BoundsAreKept
  <2> QED BY <1>a, <1>b, <2>1, <2>2, <2>3 DEF BoundsAreKept
<1>3. LoopsAreInTheHall'
  <2> SUFFICES ASSUME NEW d \in Clients, Creating(d)'
               PROVE  /\ cmd'[d].event \in 1 .. Len(events') /\ cmd'[d].event \notin created'
                      /\ At(cmd'[d], events'[cmd'[d].event].total_rows, events'[cmd'[d].event].seats_per_row)
    BY DEF LoopsAreInTheHall
  <2>1. CASE d = c
    BY <1>b, <1>d, <1>g, <1>h, <1>v, <2>1
  <2>2. CASE d # c
    BY <1>a, <1>b, <1>h, <1>i, <2>2 DEF LoopsAreInTheHall
  <2> QED BY <2>1, <2>2
<1>4. EventsHaveOneCreator'
  BY <1>a, <1>i DEF EventsHaveOneCreator
<1>5. SeatsAreInTheirHalls'
  <2> SUFFICES ASSUME NEW i \in 1 .. Len(seats')
               PROVE  /\ seats'[i].event \in 1 .. Len(events) /\ seats'[i].row < events[seats'[i].event].total_rows
                      /\ seats'[i].snum <= events[seats'[i].event].seats_per_row
    BY <1>b DEF SeatsAreInTheirHalls
  <2>1. CASE i \in 1 .. Len(seats)
    BY <1>a, <1>l, <2>1 DEF SeatsAreInTheirHalls
  <2>2. CASE seats'[i] = s
    BY <1>b, <1>d, <1>f, <1>j, <1>v, <2>2
  <2> QED BY <1>l, <2>1, <2>2
<1>6. PlacesAreSoldOnce'
  <2> SUFFICES ASSUME NEW i \in 1 .. Len(seats'), NEW j \in 1 .. Len(seats'), SamePlace(seats'[i], seats'[j])
               PROVE  i = j
    BY DEF PlacesAreSoldOnce
  <2>1. CASE i \in 1 .. Len(seats) /\ j \in 1 .. Len(seats)
    BY <1>a, <1>l, <2>1 DEF PlacesAreSoldOnce
  <2>2. CASE i \in 1 .. Len(seats) /\ seats'[j] = s
    BY <1>l, <1>p, <2>2
  <2>3. CASE seats'[i] = s /\ j \in 1 .. Len(seats)
    <3>1. SamePlace(seats[j], s)
      BY <1>l, <2>3 DEF SamePlace
    <3> QED BY <1>p, <2>3, <3>1
  <2>4. CASE i = Len(seats) + 1 /\ j = Len(seats) + 1
    BY <2>4
  <2> QED BY <1>l, <2>1, <2>2, <2>3, <2>4
<1>7. SeatsComeInOrder'
  <2> SUFFICES ASSUME NEW d \in Clients, Creating(d)', NEW i \in 1 .. Len(seats'), seats'[i].event = cmd'[d].event
               PROVE  IsBefore(seats'[i].row, seats'[i].snum, cmd'[d])
    BY DEF SeatsComeInOrder, IsBefore
  <2>1. CASE d = c
    <3>1. CASE i \in 1 .. Len(seats)
      <4>1. seats[i].event = k.event /\ seats'[i] = seats[i]
        BY <1>g, <1>h, <1>l, <2>1, <3>1
      <4>2. IsBefore(seats[i].row, seats[i].snum, n)
        BY <1>g, <1>m, <1>o, <3>1, <4>1
      <4> QED BY <1>h, <2>1, <4>1, <4>2
    <3>2. CASE seats'[i] = s
      <4>1. IsBefore(k.row, k.snum, n)
        BY <1>e, <1>f, <1>g
      <4> QED BY <1>h, <1>j, <2>1, <3>2, <4>1
    <3> QED BY <1>l, <3>1, <3>2
  <2>2. CASE d # c
    <3>1. cmd'[d] = cmd[d] /\ Creating(d) /\ cmd[d].event # k.event
      BY <1>a, <1>b, <1>h, <1>i, <1>k, <2>2 DEF EventsHaveOneCreator
    <3>2. i \in 1 .. Len(seats) /\ seats'[i] = seats[i]
      BY <1>j, <1>l, <3>1
    <3> QED BY <1>a, <3>1, <3>2 DEF SeatsComeInOrder
  <2> QED BY <2>1, <2>2
<1>8. \A e \in 1 .. Len(events) : Hall(e)' = Hall(e)
  BY <1>b DEF Hall
<1>9. \A e, p : p \in Places(e)' <=> p \in Places(e) \/ (~fails /\ e = k.event /\ p = <<k.row, k.snum>>)
  <2> TAKE e, p
  <2>1. p \in Places(e)' <=> \E i \in 1 .. Len(seats') : seats'[i].event = e /\ p = <<seats'[i].row, seats'[i].snum>>
    <3>1. DOMAIN seats' = 1 .. Len(seats')
      BY <1>l
    <3> QED BY <3>1 DEF Places, Hits
  <2>2. p \in Places(e) <=> \E i \in 1 .. Len(seats) : seats[i].event = e /\ p = <<seats[i].row, seats[i].snum>>
    BY <1>a, PlacesOf
  <2>3. ASSUME NEW i \in 1 .. Len(seats'), seats'[i].event = e, p = <<seats'[i].row, seats'[i].snum>>
        PROVE  p \in Places(e) \/ (~fails /\ e = k.event /\ p = <<k.row, k.snum>>)
    <3>1. CASE i \in 1 .. Len(seats)
      BY <1>l, <2>2, <2>3, <3>1
    <3>2. CASE ~fails /\ seats'[i] = s
      BY <1>j, <2>3, <3>2
    <3> QED BY <1>l, <3>1, <3>2
  <2>4. ASSUME p \in Places(e) PROVE p \in Places(e)'
    BY <1>l, <2>1, <2>2, <2>4
  <2>5. ASSUME ~fails, e = k.event, p = <<k.row, k.snum>> PROVE p \in Places(e)'
    <3>1. PICK i \in 1 .. Len(seats') : seats'[i] = s
      BY <1>l, <2>5
    <3> QED BY <1>j, <2>1, <2>5, <3>1
  <2> QED BY <2>1, <2>3, <2>4, <2>5
<1>10. \A e \in 1 .. Len(events) : e # k.event => Missing(e)' = Missing(e)
  BY <1>8, <1>9 DEF Missing
<1>11. faults <= faults'
  BY <1>b, <1>c, BoundsAssumption
<1>12. FewAreMissing'
  <2>1. \A e \in created' : Cardinality(Missing(e)') <= faults'
    <3> SUFFICES ASSUME NEW e \in created PROVE Cardinality(Missing(e)') <= faults'
      BY <1>b
    <3>1. e \in 1 .. Len(events) /\ Missing(e)' = Missing(e) /\ Cardinality(Missing(e)) <= faults
      BY <1>a, <1>c, <1>d, <1>10 DEF FewAreMissing
    <3>2. Cardinality(Missing(e)) \in Nat
      BY <1>a, <3>1, HallIsFinite, FS_CardinalityType
    <3> QED BY <1>b, <1>c, <1>11, <3>1, <3>2, BoundsAssumption
  <2>2. ASSUME NEW d \in Clients, Creating(d)' PROVE Cardinality(MissingBefore(cmd[d])') <= faults'
    <3>1. CASE d = c
      <4>1. /\ IsFiniteSet(MissingBefore(k)) /\ Cardinality(MissingBefore(k)) \in Nat
            /\ Cardinality(MissingBefore(k)) <= faults
        BY <1>a, <1>b, <1>d, <1>k, MissingIsFinite, FS_CardinalityType DEF FewAreMissing
      <4>2. ASSUME NEW p \in MissingBefore(cmd[c])'
            PROVE  p \in MissingBefore(k) \/ (fails /\ p = <<k.row, k.snum>>)
        <5>1. p \in Hall(k.event) /\ p \notin Places(k.event)' /\ IsBefore(p[1], p[2], n)
          BY <1>d, <1>g, <1>h, <1>8, <4>2 DEF MissingBefore, Missing, IsBefore
        <5>2. PICK row \in Nat, snum \in 1 .. evt.seats_per_row : p = <<row, snum>>
          BY <1>d, <1>e, <1>v, <5>1 DEF Hall
        <5>3. IsBefore(row, snum, k) \/ (row = k.row /\ snum = k.snum)
          BY <1>g, <5>1, <5>2
        <5>4. p \notin Places(k.event) /\ ~(~fails /\ p = <<k.row, k.snum>>)
          BY <1>9, <5>1
        <5> QED BY <5>1, <5>2, <5>3, <5>4 DEF MissingBefore, Missing
      <4>3. CASE fails
        <5> DEFINE M == MissingBefore(k) \cup {<<k.row, k.snum>>}
        <5>1. IsFiniteSet(M) /\ Cardinality(M) \in Nat /\ Cardinality(M) <= Cardinality(MissingBefore(k)) + 1
          <6> DEFINE B == MissingBefore(k)
          <6>1. IsFiniteSet(B) /\ Cardinality(B) \in Nat /\ M = B \cup {<<k.row, k.snum>>}
            BY <4>1
          <6> HIDE DEF B, M
          <6>2. /\ IsFiniteSet(M)
                /\ Cardinality(M) = IF <<k.row, k.snum>> \in B THEN Cardinality(B) ELSE Cardinality(B) + 1
            BY <6>1, FS_AddElement
          <6>3. Cardinality(M) \in Nat /\ Cardinality(M) <= Cardinality(B) + 1
            BY <6>1, <6>2
          <6> QED BY <6>2, <6>3 DEF B
        <5>2. MissingBefore(cmd[c])' \subseteq M
          BY <4>2
        <5> HIDE DEF M
        <5>3. Cardinality(MissingBefore(cmd[c])') <= Cardinality(M) /\ Cardinality(MissingBefore(cmd[c])') \in Nat
          BY <5>1, <5>2, FS_Subset, FS_CardinalityType
        <5> QED BY <1>b, <1>c, <3>1, <4>1, <4>3, <5>1, <5>3, BoundsAssumption
      <4>4. CASE ~fails
        <5>1. MissingBefore(cmd[c])' \subseteq MissingBefore(k)
          BY <4>2, <4>4
        <5>2. /\ Cardinality(MissingBefore(cmd[c])') <= Cardinality(MissingBefore(k))
              /\ Cardinality(MissingBefore(cmd[c])') \in Nat
          BY <4>1, <5>1, FS_Subset, FS_CardinalityType
        <5> QED BY <1>b, <1>c, <3>1, <4>1, <4>4, <5>2, BoundsAssumption
      <4> QED BY <4>3, <4>4
    <3>2. CASE d # c
      <4>1. /\ Creating(d) /\ cmd'[d] = cmd[d] /\ cmd[d].event \in 1 .. Len(events) /\ cmd[d].event # k.event
        BY <1>a, <1>b, <1>h, <1>i, <1>k, <2>2, <3>2 DEF LoopsAreInTheHall, EventsHaveOneCreator
      <4>2. MissingBefore(cmd[d])' = MissingBefore(cmd[d])
        BY <1>10, <4>1 DEF MissingBefore, IsBefore
      <4>3. Cardinality(MissingBefore(cmd[d])) <= faults /\ Cardinality(MissingBefore(cmd[d])) \in Nat
        BY <1>a, <4>1, MissingIsFinite, FS_CardinalityType DEF FewAreMissing
      <4> QED BY <1>b, <1>c, <1>11, <4>2, <4>3, BoundsAssumption
    <3> QED BY <3>1, <3>2
  <2> QED BY <2>1, <2>2 DEF FewAreMissing
<1> QED BY <1>1, <1>2, <1>3, <1>4, <1>5, <1>6, <1>7, <1>12 DEF EventsInv

(* The answer comes when the loop is past the last row: what is missing    *)
(* before it is all that is missing.                                       *)
LEMMA CreateAnswerStep ==
  ASSUME EventsInv, NEW c \in Clients, CreateAnswer(c)
  PROVE  EventsInv'
<1>a. /\ TypeOK /\ BoundsAreKept /\ LoopsAreInTheHall /\ EventsHaveOneCreator /\ SeatsAreInTheirHalls
      /\ PlacesAreSoldOnce /\ SeatsComeInOrder /\ FewAreMissing
  BY DEF EventsInv
<1>k. PICK k : k = cmd[c]
  OBVIOUS
<1>b. /\ Creating(c) /\ k.row >= events[k.event].total_rows /\ created' = created \cup {k.event}
      /\ cmd' = [cmd EXCEPT ![c] = Idle] /\ UNCHANGED <<events, seats, extras, faults>>
  BY <1>k DEF CreateAnswer
<1>c. /\ k.event \in 1 .. Len(events)
      /\ At(k, events[k.event].total_rows, events[k.event].seats_per_row)
      /\ events[k.event].total_rows \in Nat /\ events[k.event].seats_per_row \in Nat
  BY <1>a, <1>b, <1>k, HallIsFinite DEF LoopsAreInTheHall
<1>d. cmd'[c] = Idle /\ \A d \in Clients : d # c => cmd'[d] = cmd[d]
  BY <1>a, <1>b DEF BoundsAreKept
<1>e. \A d \in Clients : Creating(d)' => d # c /\ Creating(d) /\ cmd'[d] = cmd[d]
  BY <1>d DEF Creating
<1>1. TypeOK'
  <2>1. created' \subseteq DOMAIN events'
    BY <1>a, <1>b, <1>c, TypeOfTables
  <2> QED BY <1>a, <1>b, <2>1, TypeOfTables
<1>2. BoundsAreKept'
  <2>1. \A d \in Clients : Reporting(d)' => "name" \in DOMAIN cmd'[d]
    BY <1>a, <1>d DEF BoundsAreKept, Reporting
  <2>2. DOMAIN cmd' = Clients /\ cmd' = [d \in Clients |-> cmd'[d]]
    BY <1>a, <1>b DEF BoundsAreKept
  <2> QED BY <1>a, <1>b, <2>1, <2>2 DEF BoundsAreKept
<1>3. LoopsAreInTheHall'
  <2>1. \A d \in Clients : Creating(d)' => cmd[d].event # k.event
    BY <1>a, <1>b, <1>e, <1>k DEF EventsHaveOneCreator
  <2> QED BY <1>a, <1>b, <1>e, <2>1 DEF LoopsAreInTheHall
<1>4. EventsHaveOneCreator'
  BY <1>a, <1>e DEF EventsHaveOneCreator
<1>5. SeatsAreInTheirHalls' /\ PlacesAreSoldOnce'
  BY <1>a, <1>b DEF SeatsAreInTheirHalls, PlacesAreSoldOnce
<1>6. SeatsComeInOrder'
  BY <1>a, <1>b, <1>e DEF SeatsComeInOrder
<1>7. \A e : Missing(e)' = Missing(e)
  BY <1>b DEF Missing, Hall, Places, Hits
<1>8. FewAreMissing'
  <2>1. Missing(k.event) = MissingBefore(k)
    <3>1. ASSUME NEW p \in Missing(k.event) PROVE IsBefore(p[1], p[2], k)
      <4>1. p[1] \in 0 .. events[k.event].total_rows - 1
        BY <3>1 DEF Missing, Hall
      <4>2. k.row \in Nat
        BY <1>c DEF At
      <4> QED BY <1>b, <1>c, <4>1, <4>2 DEF IsBefore
    <3> QED BY <3>1 DEF MissingBefore
  <2>2. Cardinality(Missing(k.event)) <= faults
    BY <1>a, <1>b, <1>k, <2>1 DEF FewAreMissing
  <2>3. \A e \in created' : Cardinality(Missing(e)') <= faults'
    BY <1>a, <1>b, <1>7, <2>2 DEF FewAreMissing
  <2>4. ASSUME NEW d \in Clients, Creating(d)' PROVE Cardinality(MissingBefore(cmd[d])') <= faults'
    <3>1. MissingBefore(cmd[d])' = MissingBefore(cmd[d])
      BY <1>e, <1>7, <2>4 DEF MissingBefore, IsBefore
    <3> QED BY <1>a, <1>b, <1>e, <2>4, <3>1 DEF FewAreMissing
  <2> QED BY <2>3, <2>4 DEF FewAreMissing
<1> QED BY <1>1, <1>2, <1>3, <1>4, <1>5, <1>6, <1>8 DEF EventsInv

\* A step in which one read may fail.
MayFail == extras' = extras \/ (extras' = extras + 1 /\ faults + extras < MaxExtras)

(* The steps that create nothing: deletions, bookings and reports.         *)
LEMMA OtherSteps ==
  ASSUME EventsInv,
         \/ \E c \in Clients :
              \/ \E e \in DOMAIN events : DeleteFind(c, e) \/ RevenueOfEvent(c, e)
              \/ DeleteEvent(c) \/ \E unread : RevenueOfOrganizer(c, unread)
              \/ (\E fails \in BOOLEAN : RevenueFind(c, fails)) \/ RevenueScan(c) \/ RevenueAnswer(c)
         \/ \E i \in DOMAIN seats : BookSeat(i)
         \/ UNCHANGED vars
  PROVE  EventsInv'
<1>a. TypeOK /\ BoundsAreKept
  BY DEF EventsInv
<1>b. /\ events \in Seq(EventRow) /\ seats \in Seq(SeatRow) /\ DOMAIN events = 1 .. Len(events)
      /\ DOMAIN seats = 1 .. Len(seats) /\ created \subseteq DOMAIN events
      /\ extras \in 0 .. MaxExtras /\ faults \in 0 .. MaxExtras
  BY <1>a, TypeOfTables
<1>c. ASSUME NEW bad \in BOOLEAN, ReadFails(bad) PROVE MayFail
  BY <1>c DEF ReadFails, MayFail
<1>1. ASSUME UNCHANGED <<events, seats, created, faults>>, MayFail, NEW c \in Clients, NEW k,
             cmd' = [cmd EXCEPT ![c] = k], k # Idle => "name" \in DOMAIN k /\ k.name # "create"
      PROVE  EventsInv'
  <2>1. cmd'[c] = k /\ \A d \in Clients : d # c => cmd'[d] = cmd[d]
    BY <1>a, <1>1 DEF BoundsAreKept
  <2>2. \A d \in Clients : Creating(d)' => Creating(d) /\ cmd'[d] = cmd[d]
    BY <1>1, <2>1 DEF Creating
  <2>3. BoundsAreKept'
    <3>1. \A d \in Clients : Reporting(d)' => "name" \in DOMAIN cmd'[d]
      BY <1>a, <1>1, <2>1 DEF BoundsAreKept, Reporting
    <3>2. DOMAIN cmd' = Clients /\ cmd' = [d \in Clients |-> cmd'[d]]
      BY <1>a, <1>1 DEF BoundsAreKept
    <3>3. faults' + extras' <= MaxExtras
      BY <1>a, <1>b, <1>1, BoundsAssumption DEF BoundsAreKept, MayFail
    <3> QED BY <1>a, <1>1, <3>1, <3>2, <3>3 DEF BoundsAreKept
  <2>4. TypeOK'
    <3>1. extras' \in 0 .. MaxExtras
      BY <1>b, <1>1, BoundsAssumption DEF MayFail
    <3> QED BY <1>a, <1>1, <3>1, TypeOfTables
  <2>5. SameHalls(events', events) /\ SamePlaces(seats', seats)
    BY <1>1 DEF SameHalls, SamePlaces, SamePlace
  <2> QED BY <1>1, <2>2, <2>3, <2>4, <2>5, QuietStep
<1>2. ASSUME NEW c \in Clients, NEW e \in DOMAIN events, DeleteFind(c, e) PROVE EventsInv'
  <2>1. PICK k : k = [name |-> "delete", event |-> e]
    OBVIOUS
  <2>2. "name" \in DOMAIN k /\ k.name # "create"
    BY <2>1
  <2>3. cmd' = [cmd EXCEPT ![c] = k] /\ UNCHANGED <<events, seats, created, faults>> /\ MayFail
    BY <1>2, <2>1 DEF DeleteFind, MayFail
  <2> QED BY <1>1, <2>2, <2>3
<1>3. ASSUME NEW todo PROVE "name" \in DOMAIN Report(todo) /\ Report(todo).name # "create"
  BY DEF Report
<1>4. ASSUME NEW c \in Clients, NEW e \in DOMAIN events, RevenueOfEvent(c, e) PROVE EventsInv'
  <2>1. PICK k : k = Report(<<e>>)
    OBVIOUS
  <2>2. "name" \in DOMAIN k /\ k.name # "create"
    BY <1>3, <2>1
  <2>3. cmd' = [cmd EXCEPT ![c] = k] /\ UNCHANGED <<events, seats, created, faults>> /\ MayFail
    BY <1>4, <2>1 DEF RevenueOfEvent, MayFail
  <2> QED BY <1>1, <2>2, <2>3
<1>5. ASSUME NEW c \in Clients, NEW unread, RevenueOfOrganizer(c, unread) PROVE EventsInv'
  <2>1. PICK own : cmd' = [cmd EXCEPT ![c] = Report(own)]
    BY <1>5 DEF RevenueOfOrganizer
  <2>2. PICK k : k = Report(own)
    OBVIOUS
  <2>3. "name" \in DOMAIN k /\ k.name # "create"
    BY <1>3, <2>2
  <2>4. UNCHANGED <<events, seats, created, faults>> /\ MayFail
    <3>1. ReadFails(unread # {})
      BY <1>5, Zenon DEF RevenueOfOrganizer
    <3>2. MayFail
      BY <3>1 DEF ReadFails, MayFail
    <3> QED BY <1>5, <3>2 DEF RevenueOfOrganizer
  <2> QED BY <1>1, <2>1, <2>2, <2>3, <2>4
<1>6. ASSUME NEW c \in Clients, NEW fails \in BOOLEAN, RevenueFind(c, fails) PROVE EventsInv'
  <2>1. "name" \in DOMAIN cmd[c] /\ cmd[c].name = "report"
    BY <1>a, <1>6 DEF RevenueFind, BoundsAreKept, Reporting
  <2>2. PICK e : e = Head(cmd[c].todo)
    OBVIOUS
  <2>3. PICK k : k = IF fails \/ events[e].is_deleted THEN [cmd[c] EXCEPT !.todo = Tail(cmd[c].todo)]
                     ELSE [cmd[c] EXCEPT !.found = TRUE, !.complete = e \in created]
    OBVIOUS
  <2>4. "name" \in DOMAIN k /\ k.name # "create"
    BY <2>1, <2>3
  <2>5. cmd' = [cmd EXCEPT ![c] = k] /\ UNCHANGED <<events, seats, created, faults>> /\ MayFail
    <3>1. UNCHANGED <<events, seats, created, faults>> /\ MayFail
      BY <1>6, <1>c DEF RevenueFind
    <3>2. cmd' = [cmd EXCEPT ![c] = IF fails \/ events[e].is_deleted THEN [cmd[c] EXCEPT !.todo = Tail(cmd[c].todo)]
                                    ELSE [cmd[c] EXCEPT !.found = TRUE, !.complete = e \in created]]
      BY <1>6, <2>2 DEF RevenueFind
    <3> QED BY <2>3, <3>1, <3>2
  <2> QED BY <1>1, <2>4, <2>5
<1>7. ASSUME NEW c \in Clients, RevenueScan(c) PROVE EventsInv'
  <2>1. PICK k : k = Report(Tail(cmd[c].todo))
    OBVIOUS
  <2>2. "name" \in DOMAIN k /\ k.name # "create"
    BY <1>3, <2>1
  <2>3. cmd' = [cmd EXCEPT ![c] = k] /\ UNCHANGED <<events, seats, created, faults>> /\ MayFail
    <3>1. PICK unread : ReadFails(unread # {})
      BY <1>7 DEF RevenueScan
    <3>2. MayFail
      BY <3>1 DEF ReadFails, MayFail
    <3> QED BY <1>a, <1>7, <2>1, <3>2 DEF RevenueScan, BoundsAreKept
  <2> QED BY <1>1, <2>2, <2>3
<1>8. ASSUME NEW c \in Clients, RevenueAnswer(c) PROVE EventsInv'
  <2>1. cmd' = [cmd EXCEPT ![c] = Idle] /\ UNCHANGED <<events, seats, created, faults>> /\ MayFail
    BY <1>8 DEF RevenueAnswer, MayFail
  <2> QED BY <1>1, <2>1
<1>9. ASSUME NEW c \in Clients, DeleteEvent(c) PROVE EventsInv'
  <2>1. PICK x : x = cmd[c].event
    OBVIOUS
  <2>2. /\ events' = [events EXCEPT ![x].is_deleted = TRUE] /\ cmd' = [cmd EXCEPT ![c] = Idle]
        /\ UNCHANGED <<seats, created, extras, faults>>
    BY <1>9, <2>1 DEF DeleteEvent
  <2>3. /\ events' \in Seq(EventRow) /\ Len(events') = Len(events) /\ DOMAIN events' = DOMAIN events
        /\ \A e \in 1 .. Len(events) : /\ events'[e].total_rows = events[e].total_rows
                                       /\ events'[e].seats_per_row = events[e].seats_per_row
    <3>1. CASE x \in 1 .. Len(events)
      <4>1. events[x] \in EventRow
        BY <1>b, <3>1
      <4>2. PICK v : v = [events[x] EXCEPT !.is_deleted = TRUE]
        OBVIOUS
      <4>3. v \in EventRow /\ v.total_rows = events[x].total_rows /\ v.seats_per_row = events[x].seats_per_row
        BY <4>1, <4>2 DEF EventRow
      <4>4. events' = [events EXCEPT ![x] = v]
        BY <2>2, <4>2
      <4>5. events' \in Seq(EventRow) /\ Len(events') = Len(events) /\ DOMAIN events' = DOMAIN events
        BY <1>b, <3>1, <4>3, <4>4
      <4>6. \A e \in 1 .. Len(events) : events'[e] = IF e = x THEN v ELSE events[e]
        BY <1>b, <4>4
      <4> QED BY <4>3, <4>5, <4>6
    <3>2. CASE x \notin 1 .. Len(events)
      <4>1. events' = events
        BY <1>b, <2>2, <3>2
      <4> QED BY <1>b, <4>1
    <3> QED BY <3>1, <3>2
  <2>4. cmd'[c] = Idle /\ \A d \in Clients : d # c => cmd'[d] = cmd[d]
    BY <1>a, <2>2 DEF BoundsAreKept
  <2>5. \A d \in Clients : Creating(d)' => Creating(d) /\ cmd'[d] = cmd[d]
    BY <2>4 DEF Creating
  <2>6. BoundsAreKept'
    <3>1. \A d \in Clients : Reporting(d)' => "name" \in DOMAIN cmd'[d]
      BY <1>a, <2>4 DEF BoundsAreKept, Reporting
    <3>2. DOMAIN cmd' = Clients /\ cmd' = [d \in Clients |-> cmd'[d]]
      BY <1>a, <2>2 DEF BoundsAreKept
    <3> QED BY <1>a, <2>2, <2>3, <3>1, <3>2 DEF BoundsAreKept
  <2>7. TypeOK'
    BY <1>b, <2>2, <2>3, TypeOfTables
  <2>8. SameHalls(events', events) /\ SamePlaces(seats', seats)
    BY <2>2, <2>3 DEF SameHalls, SamePlaces, SamePlace
  <2> QED BY <2>2, <2>5, <2>6, <2>7, <2>8, QuietStep
<1>10. ASSUME NEW i \in DOMAIN seats, BookSeat(i) PROVE EventsInv'
  <2>1. /\ seats' = [seats EXCEPT ![i].booked = TRUE] /\ extras' = extras + 1 /\ faults + extras < MaxExtras
        /\ UNCHANGED <<events, cmd, created, faults>>
    BY <1>10 DEF BookSeat
  <2>2. PICK v : v = [seats[i] EXCEPT !.booked = TRUE]
    OBVIOUS
  <2>3. seats[i] \in SeatRow
    BY <1>b, <1>10
  <2>4. v \in SeatRow /\ SamePlace(v, seats[i])
    BY <2>2, <2>3 DEF SeatRow, SamePlace
  <2>5. seats' = [seats EXCEPT ![i] = v]
    BY <2>1, <2>2
  <2>6. seats' \in Seq(SeatRow) /\ Len(seats') = Len(seats)
    BY <1>b, <1>10, <2>4, <2>5
  <2>7. \A j \in 1 .. Len(seats) : seats'[j] = IF j = i THEN v ELSE seats[j]
    BY <1>b, <2>5
  <2>8. TypeOK'
    <3>1. extras' \in 0 .. MaxExtras
      BY <1>b, <2>1, BoundsAssumption
    <3> QED BY <1>b, <2>1, <2>6, <3>1, TypeOfTables
  <2>9. BoundsAreKept'
    <3>1. faults' + extras' <= MaxExtras
      BY <1>b, <2>1, BoundsAssumption
    <3> QED BY <1>a, <2>1, <3>1 DEF BoundsAreKept, Reporting
  <2>10. SameHalls(events', events) /\ SamePlaces(seats', seats)
    BY <2>1, <2>4, <2>6, <2>7 DEF SameHalls, SamePlaces, SamePlace
  <2>11. \A d \in Clients : Creating(d)' => Creating(d) /\ cmd'[d] = cmd[d]
    BY <2>1 DEF Creating
  <2> QED BY <2>1, <2>8, <2>9, <2>10, <2>11, QuietStep
<1>11. ASSUME UNCHANGED vars PROVE EventsInv'
  <2>1. /\ UNCHANGED <<events, seats, cmd, created, extras, faults>>
    BY <1>11 DEF vars
  <2>2. TypeOK' /\ BoundsAreKept'
    BY <1>a, <2>1 DEF TypeOK, BoundsAreKept, Reporting
  <2>3. SameHalls(events', events) /\ SamePlaces(seats', seats)
    BY <2>1 DEF SameHalls, SamePlaces, SamePlace
  <2>4. \A d \in Clients : Creating(d)' => Creating(d) /\ cmd'[d] = cmd[d]
    BY <2>1 DEF Creating
  <2> QED BY <2>1, <2>2, <2>3, <2>4, QuietStep
<1> QED BY <1>2, <1>4, <1>5, <1>6, <1>7, <1>8, <1>9, <1>10, <1>11
-----------------------------------------------------------------------------
(* Theorems                                                                *)

(* There are no events at first.                                           *)
LEMMA InitEventsInv ==
  ASSUME Init PROVE EventsInv
<1>1. /\ events = <<>> /\ seats = <<>> /\ created = {} /\ extras = 0 /\ faults = 0
      /\ cmd = [c \in Clients |-> Idle]
  BY DEF Init
<1>2. events \in Seq(EventRow) /\ seats \in Seq(SeatRow) /\ Len(events) = 0 /\ Len(seats) = 0
  BY <1>1
<1>3. TypeOK
  BY <1>1, <1>2, TypeOfTables, BoundsAssumption
<1>4. \A c \in Clients : ~Creating(c) /\ ~Reporting(c)
  BY <1>1 DEF Creating, Reporting
<1>5. BoundsAreKept
  BY <1>1, <1>2, <1>4, BoundsAssumption DEF BoundsAreKept
<1>6. SeatsAreInTheirHalls /\ PlacesAreSoldOnce
  BY <1>2 DEF SeatsAreInTheirHalls, PlacesAreSoldOnce
<1>7. LoopsAreInTheHall /\ EventsHaveOneCreator /\ SeatsComeInOrder /\ FewAreMissing
  BY <1>1, <1>4 DEF LoopsAreInTheHall, EventsHaveOneCreator, SeatsComeInOrder, FewAreMissing
<1> QED BY <1>3, <1>5, <1>6, <1>7 DEF EventsInv

(* Every step keeps the invariant.                                         *)
LEMMA NextEventsInv ==
  ASSUME EventsInv, [Next]_vars PROVE EventsInv'
<1>1. ASSUME NEW c \in Clients, NEW r \in RowArgs, NEW q \in SeatArgs, CreateEvent(c, r, q) PROVE EventsInv'
  BY <1>1, CreateEventStep
<1>2. ASSUME NEW c \in Clients, NEW outcome \in {"ok", "nothing", "row"}, InsertSeat(c, outcome)
      PROVE  EventsInv'
  BY <1>2, InsertSeatStep
<1>3. ASSUME NEW c \in Clients, CreateAnswer(c) PROVE EventsInv'
  BY <1>3, CreateAnswerStep
<1>4. ASSUME \/ \E c \in Clients :
                  \/ \E e \in DOMAIN events : DeleteFind(c, e) \/ RevenueOfEvent(c, e)
                  \/ DeleteEvent(c) \/ \E unread : RevenueOfOrganizer(c, unread)
                  \/ (\E fails \in BOOLEAN : RevenueFind(c, fails)) \/ RevenueScan(c) \/ RevenueAnswer(c)
             \/ \E i \in DOMAIN seats : BookSeat(i)
             \/ UNCHANGED vars
      PROVE  EventsInv'
  BY <1>4, OtherSteps
<1> QED BY <1>1, <1>2, <1>3, <1>4 DEF Next

(* event_mgr_create_event: the seat loops of concurrent creations stay in  *)
(* their halls, each with an event of its own, and every place they have   *)
(* passed has one seat, but at most as many as there were failed inserts.  *)
THEOREM EventsInvHolds == Spec => []EventsInv
BY InitEventsInv, NextEventsInv, PTL DEF Spec

(* event_mgr_create_event: an event whose creation was answered has a seat *)
(* for every place of its hall but those whose insertion failed, and no    *)
(* place is sold under two seat ids, for any number of organizers, any     *)
(* arguments and halls of any size.                                        *)
THEOREM CreatedEventsHaveAllSeatsHolds == Spec => []CreatedEventsHaveAllSeats
<1>1. EventsInv => CreatedEventsHaveAllSeats
  <2> SUFFICES ASSUME EventsInv PROVE CreatedEventsHaveAllSeats
    OBVIOUS
  <2>a. TypeOK /\ SeatsAreInTheirHalls /\ PlacesAreSoldOnce /\ FewAreMissing
    BY DEF EventsInv
  <2>b. seats \in Seq(SeatRow) /\ DOMAIN seats = 1 .. Len(seats) /\ created \subseteq 1 .. Len(events)
    BY <2>a, TypeOfTables
  <2>1. ASSUME NEW e \in created PROVE Places(e) \subseteq Hall(e) /\ Cardinality(Hall(e) \ Places(e)) <= faults
    <3>1. ASSUME NEW p \in Places(e) PROVE p \in Hall(e)
      <4>1. PICK i \in 1 .. Len(seats) : seats[i].event = e /\ p = <<seats[i].row, seats[i].snum>>
        BY <2>a, <3>1, PlacesOf
      <4>2. seats[i] \in SeatRow
        BY <2>b
      <4>3. seats[i].row \in Nat /\ seats[i].snum \in Nat /\ seats[i].snum >= 1
        BY <4>2, BoundsAssumption DEF SeatRow
      <4>4. /\ seats[i].row < events[e].total_rows /\ seats[i].snum <= events[e].seats_per_row
            /\ events[e].total_rows \in Nat /\ events[e].seats_per_row \in Nat
        BY <2>a, <2>b, <2>1, <4>1, HallIsFinite DEF SeatsAreInTheirHalls
      <4>5. seats[i].row \in 0 .. events[e].total_rows - 1 /\ seats[i].snum \in 1 .. events[e].seats_per_row
        BY <4>3, <4>4
      <4> QED BY <4>1, <4>5 DEF Hall
    <3> QED BY <2>a, <3>1 DEF FewAreMissing, Missing
  <2>2. ASSUME NEW i \in DOMAIN seats, NEW j \in DOMAIN seats,
               <<seats[i].event, seats[i].row, seats[i].snum>> = <<seats[j].event, seats[j].row, seats[j].snum>>
        PROVE  i = j
    <3>1. SamePlace(seats[i], seats[j])
      BY <2>2 DEF SamePlace
    <3> QED BY <2>a, <2>b, <3>1 DEF PlacesAreSoldOnce
  <2> QED BY <2>a, <2>1, <2>2 DEF CreatedEventsHaveAllSeats
<1> QED BY <1>1, EventsInvHolds, PTL
-----------------------------------------------------------------------------
(* Reports                                                                 *)

(* The seats of an event are in its hall.                                  *)
LEMMA PlacesInTheHall ==
  ASSUME EventsInv, NEW e \in 1 .. Len(events)
  PROVE  Places(e) \subseteq Hall(e)
<1>a. TypeOK /\ SeatsAreInTheirHalls
  BY DEF EventsInv
<1>b. seats \in Seq(SeatRow)
  BY <1>a, TypeOfTables
<1>1. ASSUME NEW p \in Places(e) PROVE p \in Hall(e)
  <2>1. PICK i \in 1 .. Len(seats) : seats[i].event = e /\ p = <<seats[i].row, seats[i].snum>>
    BY <1>a, <1>1, PlacesOf
  <2>2. seats[i] \in SeatRow
    BY <1>b
  <2>3. seats[i].row \in Nat /\ seats[i].snum \in Nat /\ seats[i].snum >= 1
    BY <2>2, BoundsAssumption DEF SeatRow
  <2>4. /\ seats[i].row < events[e].total_rows /\ seats[i].snum <= events[e].seats_per_row
        /\ events[e].total_rows \in Nat /\ events[e].seats_per_row \in Nat
    BY <1>a, <2>1, HallIsFinite DEF SeatsAreInTheirHalls
  <2>5. seats[i].row \in 0 .. events[e].total_rows - 1 /\ seats[i].snum \in 1 .. events[e].seats_per_row
    BY <2>3, <2>4
  <2> QED BY <2>1, <2>5 DEF Hall
<1> QED BY <1>1

(* A product is at most the product of the limits of its factors.          *)
LEMMA ProductsGrow ==
  ASSUME NEW a \in Nat, NEW b \in Nat, NEW x \in Nat, NEW y \in Nat, a <= x, b <= y
  PROVE  a * b <= x * y
<1>1. PICK u \in Nat : x = a + u
  <2>1. x - a \in Nat /\ x = a + (x - a)
    OBVIOUS
  <2> QED BY <2>1
<1>2. PICK v \in Nat : y = b + v
  <2>1. y - b \in Nat /\ y = b + (y - b)
    OBVIOUS
  <2> QED BY <2>1
<1>3. (a + u) * (b + v) = a * b + a * v + u * b + u * v
  OBVIOUS
<1>4. a * v \in Nat /\ u * b \in Nat /\ u * v \in Nat /\ a * b \in Nat
  OBVIOUS
<1>5. a * b <= a * b + a * v + u * b + u * v
  BY <1>4
<1> QED BY <1>1, <1>2, <1>3, <1>5

(* The buffer of reports_event_revenue has room for the largest hall.      *)
LEMMA HallsFit ==
  ASSUME TypeOK, NEW e \in 1 .. Len(events)
  PROVE  Cardinality(Hall(e)) <= MaxSeats /\ Cardinality(Hall(e)) \in Nat /\ MaxSeats \in Nat
<1>1. events[e] \in EventRow
  BY TypeOfTables
<1>2. PICK n \in Nat : n = events[e].total_rows /\ n <= MAX_SEAT_ROWS /\ n >= 1
  BY <1>1, BoundsAssumption DEF EventRow
<1>3. PICK m \in Nat : m = events[e].seats_per_row /\ m <= MAX_SEATS_PER_ROW /\ m >= 1
  BY <1>1, BoundsAssumption DEF EventRow
<1>4. IsFiniteSet(0 .. n - 1) /\ Cardinality(0 .. n - 1) = n
  <2>1. 0 \in Int /\ n - 1 \in Int /\ ~(0 > n - 1) /\ (n - 1) - 0 + 1 = n
    BY <1>2
  <2>2. IsFiniteSet(0 .. n - 1) /\ Cardinality(0 .. n - 1) = IF 0 > n - 1 THEN 0 ELSE (n - 1) - 0 + 1
    BY <2>1, FS_Interval, Zenon
  <2> QED BY <2>1, <2>2, Zenon
<1>5. IsFiniteSet(1 .. m) /\ Cardinality(1 .. m) = m
  <2>1. 1 \in Int /\ m \in Int /\ ~(1 > m) /\ m - 1 + 1 = m
    BY <1>3
  <2>2. IsFiniteSet(1 .. m) /\ Cardinality(1 .. m) = IF 1 > m THEN 0 ELSE m - 1 + 1
    BY <2>1, FS_Interval, Zenon
  <2> QED BY <2>1, <2>2, Zenon
<1>6. Cardinality((0 .. n - 1) \X (1 .. m)) = n * m
  <2>1. Cardinality((0 .. n - 1) \X (1 .. m)) = Cardinality(0 .. n - 1) * Cardinality(1 .. m)
    BY <1>4, <1>5, FS_Product, Zenon
  <2> QED BY <1>4, <1>5, <2>1, Zenon
<1>7. Cardinality(Hall(e)) = n * m
  BY <1>2, <1>3, <1>6 DEF Hall
<1>8. n * m <= MAX_SEAT_ROWS * MAX_SEATS_PER_ROW /\ n * m \in Nat
  BY <1>2, <1>3, ProductsGrow, BoundsAssumption
<1>9. MAX_SEAT_ROWS * MAX_SEATS_PER_ROW \in Nat
  BY BoundsAssumption
<1> QED BY <1>7, <1>8, <1>9, HallAssumption

(* The scan of an event finds all its seats it can read, one for each      *)
(* place: there is room for them.                                          *)
LEMMA ScanFindsAll ==
  ASSUME EventsInv, NEW e \in 1 .. Len(events), NEW unread \in SUBSET Hits(e)
  PROVE  /\ SeatsOf(e, unread) = Hits(e) \ unread /\ IsFiniteSet(SeatsOf(e, unread))
         /\ Cardinality(SeatsOf(e, unread)) + Cardinality(unread) = Cardinality(Places(e))
<1> DEFINE hits == {i \in DOMAIN seats : seats[i].event = e}
           f == [i \in hits |-> <<seats[i].row, seats[i].snum>>]
<1>a. TypeOK /\ PlacesAreSoldOnce
  BY DEF EventsInv
<1>b. seats \in Seq(SeatRow) /\ DOMAIN seats = 1 .. Len(seats) /\ Len(seats) \in Nat
  BY <1>a, TypeOfTables
<1>1. IsFiniteSet(hits) /\ \A i \in hits : i \in Nat
  <2>1. IsFiniteSet(1 .. Len(seats))
    BY <1>b, FS_Interval
  <2>2. hits \in SUBSET (1 .. Len(seats))
    BY <1>b
  <2>3. \A i \in hits : i \in Nat
    BY <1>b
  <2> HIDE DEF hits
  <2>4. IsFiniteSet(hits)
    BY <2>1, <2>2, FS_Subset
  <2> QED BY <2>3, <2>4
<1>2. f \in Bijection(hits, Places(e))
  <2>1. f \in [hits -> Places(e)] /\ \A p \in Places(e) : \E i \in hits : f[i] = p
    BY DEF Places, Hits
  <2>2. ASSUME NEW i \in hits, NEW j \in hits, f[i] = f[j] PROVE i = j
    <3>1. SamePlace(seats[i], seats[j])
      BY <2>2 DEF SamePlace
    <3> QED BY <1>a, <1>b, <3>1 DEF PlacesAreSoldOnce
  <2>3. DOMAIN f = hits
    OBVIOUS
  <2> HIDE DEF f, hits
  <2> QED BY <2>1, <2>2, <2>3 DEF Bijection, Injection, IsInjective, Surjection
<1>3. Cardinality(Places(e)) = Cardinality(hits) /\ IsFiniteSet(Places(e))
  <2> HIDE DEF f, hits
  <2>1. ExistsBijection(hits, Places(e))
    BY <1>2 DEF ExistsBijection
  <2> QED BY <1>1, <2>1, FS_Bijection
<1>4. Cardinality(hits) <= MaxSeats /\ Cardinality(hits) \in Nat /\ MaxSeats \in Nat
  <2>1. Places(e) \in SUBSET Hall(e) /\ IsFiniteSet(Hall(e))
    BY <1>a, PlacesInTheHall, HallIsFinite
  <2>2. Cardinality(Places(e)) <= Cardinality(Hall(e))
    BY <2>1, FS_Subset
  <2>3. Cardinality(hits) \in Nat
    <3> HIDE DEF hits
    <3> QED BY <1>1, FS_CardinalityType
  <2>4. Cardinality(Hall(e)) <= MaxSeats /\ Cardinality(Hall(e)) \in Nat /\ MaxSeats \in Nat
    BY <1>a, HallsFit
  <2> HIDE DEF hits
  <2> QED BY <1>3, <2>2, <2>3, <2>4
<1>5. ASSUME NEW i \in hits PROVE Cardinality({j \in hits : j < i}) < MaxSeats
  <2> DEFINE before == {j \in hits : j < i}
  <2>1. before \in SUBSET hits /\ before # hits
    <3>1. ~(i < i)
      BY <1>1
    <3>2. i \notin before
      BY <3>1
    <3> QED BY <3>2
  <2> HIDE DEF before, hits
  <2>2. /\ IsFiniteSet(before) /\ Cardinality(before) <= Cardinality(hits)
        /\ Cardinality(before) # Cardinality(hits)
    BY <1>1, <2>1, FS_Subset
  <2>3. Cardinality(before) \in Nat
    BY <2>2, FS_CardinalityType
  <2>4. Cardinality(before) < MaxSeats
    BY <1>4, <2>2, <2>3
  <2> QED BY <2>4 DEF before
<1>6. Hits(e) = hits
  BY DEF Hits
<1> HIDE DEF hits, f
<1> DEFINE read == hits \ unread
<1>7. /\ unread \in SUBSET hits /\ IsFiniteSet(unread) /\ read \in SUBSET hits /\ IsFiniteSet(read)
      /\ Cardinality(read) \in Nat /\ Cardinality(unread) \in Nat
  <2>1. unread \in SUBSET hits /\ read \in SUBSET hits
    BY <1>6
  <2> HIDE DEF read
  <2> QED BY <1>1, <2>1, FS_Subset, FS_CardinalityType
<1>8. ASSUME NEW i \in read PROVE Cardinality({j \in read : j < i}) < MaxSeats
  <2>1. PICK some : some = {j \in read : j < i}
    OBVIOUS
  <2>2. PICK all : all = {j \in hits : j < i}
    OBVIOUS
  <2>3. i \in hits /\ some \in SUBSET all /\ all \in SUBSET hits
    BY <2>1, <2>2
  <2>4. IsFiniteSet(all) /\ Cardinality(all) < MaxSeats
    BY <1>1, <1>5, <2>2, <2>3, FS_Subset
  <2>5. Cardinality(some) <= Cardinality(all) /\ IsFiniteSet(some)
    BY <2>3, <2>4, FS_Subset
  <2>6. Cardinality(some) \in Nat /\ Cardinality(all) \in Nat
    BY <2>4, <2>5, FS_CardinalityType
  <2>7. Cardinality(some) < MaxSeats
    BY <1>4, <2>4, <2>5, <2>6
  <2> QED BY <2>1, <2>7
<1>9. SeatsOf(e, unread) = read
  <2>1. SeatsOf(e, unread) = FirstOf(read, MaxSeats)
    BY <1>6 DEF SeatsOf
  <2> HIDE DEF read
  <2> QED BY <1>8, <2>1 DEF FirstOf
<1>10. Cardinality(read) + Cardinality(unread) = Cardinality(hits)
  <2>1. Cardinality(hits \ unread) = Cardinality(hits) - Cardinality(hits \cap unread)
    BY <1>1, <1>7, FS_Difference
  <2>2. hits \cap unread = unread
    BY <1>7
  <2>3. Cardinality(read) = Cardinality(hits) - Cardinality(unread)
    BY <2>1, <2>2, Zenon
  <2> HIDE DEF read
  <2> QED BY <1>4, <1>7, <2>3
<1> QED BY <1>3, <1>6, <1>7, <1>9, <1>10

(* An event whose creation was answered gets no more seats, and loses none. *)
LEMMA PlacesStay ==
  ASSUME EventsInv, [Next]_vars, NEW e \in created
  PROVE  e \in created' /\ Places(e)' = Places(e)
<1>a. TypeOK /\ LoopsAreInTheHall
  BY DEF EventsInv
<1>b. seats \in Seq(SeatRow) /\ DOMAIN seats = 1 .. Len(seats) /\ Len(seats) \in Nat
  BY <1>a, TypeOfTables
<1>1. CASE seats' = seats /\ created \subseteq created'
  BY <1>1 DEF Places, Hits
<1>2. ASSUME NEW c \in Clients, NEW outcome \in {"ok", "nothing", "row"}, InsertSeat(c, outcome)
      PROVE  e \in created' /\ Places(e)' = Places(e)
  <2>1. PICK s : s = [event |-> cmd[c].event, row |-> cmd[c].row, snum |-> cmd[c].snum,
                      booked |-> FALSE, indexed |-> outcome = "ok"]
    OBVIOUS
  <2>2. /\ Creating(c) /\ created' = created
        /\ seats' = seats \/ seats' = Append(seats, s)
    BY <1>2, <2>1 DEF InsertSeat
  <2>3. s.event # e
    <3>1. s.event = cmd[c].event
      BY <2>1
    <3>2. cmd[c].event # e
      BY <1>a, <2>2 DEF LoopsAreInTheHall
    <3> QED BY <3>1, <3>2
  <2>4. CASE seats' = seats
    BY <2>2, <2>4 DEF Places, Hits
  <2>5. CASE seats' = Append(seats, s)
    <3>3. /\ DOMAIN seats' = 1 .. Len(seats) + 1 /\ seats'[Len(seats) + 1] = s
          /\ \A i \in 1 .. Len(seats) : seats'[i] = seats[i]
      BY <1>b, <2>5
    <3>4. {j \in DOMAIN seats' : seats'[j].event = e} = {j \in DOMAIN seats : seats[j].event = e}
      <4>1. \A i \in 1 .. Len(seats) + 1 : i \in 1 .. Len(seats) \/ i = Len(seats) + 1
        BY <1>b
      <4>2. \A i \in 1 .. Len(seats) : i \in 1 .. Len(seats) + 1
        BY <1>b
      <4> QED BY <1>b, <2>3, <3>3, <4>1, <4>2
    <3> QED BY <1>b, <2>2, <3>3, <3>4 DEF Places, Hits
  <2> QED BY <2>2, <2>4, <2>5
<1>3. ASSUME NEW i \in DOMAIN seats, BookSeat(i) PROVE e \in created' /\ Places(e)' = Places(e)
  <2>1. seats' = [seats EXCEPT ![i].booked = TRUE] /\ created' = created
    BY <1>3 DEF BookSeat
  <2>2. seats[i] \in SeatRow
    BY <1>b
  <2>3. PICK v : v = [seats[i] EXCEPT !.booked = TRUE]
    OBVIOUS
  <2>4. v.event = seats[i].event /\ v.row = seats[i].row /\ v.snum = seats[i].snum
    BY <2>2, <2>3 DEF SeatRow
  <2>5. DOMAIN seats' = DOMAIN seats /\ \A j \in DOMAIN seats : seats'[j] = IF j = i THEN v ELSE seats[j]
    BY <1>b, <2>1, <2>3
  <2>6. \A j \in DOMAIN seats : /\ seats'[j].event = seats[j].event /\ seats'[j].row = seats[j].row
                                /\ seats'[j].snum = seats[j].snum
    BY <2>4, <2>5
  <2> QED BY <2>1, <2>5, <2>6 DEF Places, Hits
<1>4. CASE \E c \in Clients :
             \/ \E r \in RowArgs, p \in SeatArgs : CreateEvent(c, r, p)
             \/ CreateAnswer(c)
             \/ \E x \in DOMAIN events : DeleteFind(c, x) \/ RevenueOfEvent(c, x)
             \/ DeleteEvent(c) \/ \E unread : RevenueOfOrganizer(c, unread)
             \/ (\E fails \in BOOLEAN : RevenueFind(c, fails)) \/ RevenueScan(c) \/ RevenueAnswer(c)
  <2>1. seats' = seats /\ created \subseteq created'
    BY <1>4 DEF CreateEvent, CreateAnswer, DeleteFind, RevenueOfEvent, DeleteEvent, RevenueOfOrganizer,
                RevenueFind, RevenueScan, RevenueAnswer
  <2> QED BY <1>1, <2>1
<1>5. CASE UNCHANGED vars
  BY <1>1, <1>5 DEF vars
<1> QED BY <1>2, <1>3, <1>4, <1>5 DEF Next

\* A report under way, as Report makes it and RevenueFind changes it.
ReportUnderWay(k, done) ==
  /\ k = [name |-> "report", todo |-> k.todo, found |-> k.found, complete |-> k.complete]
  /\ k.found \in BOOLEAN /\ k.complete \in BOOLEAN
  /\ k.complete => k.found /\ Head(k.todo) \in done

\* Every report that saw a complete event has all its seats.
ReportsAreRight ==
  /\ reports = [c \in Clients |-> reports[c]]
  /\ \A c \in Clients : Reporting(c) => ReportUnderWay(cmd[c], created)
  /\ \A c \in Clients : \A r \in reports[c] :
       r.complete => r.event \in created /\ r.total + r.missed = Cardinality(Places(r.event)) /\ r.booked <= r.total

(* What a step keeps of the reports when it adds none that is complete     *)
(* without being right.                                                    *)
LEMMA ReportsKept ==
  ASSUME EventsInv, ReportsAreRight, [Next]_vars, NEW c \in Clients, NEW k,
         cmd' = [cmd EXCEPT ![c] = k], k # Idle /\ k.name = "report" => ReportUnderWay(k, created'),
         NEW S, reports' = [reports EXCEPT ![c] = S],
         \A r \in S : r \notin reports[c] /\ r.complete =>
           r.event \in created /\ r.total + r.missed = Cardinality(Places(r.event)) /\ r.booked <= r.total
  PROVE  ReportsAreRight'
<1>a. DOMAIN cmd = Clients
  BY DEF EventsInv, BoundsAreKept
<1>b. cmd'[c] = k /\ \A d \in Clients : d # c => cmd'[d] = cmd[d]
  BY <1>a
<1>c. reports'[c] = S /\ (\A d \in Clients : d # c => reports'[d] = reports[d]) /\ DOMAIN reports' = Clients
  BY DEF ReportsAreRight
<1>d. reports' = [d \in Clients |-> reports'[d]]
  BY DEF ReportsAreRight
<1>1. ASSUME NEW d \in Clients, Reporting(d)' PROVE ReportUnderWay(cmd'[d], created')
  <2>1. CASE d = c
    BY <1>b, <1>1, <2>1 DEF Reporting
  <2>2. CASE d # c
    <3>1. Reporting(d) /\ cmd'[d] = cmd[d]
      BY <1>b, <1>1, <2>2 DEF Reporting
    <3>2. \A e \in created : e \in created'
      BY PlacesStay
    <3> QED BY <3>1, <3>2 DEF ReportsAreRight, ReportUnderWay
  <2> QED BY <2>1, <2>2
<1>2. ASSUME NEW d \in Clients, NEW r \in reports'[d], r.complete
      PROVE  r.event \in created' /\ r.total + r.missed = Cardinality(Places(r.event)') /\ r.booked <= r.total
  <2>1. r.event \in created /\ r.total + r.missed = Cardinality(Places(r.event)) /\ r.booked <= r.total
    BY <1>c, <1>2 DEF ReportsAreRight
  <2>2. r.event \in created' /\ Places(r.event)' = Places(r.event)
    BY <2>1, PlacesStay
  <2> QED BY <2>1, <2>2
<1> QED BY <1>d, <1>1, <1>2 DEF ReportsAreRight

(* The steps that make no report.                                          *)
LEMMA NoReportStep ==
  ASSUME EventsInv, ReportsAreRight, [Next]_vars, NEW c \in Clients, NEW k,
         cmd' = [cmd EXCEPT ![c] = k], k # Idle /\ k.name = "report" => ReportUnderWay(k, created'),
         reports' = reports
  PROVE  ReportsAreRight'
<1>1. reports' = [reports EXCEPT ![c] = reports[c]]
  BY DEF ReportsAreRight
<1> QED BY <1>1, ReportsKept

(* Every step keeps the reports right.                                     *)
LEMMA NextReports ==
  ASSUME EventsInv, ReportsAreRight, [Next]_vars
  PROVE  ReportsAreRight'
<1>a. /\ DOMAIN cmd = Clients /\ TypeOK /\ LoopsAreInTheHall /\ created \subseteq 1 .. Len(events)
  <2>1. TypeOK
    BY DEF EventsInv
  <2>2. created \subseteq 1 .. Len(events)
    BY <2>1, TypeOfTables
  <2> QED BY <2>1, <2>2 DEF EventsInv, BoundsAreKept
<1>r. ASSUME NEW todo PROVE ReportUnderWay(Report(todo), created')
  BY DEF Report, ReportUnderWay
<1>1. ASSUME NEW c \in Clients, NEW r \in RowArgs, NEW p \in SeatArgs, CreateEvent(c, r, p) PROVE ReportsAreRight'
  <2>1. PICK k : k = [name |-> "create", event |-> Len(events) + 1, row |-> 0, snum |-> 1]
    OBVIOUS
  <2>2. cmd' = [cmd EXCEPT ![c] = k] /\ reports' = reports /\ k.name # "report"
    BY <1>1, <2>1 DEF CreateEvent
  <2> QED BY <2>2, NoReportStep
<1>2. ASSUME NEW c \in Clients, NEW outcome \in {"ok", "nothing", "row"}, InsertSeat(c, outcome)
      PROVE  ReportsAreRight'
  <2>1. PICK k : k = NextSeat(cmd[c], events[cmd[c].event])
    OBVIOUS
  <2>2. Creating(c) /\ cmd' = [cmd EXCEPT ![c] = k] /\ reports' = reports
    BY <1>2, <1>a, <2>1 DEF InsertSeat
  <2>3. /\ cmd[c] \in [name : {"create"}, event : Nat, row : Nat, snum : Nat]
    BY <1>a, <2>2 DEF LoopsAreInTheHall, At
  <2>4. k.name # "report"
    BY <2>1, <2>3 DEF NextSeat
  <2> QED BY <2>2, <2>4, NoReportStep
<1>3. ASSUME NEW c \in Clients, CreateAnswer(c) \/ DeleteEvent(c) PROVE ReportsAreRight'
  <2>1. cmd' = [cmd EXCEPT ![c] = Idle] /\ reports' = reports
    BY <1>3 DEF CreateAnswer, DeleteEvent
  <2> QED BY <2>1, NoReportStep
<1>4. ASSUME NEW c \in Clients, NEW e \in DOMAIN events, DeleteFind(c, e) PROVE ReportsAreRight'
  <2>1. PICK k : k = [name |-> "delete", event |-> e]
    OBVIOUS
  <2>2. cmd' = [cmd EXCEPT ![c] = k] /\ reports' = reports /\ k.name # "report"
    BY <1>4, <2>1 DEF DeleteFind
  <2> QED BY <2>2, NoReportStep
<1>5. ASSUME NEW c \in Clients, (\E unread : RevenueOfOrganizer(c, unread)) \/ \E e \in DOMAIN events : RevenueOfEvent(c, e)
      PROVE  ReportsAreRight'
  <2>1. PICK todo : cmd' = [cmd EXCEPT ![c] = Report(todo)] /\ reports' = reports
    BY <1>5 DEF RevenueOfOrganizer, RevenueOfEvent
  <2> QED BY <1>r, <2>1, NoReportStep
<1>6. ASSUME NEW c \in Clients, NEW fails \in BOOLEAN, RevenueFind(c, fails) PROVE ReportsAreRight'
  <2>1. ReportUnderWay(cmd[c], created) /\ ~cmd[c].found
    BY <1>6 DEF RevenueFind, ReportsAreRight
  <2>2. PICK e : e = Head(cmd[c].todo)
    OBVIOUS
  <2>3. PICK k : k = IF fails \/ events[e].is_deleted THEN [cmd[c] EXCEPT !.todo = Tail(cmd[c].todo)]
                     ELSE [cmd[c] EXCEPT !.found = TRUE, !.complete = e \in created]
    OBVIOUS
  <2>4. cmd' = [cmd EXCEPT ![c] = k] /\ reports' = reports /\ created' = created
    <3>1. cmd' = [cmd EXCEPT ![c] = IF fails \/ events[e].is_deleted THEN [cmd[c] EXCEPT !.todo = Tail(cmd[c].todo)]
                                    ELSE [cmd[c] EXCEPT !.found = TRUE, !.complete = e \in created]]
      BY <1>6, <2>2 DEF RevenueFind
    <3>2. reports' = reports /\ created' = created
      BY <1>6 DEF RevenueFind
    <3> QED BY <2>3, <3>1, <3>2
  <2>5. PICK todo, found, complete :
          /\ cmd[c] = [name |-> "report", todo |-> todo, found |-> found, complete |-> complete]
          /\ found \in BOOLEAN /\ complete \in BOOLEAN /\ ~found /\ ~complete
    BY <2>1 DEF ReportUnderWay
  <2>6. ReportUnderWay(k, created)
    <3>1. CASE fails \/ events[e].is_deleted
      <4>1. k = [name |-> "report", todo |-> Tail(cmd[c].todo), found |-> found, complete |-> complete]
        <5>1. PICK t : t = Tail(cmd[c].todo)
          OBVIOUS
        <5>2. k = [[name |-> "report", todo |-> todo, found |-> found, complete |-> complete] EXCEPT !.todo = t]
          BY <2>3, <2>5, <3>1, <5>1, Zenon
        <5>3. k = [name |-> "report", todo |-> t, found |-> found, complete |-> complete]
          BY <5>2
        <5> QED BY <5>1, <5>3, Zenon
      <4> QED BY <2>5, <4>1 DEF ReportUnderWay
    <3>2. CASE ~(fails \/ events[e].is_deleted)
      <4>1. PICK b \in BOOLEAN : b = (e \in created)
        <5>1. (e \in created) \in BOOLEAN
          BY SMT
        <5> QED BY <5>1, Zenon
      <4>2. k = [name |-> "report", todo |-> todo, found |-> TRUE, complete |-> b] /\ cmd[c].todo = todo
        <5>1. k = [[name |-> "report", todo |-> todo, found |-> found, complete |-> complete]
                     EXCEPT !.found = TRUE, !.complete = b]
          BY <2>3, <2>5, <3>2, <4>1, Zenon
        <5>2. k = [name |-> "report", todo |-> todo, found |-> TRUE, complete |-> b]
          BY <5>1
        <5>3. cmd[c].todo = todo
          BY <2>5
        <5> QED BY <5>2, <5>3
      <4>3. k.todo = todo /\ k.found = TRUE /\ k.complete = b /\ e = Head(todo)
        BY <2>2, <4>2
      <4>4. k.complete => e \in created
        BY <4>1, <4>3
      <4> QED BY <4>1, <4>2, <4>3, <4>4 DEF ReportUnderWay
    <3> QED BY <3>1, <3>2
  <2> QED BY <2>4, <2>6, NoReportStep
<1>7. ASSUME NEW c \in Clients, RevenueScan(c) PROVE ReportsAreRight'
  <2>1. ReportUnderWay(cmd[c], created)
    BY <1>7 DEF RevenueScan, ReportsAreRight
  <2>2. PICK e : e = Head(cmd[c].todo)
    OBVIOUS
  <2>u. PICK unread \in SUBSET Hits(e) :
          reports' = [reports EXCEPT ![c] = @ \cup
            {[event |-> e, total |-> Cardinality(SeatsOf(e, unread)),
              booked |-> Cardinality({i \in SeatsOf(e, unread) : seats[i].booked}),
              missed |-> Cardinality(unread), complete |-> cmd[c].complete]}]
    BY <1>7, <2>2 DEF RevenueScan
  <2>3. PICK r : r = [event |-> e, total |-> Cardinality(SeatsOf(e, unread)),
                      booked |-> Cardinality({i \in SeatsOf(e, unread) : seats[i].booked}),
                      missed |-> Cardinality(unread), complete |-> cmd[c].complete]
    OBVIOUS
  <2>4. cmd' = [cmd EXCEPT ![c] = Report(Tail(cmd[c].todo))]
    BY <1>a, <1>7 DEF RevenueScan
  <2>5. reports' = [reports EXCEPT ![c] = reports[c] \cup {r}]
    BY <2>u, <2>3 DEF ReportsAreRight
  <2>6. r.complete => r.event \in created /\ r.total + r.missed = Cardinality(Places(r.event)) /\ r.booked <= r.total
    <3>1. SUFFICES ASSUME r.complete
                   PROVE  r.event \in created /\ r.total + r.missed = Cardinality(Places(r.event)) /\ r.booked <= r.total
      OBVIOUS
    <3>2. r.event = e /\ e \in created
      BY <2>1, <2>2, <2>3, <3>1 DEF ReportUnderWay
    <3>3. e \in 1 .. Len(events)
      BY <1>a, <3>2
    <3>4. /\ IsFiniteSet(SeatsOf(e, unread))
          /\ Cardinality(SeatsOf(e, unread)) + Cardinality(unread) = Cardinality(Places(e))
      BY <3>3, ScanFindsAll
    <3>5. Cardinality({i \in SeatsOf(e, unread) : seats[i].booked}) <= Cardinality(SeatsOf(e, unread))
      BY <3>4, FS_Subset
    <3> QED BY <2>3, <3>2, <3>4, <3>5
  <2>7. PICK S : S = reports[c] \cup {r}
    OBVIOUS
  <2>8. \A x \in S : x \notin reports[c] /\ x.complete =>
          x.event \in created /\ x.total + x.missed = Cardinality(Places(x.event)) /\ x.booked <= x.total
    BY <2>6, <2>7
  <2>9. reports' = [reports EXCEPT ![c] = S]
    BY <2>5, <2>7
  <2> QED BY <1>r, <2>4, <2>8, <2>9, ReportsKept
<1>8. ASSUME NEW c \in Clients, RevenueAnswer(c) PROVE ReportsAreRight'
  <2>1. cmd' = [cmd EXCEPT ![c] = Idle] /\ reports' = [reports EXCEPT ![c] = {}]
    BY <1>8 DEF RevenueAnswer
  <2>2. PICK S : S = {}
    OBVIOUS
  <2>3. /\ reports' = [reports EXCEPT ![c] = S]
        /\ \A r \in S : r \notin reports[c] /\ r.complete =>
             r.event \in created /\ r.total + r.missed = Cardinality(Places(r.event)) /\ r.booked <= r.total
    BY <2>1, <2>2
  <2> QED BY <2>1, <2>3, ReportsKept
<1>9. ASSUME cmd' = cmd, reports' = reports PROVE ReportsAreRight'
  <2>1. \A e \in created : e \in created' /\ Places(e)' = Places(e)
    BY PlacesStay
  <2>2. \A d \in Clients : Reporting(d)' => ReportUnderWay(cmd'[d], created')
    BY <1>9, <2>1 DEF ReportsAreRight, ReportUnderWay, Reporting
  <2>3. ASSUME NEW d \in Clients, NEW r \in reports'[d], r.complete
        PROVE  r.event \in created' /\ r.total + r.missed = Cardinality(Places(r.event)') /\ r.booked <= r.total
    BY <1>9, <2>1, <2>3 DEF ReportsAreRight
  <2> QED BY <1>9, <2>2, <2>3 DEF ReportsAreRight
<1>10. ASSUME \E i \in DOMAIN seats : BookSeat(i) PROVE ReportsAreRight'
  BY <1>9, <1>10 DEF BookSeat
<1>11. ASSUME UNCHANGED vars PROVE ReportsAreRight'
  BY <1>9, <1>11 DEF vars
<1> QED BY <1>1, <1>2, <1>3, <1>4, <1>5, <1>6, <1>7, <1>8, <1>10, <1>11 DEF Next

(* reports_event_revenue: a report on an event whose creation was answered *)
(* counts every seat of its hall but those on pages it could not fetch,    *)
(* for halls of any size within the limits, whatever is deleted or booked  *)
(* between its two reads.                                                  *)
THEOREM ReportsShowTheWholeHallHolds == Spec => []ReportsShowTheWholeHall
<1>1. Init => ReportsAreRight
  BY DEF Init, ReportsAreRight, Reporting
<1>2. EventsInv /\ ReportsAreRight /\ [Next]_vars => ReportsAreRight'
  BY NextReports
<1>3. ReportsAreRight => ReportsShowTheWholeHall
  BY DEF ReportsAreRight, ReportsShowTheWholeHall
<1> QED BY <1>1, <1>2, <1>3, EventsInvHolds, PTL DEF Spec
=============================================================================
