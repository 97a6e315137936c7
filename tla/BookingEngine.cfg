CONSTANTS
    e1 = e1
    NULL = NULL
    Worker = {w1, w2, w3}
    User = {u1, u2}
    Event = {e1}
    SeatEvent <- MCSeatEvent
    SeatId <- MCSeatId
    Args <- MCArgs
    MaxSeatsPerBooking = 2
    MaxActiveTxns = 2
    MaxCommands = 3
    MaxFaults = 1
SYMMETRY Symmetry
SPECIFICATION Spec
INVARIANTS
  ConfirmedBookingsAreDisjoint
  AckedBookingsHoldTheirSeats
  AckedBookingsAreComplete
  BookedSeatsAreBackedOrRaced
  CancelledAtMostOnce
  NoCircleOfWaits
PROPERTIES
  SeatsKeepTheirOwner
