CONSTANTS
    e1 = e1
    NULL = NULL
    Worker = {w1, w2}
    User = {u1, u2}
    Event = {e1}
    SeatEvent <- MCSeatEvent
    SeatId <- MCSeatId
    Args <- MCArgs
    MaxSeatsPerBooking = 2
    MaxActiveTxns = 2
    MaxCommands = 2
    MaxFaults = 0
SYMMETRY Symmetry
SPECIFICATION Spec
INVARIANT BookedSeatsAreBacked
