SPECIFICATION Spec
CONSTANTS
  Clients = {o1, o2}
  Admins = {o1, o2}
  RowArgs = {1, 65538, 3}
  SeatArgs = {2}
  MAX_SEAT_ROWS = 2
  MAX_SEATS_PER_ROW = 2
  MaxSeats = 4
  MaxOwn = 2
  MaxReports = 1
  Idle = Idle
  MaxEvents = 2
  MaxExtras = 1
SYMMETRY Symmetry
INVARIANTS
  CreatedEventsHaveAllSeats
  ReportsShowTheWholeHall
