SPECIFICATION Spec
CONSTANTS
  Conns = {c1, c2, c3}
  Fds = {f1, f2, f3}
  Slots = {0, 1}
  Names = {admin, n1, n2}
  AdminName = admin
  NoFd = NoFd
  NoSlot = NoSlot
  NoName = NoName
  MaxUsers = 3
  MaxEvents = 1
  MaxFaults = 1
SYMMETRY Symmetry
CHECK_DEADLOCK FALSE
INVARIANTS
  SessionIsOwn
  EveryHandlerFindsASlot
  RolesAreRespected
