SPECIFICATION PoolSpec
CONSTANTS
  Pages <- CollidingPages
  NumFrames = 2
  Users = {u1, u2}
  PageData = {a, b}
  NoPage = NoPage
  Idle = Idle
  MaxReadFaults = 1
  MaxWriteFaults = 1
SYMMETRY Symmetry
INVARIANTS
  MapAndListAgree
  PinsProtectTheirFrames
PROPERTIES
  ImplementsPageStore
