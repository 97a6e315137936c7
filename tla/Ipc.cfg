SPECIFICATION FairSpec
CONSTANTS
  Workers = {w1, w2}
  QueueSize = 2
  PipeSize = 3
  Removed = Removed
  MaxMsgs = 3
  MaxLines = 2
  MaxCrashes = 1
CHECK_DEADLOCK FALSE
INVARIANTS
  NotificationsInOrder
  LogIsComplete
PROPERTIES
  ShutdownReturns
  ChannelsMove
