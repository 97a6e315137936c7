SPECIFICATION FairSpec
CONSTANTS
  Workers = {w1, w2}
  Tasks = {c1, c2, c3}
  max_queue_size = 2
  NoTask = NoTask
  MaxPoolFaults = 1
  MaxSignals = 2
  MaxFaults = 1
CHECK_DEADLOCK FALSE
INVARIANTS
  PoolRunsItsTasks
  SubmitNeverBlocks
  EveryConnectionIsClosed
  NothingOutlivesWhatItUses
PROPERTIES
  SignalStopsServer
