CONSTANTS
    Thread = {t1, t2}
    MaxRecord = 3
    MaxActiveTxns = 2
    MaxLocksPerTxn = 2
    TxnIdSpace = 4
    MaxTxns = 3
    MaxFaults = 1
SPECIFICATION FairSpec
CHECK_DEADLOCK FALSE
INVARIANTS
  SlotsAndLocksAgree
  CommittedIsDurable
PROPERTIES
  ImplementsTwoPhase
  EveryTxnEnds
