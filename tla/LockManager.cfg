CONSTANTS
    b1 = b1
    Thread = {t1, t2, t3}
    Record = {r1, r2}
    Bucket = {b1}
    Hash <- MCHash
    Ptr = {p1, p2, p3}
    NULL = NULL
SPECIFICATION FairSpec
CHECK_DEADLOCK FALSE
INVARIANTS
  IInv
PROPERTIES
  ImplementsRecordLock
  FreedRecordIsTaken
