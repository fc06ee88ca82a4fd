CONSTANTS
  Views = {v1, v2, v3, v4}
  Workers = {w1, w2}
  Cap = 2
  None = None
  Ended = Ended
SPECIFICATION FairSpec
INVARIANTS TypeOK ShutdownDrains
PROPERTY EveryViewIsAttempted
