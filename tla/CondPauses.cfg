SPECIFICATION FairSpec
CONSTANTS
  Waiter = {w1, w2}
  Otherwise = {w1, w2}
  Clocked = {w1}
  Framed = {w2}
  Log = {"derived"}
  Retention = 1
  None = None
  MaxChanges = 1
  MaxStops = 1
INVARIANTS
  TypeOK
  BatchAccounted
  TerminationOwesNothing
PROPERTIES
  WatchedFrameStays
  JudgementsStop
  EvidenceEventuallyJudged
