SPECIFICATION RecordSpec
CONSTANTS
  MaxInferences = 2
  Supplied = 2
  Answers <- Said
  Reports <- Usage
  Silent = Silent
  Nothing = Nothing
  Place <- Directories
  Core = {"c1", "c2"}
  Cases = 2
  Settings <- Sweeps
  Outcome = {"pass", "void"}
  Manifest = "m"
  Unrecorded = "unrecorded"
  MaxCommands = 2
  MaxEdits = 1
  Profiles = {"f1", "f2"}
  Points = {"a", "b", "c"}
  PointOf <- PointOfProfile
  Absent = Absent
  MaxAsked = 3
  Entries = 2
  Reserve = 2
  JudgeReserve = 1
  Costs = {3}
  MaxSpend = 10
  MaxGaiaRuns = 3
  Pins = {"p1", "p2"}
  Unknown = Unknown
  MaxStarts = 2
INVARIANTS
  RecordTypesOK
  WasteIsUnused
  UnreadAnswersAuthorizeNothing
  HeadlineIsOneSweep
  ArmsComparable
  LedgerHolds
PROPERTIES
  NothingPaidIsLost
CHECK_DEADLOCK FALSE
