SPECIFICATION SweepSpec
CONSTANTS
  Capabilities = 1
  Runs = 2
  Workers = 2
  MaxMishaps = 2
  Calls = {k1, k2}
  MaxTrips = 2
  CallLimit = 2
  OpenAI <- Overread
  Anthropic <- Written
  Unreported = Unreported
  FixedTerm = 1
  Due = {3}
  MaxRun = 1
  MaxJudge = 1
  Inferences = 2
  Nobody = Nobody
INVARIANTS
  SweepTypesOK
  PaidOnce
  SealedIsComplete
  ScenarioClockHolds
  CutShortIsNotCounted
PROPERTIES
  SweepSettles
  WorldThaws
  CapEndsTheSession
CHECK_DEADLOCK FALSE
