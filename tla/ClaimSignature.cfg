SPECIFICATION PerceptionSpec
CONSTANTS
  Tools = {t1, t2}
  Startup = {{t1}, {t1, t2}}
  Named = {t1}
  Policies = {"before_writes"}
  Retention = 1
  MaxMoves = 1
  MaxVoices = 1
  MaxSteps = 2
  MaxShifts = 1
  None = None
INVARIANTS
  EqualMeansNothingMoved
