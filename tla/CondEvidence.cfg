SPECIFICATION Spec
CONSTANTS
  Waiter = {w1, w2}
  Otherwise = {w1, w2}
  Clocked = {w1}
  Framed = {w2}
  Log = {"signals"}
  Retention = 1
  None = None
  MaxChanges = 2
  MaxStops = 0
INVARIANTS
  NoStrandedWait
  AtMostOneBranch
PROPERTIES
  OtherwiseOnce
  OtherwiseProvesAbsence
  OneFiringPerChange
