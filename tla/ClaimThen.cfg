SPECIFICATION Spec
CONSTANTS
  Waiter = {w1}
  Otherwise = {}
  Clocked = {w1}
  Framed = {}
  Log = {"signals"}
  Retention = 1
  None = None
  MaxChanges = 1
  MaxStops = 0
PROPERTIES
  ThenStaysOwed
