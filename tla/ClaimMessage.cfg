SPECIFICATION Spec
CONSTANTS
  Activity = {a1, a2}
  Call = {c1, c2, c3, c4}
  None = None
  Everyone = Everyone
  MaxSteps = 1
  MaxMessages = 3
  MaxStops = 1
  MaxLate = 0
  ToolsMayRaise = FALSE
PROPERTY
  NoMessageSwallowed
