SPECIFICATION FairSpec
CONSTANTS
  Activity = {a1}
  Call = {c1, c2}
  None = None
  Everyone = Everyone
  MaxSteps = 1
  MaxMessages = 2
  MaxStops = 1
  MaxLate = 0
  ToolsMayRaise = TRUE
PROPERTY
  MessageEventuallyClaimed
