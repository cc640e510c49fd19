SPECIFICATION Spec
CONSTANTS
  Activity = {a1, a2}
  Call = {c1, c2, c3, c4, c5}
  None = None
  Everyone = Everyone
  MaxSteps = 1
  MaxMessages = 2
  MaxStops = 2
  MaxLate = 1
  ToolsMayRaise = TRUE
INVARIANTS
  StateCoherence
  PhaseDiscipline
PROPERTIES
  NoResurrection
SYMMETRY Interchangeable
