SPECIFICATION AttendedSpec
CONSTANTS
  c0 = c0
  c1 = c1
  c2 = c2
  CPU = {c0, c1}
  Protected = {c0}
  Modes = {"full", "inactive", "soft"}
  Policies <- ActOnAnyUce
  CountCap = 1
  Pinnable = {}
INVARIANTS ProtectedSafe InFlightHasDriver BelowThresholds
PROPERTIES IsolationSettles
