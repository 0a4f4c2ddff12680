SPECIFICATION FocusSpec
CONSTANTS
  c0 = c0
  c1 = c1
  c2 = c2
  CPU = {c0, c1}
  Protected = {c0}
  Modes = {"full"}
  Policies <- Defaults
  CountCap = 2
  Pinnable = {}
PROPERTIES CorrectedErrorNeverIsolates
