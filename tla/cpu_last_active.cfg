SPECIFICATION UnattendedSpec
CONSTANTS
  c0 = c0
  c1 = c1
  c2 = c2
  CPU = {c1, c2}
  Protected = {}
  Modes = {"inactive"}
  Policies <- Deferred
  CountCap = 1
  Pinnable = {}
PROPERTIES LastCpuIsRefused
