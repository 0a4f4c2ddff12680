SPECIFICATION Spec
CONSTANTS
  p1 = p1
  p2 = p2
  r1 = r1
  r2 = r2
  Pfn = {p1}
  Reporter = {r1, r2}
  Capacity = 1
  CountCap = 1
  Policies <- Switched
  SoftResolved = TRUE
  MfDepth = 2
  WorkCap = 2

PROPERTIES OnlyPoisonedAttributed
