SPECIFICATION FocusSpec
CONSTANTS
  p1 = p1
  p2 = p2
  r1 = r1
  r2 = r2
  Pfn = {p1, p2}
  Reporter = {r1, r2}
  Capacity = 1
  CountCap = 2
  Policies <- AtTwo
  SoftResolved = TRUE
  MfDepth = 1
  WorkCap = 1
INVARIANTS TypeOK TableSound PreIsoHasDriver PoisonedIsAnswered
PROPERTIES InFlightNeverEvicted PreIsoSettles PoisonedIsTakenOut UceIsAnswered UceInHand
