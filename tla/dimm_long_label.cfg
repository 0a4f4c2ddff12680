SPECIFICATION Spec
CONSTANTS
  d1 = d1
  long = long
  cut = cut
  k1 = k1
  k2 = k2
  Dimm = {d1, long}
  Cut <- Labels
  Probe = {k1}
  Slots = 2
  CountCap = 2
  Limits <- Two
  Burst = 1
INVARIANTS CrossingIsAdvisedOnce
