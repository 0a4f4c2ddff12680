SPECIFICATION Spec
CONSTANTS
  c1 = c1
  c2 = c2
  c3 = c3
  i1 = i1
  CPU = {c1, c2}
  Irq = {i1}
  Modes = {"full", "inactive", "soft"}
  Boxes <- AnyBox
INVARIANTS TypeOK SuccessIsReal NeverShortCircuited
PROPERTIES OutcomeKept
