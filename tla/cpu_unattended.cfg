SPECIFICATION UnattendedSpec
CONSTANTS
  c0 = c0
  c1 = c1
  c2 = c2
  CPU = {c1, c2}
  Protected = {}
  Modes = {"full", "inactive"}
  Policies <- DeferOrNot
  CountCap = 1
  Pinnable = {c1}
INVARIANTS TypeOK IsolatedIsGone GoneIsRecoverable
PROPERTIES PromiseKept
