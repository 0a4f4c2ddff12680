SPECIFICATION Spec
CONSTANTS
  Wanted = 1
  Levels = {0, 2}
  Boxes <- AnyBox
INVARIANTS TypeOK AbsentIsClean RecordsOutlive SuppressedWhileListening TolerantRestored
PROPERTIES DownEnds HandlersFindTheirQueue
CHECK_DEADLOCK FALSE
