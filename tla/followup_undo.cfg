SPECIFICATION Spec
CONSTANTS
  Row = {r1}
  SheetRow = {}
  NoRow = NoRow
  MaxCalls = 4
  MaxVersion = 2
  MaxFaults = 0
PROPERTY FailedUndoHandedBack
CHECK_DEADLOCK FALSE
