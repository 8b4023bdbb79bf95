SPECIFICATION FairSpec
CONSTANTS
  Row = {r1, r2}
  SheetRow = {r1}
  NoRow = NoRow
  MaxCalls = 2
  MaxVersion = 2
  MaxFaults = 1
INVARIANTS TypeOK QuietListTrue ToastNamesSlot
PROPERTY CallsEnd
CHECK_DEADLOCK FALSE
