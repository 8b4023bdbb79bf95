SPECIFICATION MCSpec
SYMMETRY MCSymmetry
CONSTANTS
  Repo = {"a", "A"}
  Folded <- MCFolded
  Days = {"7", "9"}
  FirstDays <- MCFirstDays
  Zone = {"utc"}
  Team = {"t"}
  MaxRows = 2
  MaxKey = 3
  MaxEdits = 2
  Item = {i1, i2}
  NoItem = NoItem
  Channel = {"telegram", "webhook", "email"}
  AllowPrivate = FALSE
  MaxTyped = 2
  MaxFaults = 1
INVARIANTS FormTypeOK BoardTypeOK RowsTrueOrTold
PROPERTIES ViewsAgree SentAsShown EditsKept
CHECK_DEADLOCK FALSE
