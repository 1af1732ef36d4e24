\* The calendar is left, its file is changed, and it starts again with its payload.
SPECIFICATION Spec
CONSTANTS
  NDays = 2
  MaxRecord = 6
  MaxDayItems = 2
  PageSize = 2
  Text = {x, y}
  DoneText = {y}
  Blank = Blank
  Modes = {"resume"}
INVARIANT LiveRecordsStable
CHECK_DEADLOCK FALSE
