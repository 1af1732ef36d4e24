\* One behaviour of one program each; every program may stop.
SPECIFICATION Spec
CONSTANTS
  Suite = {"cal26", "simplecells", "tasklist", "editor", "quicknotes", "dizzy", "readyirc"}
INVARIANTS
  CalTablesMatch
  CalLiveRecordsStable
  CellsSound
  TasksSound
  EditorSound
  QuickNotesSound
  DizzySound
  IrcSound
PROPERTIES
  CalIsLists
  OthersKept
CHECK_DEADLOCK FALSE
