\* The task list alone: notes in whatever order they were written.
SPECIFICATION Spec
CONSTANTS
  Suite = {"tasklist"}
PROPERTY TasksNotesKept
CHECK_DEADLOCK FALSE
