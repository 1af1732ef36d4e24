\* The one line that docs/readyshell_rsv1_format.md describes.
SPECIFICATION Spec
CONSTANTS
  Suite = {"shellsave"}
  Nothing = Nothing
INVARIANTS
  ShellSavesItems
CHECK_DEADLOCK FALSE
