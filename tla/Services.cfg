\* One behaviour of one program each; every program may stop.
SPECIFICATION Spec
CONSTANTS
  Suite = {"probe", "simplefiles", "game2048", "deminer", "sidetris", "uzip", "uci", "dma", "parse", "shell", "calcplus", "clipmgr", "menu", "resume"}
  Nothing = Nothing
INVARIANTS
  LauncherSound
  FilesSound
  GamesSound
  ZipSound
  UltimateSound
  ParseSound
  ShellSound
  CalcSound
CHECK_DEADLOCK FALSE
