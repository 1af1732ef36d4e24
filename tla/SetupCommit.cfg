\* Two paths, a file of two writes; two commands of an attempt fail, and the
\* machine may be switched off.
SPECIFICATION Spec
CONSTANTS
  Paths = {p1, p2}
  Foreign = foreign
  Size = 2
  MaxFailed = 2
INVARIANTS
  CopyKept
  ConfiguredMeansWritten
  PreexistingKept
  InPlace
  CommitInv
