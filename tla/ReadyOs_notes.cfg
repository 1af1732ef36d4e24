\* An editor and a notes program compete with the clipboard for banks 1..3;
\* banks 4 and 5 do not exist.
SPECIFICATION Spec
CONSTANTS
  ed = ed  pl = pl  qn = qn  irc = irc  rb = rb
  None = None
  Prog <- MCProg
  DefaultSlot <- MCDefaultSlot
  DiskCatalog <- EditorAndNotes
  Manifests = {}
  Owners = {qn, irc}
  Trusting = {irc}
  NeedsBasic = {rb}
  NBanks = 6
  Skip = 0
  Phys = 4
  NSlots = 0
  NTokens = 2
  MaxApps = 2
  MaxRecs = 2
  MaxClips = 1
  NoteBanks <- MCNoteBanks
  Earlier = {3}
INVARIANTS
  FixedBanks
  BanksOwnedOnce
  RunsAtHome
  OwnersLoaded
  HeldBanksAllocated
PROPERTIES
  NoBankLost
  ReturnKeepsLoaded
