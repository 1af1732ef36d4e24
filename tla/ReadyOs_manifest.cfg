\* Manifests add a plain program or ReadyBASIC, for which the record table
\* is too small, besides an editor with a hotkey; the ReadyOS bank is 1 of
\* 0..6, every bank exists and the last one is reserved.
SPECIFICATION Spec
CONSTANTS
  ed = ed  pl = pl  qn = qn  irc = irc  rb = rb
  None = None
  Prog <- MCProg
  DefaultSlot <- MCDefaultSlot
  DiskCatalog <- EditorAlone
  Manifests = {pl, rb}
  Owners = {qn, irc}
  Trusting = {irc}
  NeedsBasic = {rb}
  NBanks = 7
  Skip = 1
  Phys = 7
  NSlots = 1
  NTokens = 2
  MaxApps = 2
  MaxRecs = 1
  MaxClips = 1
  NoteBanks <- MCNoteBanks
  Earlier = {}
INVARIANTS
  TypeOK
  SessionInv
  HotkeyInSession
  SnapshotImage
PROPERTIES
  NoBankLost
