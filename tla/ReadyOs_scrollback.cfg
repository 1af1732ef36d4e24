\* A chat client that is unloaded, loaded again and started.
SPECIFICATION Spec
CONSTANTS
  ed = ed  pl = pl  qn = qn  irc = irc  rb = rb
  None = None
  Prog <- MCProg
  DefaultSlot <- MCDefaultSlot
  DiskCatalog <- EditorAndChat
  Manifests = {}
  Owners = {qn, irc}
  Trusting = {irc}
  NeedsBasic = {rb}
  NBanks = 6
  Skip = 0
  Phys = 4
  NSlots = 0
  NTokens = 2
  MaxApps = 2
  MaxRecs = 1
  MaxClips = 1
  NoteBanks <- MCNoteBanks
  Earlier = {}
INVARIANTS
  HeldBanksAllocated
