\* The REU had one bank more when an earlier session wrote its tables.
SPECIFICATION Spec
CONSTANTS
  ed = ed  pl = pl  qn = qn  irc = irc  rb = rb
  None = None
  Prog <- MCProg
  DefaultSlot <- MCDefaultSlot
  DiskCatalog <- EditorAlone
  Manifests = {}
  Owners = {qn, irc}
  Trusting = {irc}
  NeedsBasic = {rb}
  NBanks = 6
  Skip = 0
  Phys = 4
  NSlots = 0
  NTokens = 2
  MaxApps = 2
  MaxRecs = 2
  MaxClips = 1
  NoteBanks <- MCNoteBanks
  Earlier = {5}
INVARIANTS
  FixedBanks
