\* A manifest app that does not load, while another app is loaded.
SPECIFICATION Spec
CONSTANTS
  ed = ed  pl = pl  qn = qn  irc = irc  rb = rb
  None = None
  Prog <- MCProg
  DefaultSlot <- MCDefaultSlot
  DiskCatalog <- EditorAlone
  Manifests = {pl, rb}
  Owners = {qn, irc}
  Trusting = {irc}
  NeedsBasic = {rb}
  NBanks = 5
  Skip = 0
  Phys = 5
  NSlots = 1
  NTokens = 3
  MaxApps = 2
  MaxRecs = 1
  MaxClips = 1
  NoteBanks <- MCNoteBanks
  Earlier = {}
PROPERTIES
  ReturnKeepsLoaded
