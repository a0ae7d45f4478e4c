SPECIFICATION FairSpec
CONSTANTS
  VM = {a}
  EK = {k}
  Conn = {c1, c2}
  Session = {s1, s2}
  ModeChoices = {"proxmox", "required"}
  OutsideKinds <- MCPins
  MaxOutside = 1
  NoPin = NoPin
  Empty = Empty
  Unlisted = Unlisted
  NoVM = NoVM
  NoConn = NoConn
  NoSession = NoSession
INVARIANT RequireHonoured
PROPERTIES
  RequestsAnswered
  ImplementsService
