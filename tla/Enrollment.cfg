SPECIFICATION Spec
CONSTANTS
  VM = {a, b}
  EK = {k1, k2}
  Conn = {c1, c2}
  Session = {s1, s2}
  ModeChoices = {"yaml", "proxmox"}
  OutsideKinds <- MCOutside
  MaxOutside = 1
  NoPin = NoPin
  Empty = Empty
  Unlisted = Unlisted
  NoVM = NoVM
  NoConn = NoConn
  NoSession = NoSession
SYMMETRY Symmetry
INVARIANTS
  PinsUnique
  CertsBacked
  SoleOwner
