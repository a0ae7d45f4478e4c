SPECIFICATION FairSpec
CONSTANTS
    peer1 = peer1
    peer2 = peer2
    Peer = {peer1, peer2}
    Conn = {1, 2}
    From <- MCFrom
    Req = {1, 2}
    limitWindow = 2
    Limits <- MCLimits
    MaxTime = 3
    NoPeer = NoPeer
    NoConn = NoConn
    NoTime = NoTime
INVARIANTS
    WithinBudget
    SlotsAreConns
PROPERTIES
    RefusalsJustified
    OneLinePerWindow
    IdleForgotten
