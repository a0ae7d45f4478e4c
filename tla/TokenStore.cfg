SPECIFICATION FairSpec
CONSTANTS
    Peer = {p, q}
    Token = {t1, t2, t3, t4}
    MaxLiveTokensPerPeer = 2
    GlobalTokenEmergencyCap = 3
    TokenTTL = 1
    MaxTime = 2
    NoPeer = NoPeer
INVARIANTS
    Accounting
    WithinQuota
    TokenHonoured
PROPERTIES
    RefusalCostsNothing
    ExpiredLeave
