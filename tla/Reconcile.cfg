SPECIFICATION FairSpec
CONSTANTS
    c = c
    d = d
    v = v
    w = w
    a = a
    f = f
    g = g
    Cluster = {c, d}
    Targets <- MCTargets
    Fp = {f, g}
    Fingerprints <- MCFingerprints
    VM = {v, w}
    Pool = {"Web", "web", "db"}
    Tag = {"role.x", "role.+"}
    Name = {"web", "db", "x"}
    Segment <- MCSegment
    Guest <- MCGuest
    InitGuests <- MCInit
    InitEntries <- MCEntries
    Agent = {a}
    Home <- MCHome
    AgentVM <- MCAgentVM
    HandAliases <- MCHand
    Changing <- MCChanging
    MaxChanges = 2
    MaxTroubles = 1
    NoGuest = NoGuest
    NoPool = NoPool
    NoVM = NoVM
    NoCluster = NoCluster
    Invalid = Invalid
    Unlisted = Unlisted
INVARIANTS
    BannedIsDead
PROPERTIES
    MoveKeepsPool
    EventuallyInLine
    DestroyedBanned
