SPECIFICATION FairSpec
CONSTANTS
    VM = {v, w}
    TPM = {t, u}
    FirstVM = v
    FirstTPM = t
    Session = {1, 2, 3, 4, 5, 6}
    MaxTroubles = 2
    MaxEdits = 1
    NoVM = NoVM
    NoTPM = NoTPM
    NoFile = NoFile
    Bad = Bad
    Cut = Cut
    NoKey = NoKey
    NoCert = NoCert
INVARIANTS
    CertNeverNewerThanKey
    CertWasGranted
    SlotsKept
    StaleCacheIsAgentsOwn
PROPERTIES
    KeyKept
    EventuallyFit
