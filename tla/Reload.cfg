SPECIFICATION FairSpec
CONSTANTS
    File = {dir, conf}
    FatalFile = {dir}
    Content = {0, 1, 2}
    Broken = {1}
    Reverts = FALSE
    MaxEdits = 2
    MaxSignals = 3
    Unread = Unread
INVARIANTS
    SettledIsFresh
PROPERTIES
    EventuallyFresh
    EventuallyQuiet
    ShutdownReturns
CHECK_DEADLOCK FALSE
