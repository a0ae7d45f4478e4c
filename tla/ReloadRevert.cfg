SPECIFICATION FairSpec
CONSTANTS
    File = {yaml}
    FatalFile = {yaml}
    Content = {0, 1, 2}
    Broken = {1}
    Reverts = TRUE
    MaxEdits = 2
    MaxSignals = 3
    Unread = Unread
PROPERTY EventuallyFresh
CHECK_DEADLOCK FALSE
