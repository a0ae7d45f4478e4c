SPECIFICATION FairSpec
CONSTANTS
    Guest = {g1, g2}
    MAC = {m}
    NoMAC = NoMAC
    Reverts = FALSE
    MaxEdits = 1
    MaxHarm = 2
    Unread = Unread
    Missing = Missing
    Altered = Altered
    Never = Never
PROPERTIES
    TableRestored
