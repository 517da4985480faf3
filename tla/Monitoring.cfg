SPECIFICATION Spec
CONSTANTS
    s1 = s1
    s2 = s2
    Syncs <- TwoSyncs
    Watched = s1
    MaximumEntries = 1
    MaxClicks = 2
    MaxChanges = 4
    Unknown = Unknown
    Sent = Sent
CHECK_DEADLOCK FALSE
INVARIANTS
    TypeOK
    EachOnce
    OnlyDetoursAddLoops
PROPERTIES
    ActiveSettles
    PanelSettles
