SPECIFICATION Spec
CONSTANTS
    file = file
    dir = dir
    v1 = v1
    v2 = v2
    Entries <- FileAndDir
    Dirs <- OneDir
    Versions <- TwoVersions
    MaxDiffs = 2
    MaxClock = 4
    MaxEdits = 2
    MaxFaults = 2
    None = None
    Same = Same
INVARIANTS
    TypeOK
    Contiguous
    Faithful
PROPERTIES
    Converges
\* With the bundles at the consumer there is nothing left to do.
CHECK_DEADLOCK FALSE
