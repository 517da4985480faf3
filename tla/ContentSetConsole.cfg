SPECIFICATION Spec
CONSTANTS
    Top = Top
    Folder = Folder
    None = None
    Gone = Gone
    Closed = Closed
    New = New
    Free = Free
    Slots <- TwoCalls
    MaxClicks = 4
CHECK_DEADLOCK FALSE
INVARIANTS
    TypeOK
    NoDuplicates
    LoadingIsAwaited
    TreeIsFresh
    FormStaysTrue
PROPERTIES
    MasksGo
    LoadEnds
