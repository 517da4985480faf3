SPECIFICATION Spec
CONSTANTS
    Requests <- ThreeRequests
    Boot = Boot
    None = None
    MaxAtOnce = 2
    MaxRestarts = 1
CHECK_DEADLOCK FALSE
INVARIANTS
    TypeOK
    Agreement
    OneActive
PROPERTIES
    GoesQuiet
    ComesToRun
