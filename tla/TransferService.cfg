SPECIFICATION Spec
CONSTANTS
    r1 = r1
    r2 = r2
    Requesters <- OneRequester
    Runs = 2
    Limit = 1
    Scheduler = Scheduler
    NoSession = NoSession
INVARIANTS
    TypeOK
    PermitsAccounted
    Undisturbed
PROPERTIES
    StopReturns
    InterruptedLeave
