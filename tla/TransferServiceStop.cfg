SPECIFICATION Spec
CONSTANTS
    r1 = r1
    r2 = r2
    Requesters <- TwoRequesters
    Runs = 1
    Limit = 1
    Scheduler = Scheduler
    NoSession = NoSession
INVARIANTS
    NoTransferAtStop
