SPECIFICATION Spec
CONSTANTS
    r1 = r1
    r2 = r2
    a = a
    b = b
    c = c
    Requesters <- MCRequesters
    Refreshes <- OneRefresh
    Removes <- MCRemoves
    QueueSize = 2
    Faults <- AllFaults
    Scheduler = Scheduler
    Generator = Generator
    Remover = Remover
    DONE = DONE
    Nothing = Nothing
INVARIANTS
    TypeOK
    Accounted
    CleanupIsLast
    QuietWhenReported
    LeftOnlyByTheDead
PROPERTIES
    KeepsPromise
    Terminates
    InterruptStopsPool
\* A worker's exception can leave the generator waiting for room for ever.
CHECK_DEADLOCK FALSE
