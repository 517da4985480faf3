SPECIFICATION Spec
CONSTANTS
    r1 = r1
    r2 = r2
    a = a
    b = b
    c = c
    Requesters <- MCRequesters
    Refreshes <- OneRefresh
    Removes <- MCRemoves
    QueueSize = 2
    Faults <- ComparerFaults
    Scheduler = Scheduler
    Generator = Generator
    Remover = Remover
    DONE = DONE
    Nothing = Nothing
INVARIANTS
    CompleteMeansSynchronized
