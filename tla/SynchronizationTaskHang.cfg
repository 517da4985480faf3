SPECIFICATION Spec
CONSTANTS
    r1 = r1
    r2 = r2
    a = a
    b = b
    c = c
    Requesters <- OneRequester
    Refreshes = {}
    Removes <- TwoRemoves
    QueueSize = 1
    Faults <- HandlerFaults
    Scheduler = Scheduler
    Generator = Generator
    Remover = Remover
    DONE = DONE
    Nothing = Nothing
PROPERTIES
    ComesBack
\* The generator can be left waiting for room for ever.
CHECK_DEADLOCK FALSE
