---------------------- MODULE TransferServiceProperties ----------------------
(* The properties of the transfer service, stated over TransferService.          *)
EXTENDS TransferService

\* Permits that are not available: the callers' and those stop has collected.
Taken == Cardinality(holders) + (IF phase \in {"acquired", "stopped"} THEN Limit ELSE 0)

\* No permit is lost, whatever is interrupted and whenever the session goes, so
\* that stop can collect them all; and the limit on concurrent transfers is
\* exceeded by no more than one for each caller that has been interrupted
\* (TransferServiceImpl.process, saturationLimit).
PermitsAccounted ==
    /\ permits + Taken >= Limit
    /\ permits + Taken <= Limit + Cardinality(interrupted)

\* A caller that is not interrupted transfers under a permit and in the session of
\* its own run, and the service stays up under it: stop does not overtake it, and
\* no straggler of an earlier run disturbs it (TransferServiceImpl.stop).
Undisturbed ==
    \A c \in active \ interrupted :
        /\ c \in holders
        /\ session[c] = c[1]
        /\ isRunning
        /\ currSession = c[1]

\* stop comes back: the permits it waits for are all given back.
StopReturns == phase = "stop" ~> phase = "idle"

\* An interrupted caller leaves process and ends.
InterruptedLeave == \A c \in Callers : c \in interrupted ~> pc[c] = "off"

\* What the comment in stop says: "Wait until no more transfers are active". When
\* the stop message is sent, no transfer is in progress.
NoTransferAtStop == phase = "stopped" => active = {}
=============================================================================
