-------------------- MODULE ContentSetManagementProperties --------------------
(* The properties of content set management.                                     *)
EXTENDS ContentSetManagement

\* When no request is in progress, none have overlapped and the last did not fail after
\* it had come to the manager, the manager does what the database says: a scheduler for
\* a row and for nothing else, with a future if and only if the row is enabled. So the
\* next request that succeeds, or a restart, heals what a failed one left behind, the
\* error that makePersistent swallows included (ContentServiceImpl, ContentSetManager).
Agreement ==
    apart /\ Idle /\ ~failed =>
        /\ registered # None <=> Exists
        /\ scheduled = IF row = "on" THEN {registered} ELSE {}

\* Unless requests have overlapped, no scheduler is out of reach, whatever has failed:
\* all that can start a task is in the map, or held by the request that is about to stop
\* it, so that at no time two runs of the content set go on that nobody interrupted
\* (ContentSetManager.registerContentSet).
OneActive ==
    /\ apart => scheduled \subseteq {registered}
    /\ apart => Cardinality(running \ interrupted) <= 1

\* A content set that has been disabled or removed comes to rest, the run that the
\* request interrupted included, unless another request comes. A failed request may
\* leave the task scheduled of a content set whose row is disabled or was never made.
GoesQuiet ==
    apart /\ Idle /\ ~failed /\ row \in {"off", "gone"}
        ~> running = {} \/ ~Idle \/ ~apart

\* A content set that is enabled is run again, also after failed requests once one has
\* succeeded, unless a request comes or its task has thrown
\* (ContentSetManager.startContentSet).
ComesToRun ==
    apart /\ Idle /\ ~failed /\ row = "on"
        ~> running \ interrupted # {} \/ dropped # {} \/ ~Idle \/ ~apart
=============================================================================
