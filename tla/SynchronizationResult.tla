------------------------ MODULE SynchronizationResult ------------------------
(* The verdict a consumer synchronization reports: the enum SynchronizationResult *)
(* and the rule by which SynchronizationEvent computes one when none was set.      *)
(* The counters of ConsumerProgress matter to the rule only as zero or not zero,   *)
(* so a tally is a subset of {"completed", "failed"}.                              *)

\* SynchronizationEvent.result is null until it is set or computed.
NoResult == "none"

\* Results with failure = true: set explicitly, never computed.
Failures == {"FAILED_NO_CONNECTION", "FAILED_INVALID_SUPPLIER",
             "FAILED_SUPPLIER_IS_DISABLED", "FAILED_UNAUTHORIZED", "FAILED"}

\* Results computed from the progress of the run.
Computed == {"COMPLETE_NOT_MODIFIED", "COMPLETE_MODIFIED", "COMPLETE_WITH_ERRORS"}

Results == Failures \cup Computed \cup {"INTERRUPTED"}

Tallies == SUBSET {"completed", "failed"}

\* SynchronizationEvent.isEmpty and computeResult.
ComputeResult(tally) ==
    IF tally = {} THEN "COMPLETE_NOT_MODIFIED"
    ELSE IF "failed" \in tally THEN "COMPLETE_WITH_ERRORS"
    ELSE "COMPLETE_MODIFIED"
=============================================================================
