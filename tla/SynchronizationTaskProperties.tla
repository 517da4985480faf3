-------------------- MODULE SynchronizationTaskProperties --------------------
(* The properties of one synchronization run, stated over SynchronizationTask.   *)
EXTENDS SynchronizationTask, SequencesExt

\* d waits in one of the queues.
Queued(d) == Contains(refreshes, d) \/ Contains(deletes, d)

\* A queue holds no difference twice.
Distinct(q) == \A i, j \in 1..Len(q) : q[i] = q[j] => i = j \/ q[i] = DONE

\* w is handling d.
Handles(w, d) == workerPc[w] = "handle" /\ holding[w] = d

\* Every difference the comparer found is in exactly one place until it meets its
\* fate: not reported yet, in its queue once, or in the hands of one worker. So
\* none is handled twice and none vanishes, whatever is interrupted or thrown
\* (DifferenceQueuer.put, ContentDiffereceTask.run).
Accounted ==
    /\ \A d \in Differences :
        /\ outcome[d] = "pending" <=>
             (d \in found \/ Queued(d) \/ \E w \in Workers : Handles(w, d))
        /\ d \in found => ~Queued(d)
        /\ \A w \in Workers : Handles(w, d) => d \notin found /\ ~Queued(d)
        /\ \A v, w \in Workers : Handles(v, d) /\ Handles(w, d) => v = w
    /\ Distinct(refreshes)
    /\ Distinct(deletes)

\* Deletions put off earlier are carried out last: when Remover.cleanup has
\* returned, no remove of this run is waiting, in hand or still to be reported, so
\* no file is marked for deletion behind its back (DifferenceQueuer.onStop).
CleanupIsLast ==
    cleanedUp =>
        /\ genPc # "compare"
        /\ \A d \in Removes : outcome[d] = "pending" => d \in found

\* A run that does not report INTERRUPTED reports only when no thread of its pool
\* can touch the content set any more (SynchronizationTask.runTasks).
QuietWhenReported ==
    Completed /\ result # "INTERRUPTED" => PoolIdle \/ PoolStopped

\* Unless the run was cancelled, a difference is left in a queue only if every
\* worker that reads the queue died of an exception on another difference: the
\* pills lie behind the differences, and there is one for each worker.
LeftOnlyByTheDead ==
    PoolStopped /\ Pool \cap interrupted = {} =>
        /\ (\E d \in Refreshes : Queued(d)) =>
             \A w \in Requesters : holding[w] \in Refreshes
        /\ (\E d \in Removes : Queued(d)) =>
             holding[Remover] \in Removes

\* The abstract synchronization: the report is given when the event is completed.
Report_ == IF Completed THEN result ELSE NoResult

Promise == INSTANCE Synchronization WITH report <- Report_

\* The run implements Synchronization: its verdict matches what it did and stays
\* true of it.
KeepsPromise == Promise!ASpec

\* run() comes back and the pool comes to rest, unless a worker died of an
\* exception (then the generator may wait for room for ever).
Terminates ==
    <>(\E d \in Differences : outcome[d] = "lost")
      \/ <>[](Left /\ (PoolIdle \/ PoolStopped))

\* shutdownNow reaches every task: the pool of an interrupted run comes to rest,
\* whoever throws, even if the generator was waiting for room in a full queue.
InterruptStopsPool == [](result = "INTERRUPTED" => <>PoolStopped)

\* What the comment on SynchronizationTask.run asks for: the task comes back to
\* the scheduled executor, which can run it again.
ComesBack == <>(phase = "done")

\* What SynchronizationResult says of COMPLETE_NOT_MODIFIED and COMPLETE_MODIFIED:
\* "The content set was in synchronization", "The content set was synchronized".
\* All the differences between inventory and content set have been dealt with.
CompleteMeansSynchronized ==
    phase = "done" /\ result \in {"COMPLETE_NOT_MODIFIED", "COMPLETE_MODIFIED"} =>
        \A d \in Differences : outcome[d] = "handled"
=============================================================================
