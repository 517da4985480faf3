------------------------- MODULE SynchronizationTask -------------------------
(* One run of SynchronizationTask.run on a consumer: the scheduler's thread that *)
(* drives it, the difference generator, the remover worker and the requester     *)
(* workers, the two bounded queues between them, and the interrupt that stopping *)
(* or re-registering the content set delivers.                                   *)
(*                                                                               *)
(* The phase of the scheduler's thread follows run():                            *)
(*   begin -> connect -> retrieve -> prescan -> await -> inspect                 *)
(*         -> complete -> stop -> announce -> done                               *)
(* An exception caught by run() jumps to "complete", where the finally block     *)
(* starts; one thrown out of the finally block leaves run(): "escaped".          *)
EXTENDS SynchronizationResult, Naturals, Sequences, FiniteSets

CONSTANTS
    Requesters,    \* the requester workers: ConsumerContentSet.concurrentTransfers
    Refreshes,     \* the adds and updates the comparer would report
    Removes,       \* the removes the comparer would report
    QueueSize,     \* SynchronizationTask.QUEUE_SIZE
    Faults,        \* the collaborators that may throw a RuntimeException
    Scheduler, Generator, Remover,  \* the other threads of the run
    DONE,          \* the poison pill: ContentDifferenceActions.DONE
    Nothing        \* what a worker holds that has taken nothing

Differences == Refreshes \cup Removes
Workers == Requesters \cup {Remover}
Pool == Workers \cup {Generator}

\* Mutant: the remover's pill is forgotten in the count.
PillsForRequestersOnly == Cardinality(Requesters)

\* onStop puts one pill for the remover and then one for each requester.
Pills == Cardinality(Requesters) + 1

ASSUME ThreadsAssumption ==
    /\ IsFiniteSet(Requesters)
    /\ Requesters # {}   \* @Min(1) on ConsumerContentSet.concurrentTransfers
    /\ {Scheduler, Generator, Remover} \cap Requesters = {}
    /\ Scheduler # Generator /\ Scheduler # Remover /\ Generator # Remover

ASSUME DifferencesAssumption ==
    /\ IsFiniteSet(Differences)
    /\ Refreshes \cap Removes = {}
    /\ DONE \notin Differences /\ Nothing \notin Differences /\ DONE # Nothing

ASSUME QueueSizeAssumption == QueueSize \in Nat \ {0}

ASSUME FaultsAssumption ==
    Faults \subseteq {"listener", "monitor", "prescan", "comparer", "handler"}

VARIABLES
    phase,        \* where the scheduler's thread is in run()
    result,       \* SynchronizationEvent.result
    registered,   \* the event is in TransferMonitor.consumers
    running,      \* TransferServiceImpl.isRunning
    interrupted,  \* the threads whose interrupt status is set
    genPc,        \* where the generator is in DifferenceGenerator.run
    found,        \* the differences the comparer has not reported yet
    stops,        \* calls of onStop the generator still has to finish
    pills,        \* pills the current call of onStop still has to put
    refreshes, deletes,  \* the two ArrayBlockingQueues
    workerPc,     \* where each worker is in ContentDiffereceTask.run
    holding,      \* the element each worker took and has not handled
    outcome,      \* what became of each difference
    tally,        \* the counters of ConsumerProgress, as zero or not
    cleanedUp     \* Remover.cleanup has returned

mainVars == <<phase, result, registered, running>>
genVars == <<genPc, found, stops, pills>>
workVars == <<workerPc, holding, tally, cleanedUp>>
vars == <<mainVars, interrupted, genVars, refreshes, deletes, workVars, outcome>>

Phases == {"begin", "connect", "retrieve", "prescan", "await", "inspect",
           "complete", "stop", "announce", "done", "escaped"}

\* The event has its final result once event.completed() has returned.
Completed == phase \in {"stop", "announce", "done", "escaped"}

\* run() has returned or thrown.
Left == phase \in {"done", "escaped"}

PoolIdle == genPc = "idle" /\ \A w \in Workers : workerPc[w] = "idle"
PoolStopped == genPc = "stopped" /\ \A w \in Workers : workerPc[w] = "stopped"

\* A difference is pending until a handler has handled it (well or not: the tally
\* knows), an interrupted put dropped it, or a handler's exception lost it.
Outcomes == {"pending", "handled", "dropped", "lost"}

TypeOK ==
    /\ phase \in Phases
    /\ result \in Results \cup {NoResult}
    /\ registered \in BOOLEAN
    /\ running \in BOOLEAN
    /\ interrupted \subseteq Pool \cup {Scheduler}
    /\ genPc \in {"idle", "compare", "onStop", "stopped"}
    /\ found \subseteq Differences
    /\ stops \in 0..2
    /\ pills \in 0..Pills
    /\ refreshes \in Seq(Refreshes \cup {DONE})
    /\ deletes \in Seq(Removes \cup {DONE})
    /\ Len(refreshes) <= QueueSize
    /\ Len(deletes) <= QueueSize
    /\ workerPc \in [Workers -> {"idle", "take", "handle", "stopped"}]
    /\ holding \in [Workers -> Differences \cup {DONE, Nothing}]
    /\ outcome \in [Differences -> Outcomes]
    /\ tally \in Tallies
    /\ cleanedUp \in BOOLEAN

Init ==
    /\ phase = "begin"
    /\ result = NoResult
    /\ registered = FALSE
    /\ running = FALSE
    /\ interrupted = {}
    /\ genPc = "idle"
    /\ found = Differences
    /\ stops = 0
    /\ pills = 0
    /\ refreshes = <<>>
    /\ deletes = <<>>
    /\ workerPc = [w \in Workers |-> "idle"]
    /\ holding = [w \in Workers |-> Nothing]
    /\ outcome = [d \in Differences |-> "pending"]
    /\ tally = {}
    /\ cleanedUp = FALSE

-----------------------------------------------------------------------------
(* The scheduler's thread: SynchronizationTask.run                             *)

Goto(from, to) == phase = from /\ phase' = to

\* The listeners hear that the run started.
NotifyStarted ==
    /\ Goto("begin", "connect")
    /\ UNCHANGED <<result, registered, running, interrupted, genVars, refreshes,
                   deletes, workVars, outcome>>

\* A listener throws before the transport is touched; run() logs the exception.
NotifyStartedFails ==
    /\ "listener" \in Faults
    /\ Goto("begin", "complete")
    /\ UNCHANGED <<result, registered, running, interrupted, genVars, refreshes,
                   deletes, workVars, outcome>>

\* transferService.start: the monitor knows the event, the supplier answered.
Connect ==
    /\ Goto("connect", "retrieve")
    /\ registered' = TRUE
    /\ running' = TRUE
    /\ UNCHANGED <<result, interrupted, genVars, refreshes, deletes, workVars,
                   outcome>>

\* The handshake or the start message meets no supplier.
ConnectUnavailable ==
    /\ Goto("connect", "complete")
    /\ registered' = TRUE
    /\ result' = "FAILED_NO_CONNECTION"
    /\ UNCHANGED <<running, interrupted, genVars, refreshes, deletes, workVars,
                   outcome>>

\* TransferMonitor.startConsumer throws before it has put the event.
ConnectFails ==
    /\ "monitor" \in Faults
    /\ Goto("connect", "complete")
    /\ UNCHANGED <<result, registered, running, interrupted, genVars, refreshes,
                   deletes, workVars, outcome>>

\* getNewInventory succeeds: a new inventory, or the old one is still current.
Retrieve ==
    /\ Goto("retrieve", "prescan")
    /\ UNCHANGED <<result, registered, running, interrupted, genVars, refreshes,
                   deletes, workVars, outcome>>

\* getNewInventory fails: the result says how.
RetrieveInvalid ==
    /\ Goto("retrieve", "complete")
    /\ result' \in Failures
    /\ UNCHANGED <<registered, running, interrupted, genVars, refreshes, deletes,
                   workVars, outcome>>

\* The prescan is done, the metrics are sent, and the pool starts.
StartTasks ==
    /\ Goto("prescan", "await")
    /\ genPc' = "compare"
    /\ workerPc' = [w \in Workers |-> "take"]
    /\ UNCHANGED <<result, registered, running, interrupted, found, stops, pills,
                   refreshes, deletes, holding, tally, cleanedUp, outcome>>

\* sendMetrics meets no supplier.
MetricsUnavailable ==
    /\ Goto("prescan", "complete")
    /\ result' = "FAILED_NO_CONNECTION"
    /\ UNCHANGED <<registered, running, interrupted, genVars, refreshes, deletes,
                   workVars, outcome>>

\* Reading the inventory or comparing throws in the scheduler's thread: run()
\* logs the exception and sets no result.
PrescanFails ==
    /\ "prescan" \in Faults
    /\ \E from \in {"retrieve", "prescan"} : Goto(from, "complete")
    /\ UNCHANGED <<result, registered, running, interrupted, genVars, refreshes,
                   deletes, workVars, outcome>>

\* awaitTermination returns: every task of the pool has stopped.
AwaitReturns ==
    /\ Goto("await", "inspect")
    /\ PoolStopped
    /\ UNCHANGED <<result, registered, running, interrupted, genVars, refreshes,
                   deletes, workVars, outcome>>

\* Mutant: the result is left to be computed.
AwaitInterruptedSilently ==
    /\ Goto("await", "complete")
    /\ Scheduler \in interrupted
    /\ interrupted' = (interrupted \ {Scheduler}) \cup Pool
    /\ UNCHANGED <<result, registered, running, genVars, refreshes, deletes,
                   workVars, outcome>>

\* Mutant: shutdown in place of shutdownNow.
AwaitInterruptedPolitely ==
    /\ Goto("await", "complete")
    /\ Scheduler \in interrupted
    /\ result' = "INTERRUPTED"
    /\ interrupted' = interrupted \ {Scheduler}
    /\ UNCHANGED <<registered, running, genVars, refreshes, deletes, workVars,
                   outcome>>

\* awaitTermination throws InterruptedException, which clears the status; the
\* pool is told to stop with shutdownNow and is not waited for.
AwaitInterrupted ==
    /\ Goto("await", "complete")
    /\ Scheduler \in interrupted
    /\ result' = "INTERRUPTED"
    /\ interrupted' = (interrupted \ {Scheduler}) \cup Pool
    /\ UNCHANGED <<registered, running, genVars, refreshes, deletes, workVars,
                   outcome>>

\* generateResults counts the files of the content set, or throws trying.
Inspect ==
    /\ Goto("inspect", "complete")
    /\ UNCHANGED <<result, registered, running, interrupted, genVars, refreshes,
                   deletes, workVars, outcome>>

\* Mutant: a result that was set is computed over.
CompleteComputesAnyway ==
    /\ Goto("complete", "stop")
    /\ result' = ComputeResult(tally)
    /\ UNCHANGED <<registered, running, interrupted, genVars, refreshes, deletes,
                   workVars, outcome>>

\* event.completed: the result is computed unless it was set.
Complete ==
    /\ Goto("complete", "stop")
    /\ result' = IF result = NoResult THEN ComputeResult(tally) ELSE result
    /\ UNCHANGED <<registered, running, interrupted, genVars, refreshes, deletes,
                   workVars, outcome>>

\* transferService.stop, the monitor first.
StopTransport ==
    /\ Goto("stop", "announce")
    /\ registered
    /\ running' = FALSE
    /\ UNCHANGED <<result, registered, interrupted, genVars, refreshes, deletes,
                   workVars, outcome>>

\* TransferMonitor.completeConsumer dereferences a value that was never put.
StopUnregistered ==
    /\ Goto("stop", "escaped")
    /\ ~registered
    /\ UNCHANGED <<result, registered, running, interrupted, genVars, refreshes,
                   deletes, workVars, outcome>>

\* The listeners hear that the run completed.
NotifyCompleted ==
    /\ Goto("announce", "done")
    /\ UNCHANGED <<result, registered, running, interrupted, genVars, refreshes,
                   deletes, workVars, outcome>>

NotifyCompletedFails ==
    /\ "listener" \in Faults
    /\ Goto("announce", "escaped")
    /\ UNCHANGED <<result, registered, running, interrupted, genVars, refreshes,
                   deletes, workVars, outcome>>

Run ==
    \/ NotifyStarted \/ NotifyStartedFails
    \/ Connect \/ ConnectUnavailable \/ ConnectFails
    \/ Retrieve \/ RetrieveInvalid
    \/ StartTasks \/ MetricsUnavailable \/ PrescanFails
    \/ AwaitReturns \/ AwaitInterrupted \/ Inspect
    \/ Complete
    \/ StopTransport \/ StopUnregistered
    \/ NotifyCompleted \/ NotifyCompletedFails

\* SimpleScheduler.cancel and ThreadPoolTaskExecutor.cancel: the content set is
\* disabled, saved or removed while its run is in progress. Once the thread has
\* left awaitTermination no step of it looks at the status any more.
Cancel ==
    /\ phase \in {"begin", "connect", "retrieve", "prescan", "await"}
    /\ Scheduler \notin interrupted
    /\ interrupted' = interrupted \cup {Scheduler}
    /\ UNCHANGED <<mainVars, genVars, refreshes, deletes, workVars, outcome>>

-----------------------------------------------------------------------------
(* The generator: DifferenceGenerator.run and DifferenceQueuer                 *)

\* Mutants: a queue without a bound; a stack in place of a queue.
PutRefreshUnbounded(d) == refreshes' = Append(refreshes, d) /\ UNCHANGED deletes

PutRefreshFirst(d) ==
    /\ Len(refreshes) < QueueSize
    /\ refreshes' = <<d>> \o refreshes
    /\ UNCHANGED deletes

PutDeleteFirst(d) ==
    /\ Len(deletes) < QueueSize
    /\ deletes' = <<d>> \o deletes
    /\ UNCHANGED refreshes

\* DifferenceQueuer.put, by a thread that is not interrupted: waits for room.
PutRefresh(d) ==
    /\ Len(refreshes) < QueueSize
    /\ refreshes' = Append(refreshes, d)
    /\ UNCHANGED deletes

PutDelete(d) ==
    /\ Len(deletes) < QueueSize
    /\ deletes' = Append(deletes, d)
    /\ UNCHANGED refreshes

\* onAdd, onUpdate and onRemove.
Report ==
    /\ genPc = "compare"
    /\ Generator \notin interrupted
    /\ \E d \in found :
        /\ found' = found \ {d}
        /\ \/ d \in Refreshes /\ PutRefresh(d)
           \/ d \in Removes /\ PutDelete(d)
    /\ UNCHANGED <<mainVars, interrupted, genPc, stops, pills, workVars, outcome>>

\* put throws InterruptedException, even if the queue has room: the difference
\* is dropped and the status is set again.
DropReport ==
    /\ genPc = "compare"
    /\ Generator \in interrupted
    /\ \E d \in found :
        /\ found' = found \ {d}
        /\ outcome' = [outcome EXCEPT ![d] = "dropped"]
    /\ UNCHANGED <<mainVars, interrupted, genPc, stops, pills, refreshes, deletes,
                   workVars>>

\* Begin the calls of onStop the generator has left to make: n of them.
BeginStops(n) ==
    /\ genPc = "compare"
    /\ genPc' = "onStop"
    /\ stops' = n
    /\ pills' = Pills
    /\ UNCHANGED <<mainVars, interrupted, found, refreshes, deletes, workVars,
                   outcome>>

\* The comparer reaches its finally block: all is reported, or it saw the interrupt.
CompareReturns == (found = {} \/ Generator \in interrupted) /\ BeginStops(1)

\* The inventory cannot be opened: only run() calls onStop.
OpenFails == "comparer" \in Faults /\ found = Differences /\ BeginStops(1)

\* The comparer throws: its finally block calls onStop, and run() calls it again.
CompareFails == "comparer" \in Faults /\ BeginStops(2)

PutDone ==
    /\ genPc = "onStop"
    /\ pills > 0
    /\ pills' = pills - 1
    /\ IF Generator \in interrupted
       THEN UNCHANGED <<refreshes, deletes>>
       ELSE IF pills = Pills THEN PutDelete(DONE) ELSE PutRefresh(DONE)
    /\ UNCHANGED <<mainVars, interrupted, genPc, found, stops, workVars, outcome>>

OnStopReturns ==
    /\ genPc = "onStop"
    /\ pills = 0
    /\ stops' = stops - 1
    /\ IF stops > 1
       THEN pills' = Pills /\ UNCHANGED genPc
       ELSE genPc' = "stopped" /\ UNCHANGED pills
    /\ UNCHANGED <<mainVars, interrupted, found, refreshes, deletes, workVars,
                   outcome>>

Generate ==
    \/ Report \/ DropReport
    \/ CompareReturns \/ OpenFails \/ CompareFails
    \/ PutDone \/ OnStopReturns

-----------------------------------------------------------------------------
(* The workers: ContentDiffereceTask.run with a Requester or the Remover       *)

Take(w) ==
    /\ workerPc[w] = "take"
    /\ w \notin interrupted
    /\ IF w = Remover
       THEN /\ deletes # <<>>
            /\ holding' = [holding EXCEPT ![w] = Head(deletes)]
            /\ deletes' = Tail(deletes)
            /\ UNCHANGED refreshes
       ELSE /\ refreshes # <<>>
            /\ holding' = [holding EXCEPT ![w] = Head(refreshes)]
            /\ refreshes' = Tail(refreshes)
            /\ UNCHANGED deletes
    /\ workerPc' = [workerPc EXCEPT ![w] = "handle"]
    /\ UNCHANGED <<mainVars, interrupted, genVars, tally, cleanedUp, outcome>>

\* Mutant: the interrupt is seen after an element has been taken.
WorkerInterruptedTaking(w) ==
    /\ workerPc[w] = "take"
    /\ w \in interrupted
    /\ workerPc' = [workerPc EXCEPT ![w] = "stopped"]
    /\ refreshes' = IF w \in Requesters /\ refreshes # <<>> THEN Tail(refreshes)
                    ELSE refreshes
    /\ UNCHANGED <<mainVars, interrupted, genVars, deletes, holding, tally,
                   cleanedUp, outcome>>

\* The loop ends, or take throws InterruptedException and then it ends.
WorkerInterrupted(w) ==
    /\ workerPc[w] = "take"
    /\ w \in interrupted
    /\ workerPc' = [workerPc EXCEPT ![w] = "stopped"]
    /\ UNCHANGED <<mainVars, interrupted, genVars, refreshes, deletes, holding,
                   tally, cleanedUp, outcome>>

\* The worker is done with a difference that counted for more.
Handled(w, more) ==
    /\ workerPc[w] = "handle"
    /\ holding[w] # DONE
    /\ outcome' = [outcome EXCEPT ![holding[w]] = "handled"]
    /\ tally' = tally \cup more
    /\ holding' = [holding EXCEPT ![w] = Nothing]
    /\ workerPc' = [workerPc EXCEPT ![w] = "take"]
    /\ UNCHANGED <<mainVars, interrupted, genVars, refreshes, deletes, cleanedUp>>

\* Requester.handle: a directory is created or a file is requested; the transfer
\* completes, waits for a GBS delivery (counted as completed) or fails.
HandleRefresh(w) ==
    w \in Requesters /\ \E more \in {{"completed"}, {"failed"}} : Handled(w, more)

\* Remover.handle: the files are deleted, each counted, or marked for deletion;
\* deletes may fail first and succeed when tried again; nothing is counted if the
\* file is gone or its mark is already due.
HandleRemove == \E more \in Tallies : Handled(Remover, more)

\* Requester.cleanup does nothing; the worker then interrupts itself.
CleanupRequester(w) ==
    /\ w \in Requesters
    /\ workerPc[w] = "handle"
    /\ holding[w] = DONE
    /\ workerPc' = [workerPc EXCEPT ![w] = "stopped"]
    /\ UNCHANGED <<mainVars, interrupted, genVars, refreshes, deletes, holding,
                   tally, cleanedUp, outcome>>

\* Remover.cleanup deletes the files whose deletion is due.
CleanupRemover ==
    /\ workerPc[Remover] = "handle"
    /\ holding[Remover] = DONE
    /\ \E o \in Tallies : tally' = tally \cup o
    /\ cleanedUp' = TRUE
    /\ workerPc' = [workerPc EXCEPT ![Remover] = "stopped"]
    /\ UNCHANGED <<mainVars, interrupted, genVars, refreshes, deletes, holding,
                   outcome>>

\* A RuntimeException leaves the loop: the worker's thread dies. A requester gets
\* one (TransportLifeCycleException) as soon as the transport is stopped. It counts
\* last of all; the remover may have counted files before.
HandlerFails(w) ==
    /\ workerPc[w] = "handle"
    /\ \/ "handler" \in Faults
       \/ w \in Requesters /\ ~running /\ holding[w] # DONE
    /\ outcome' = IF holding[w] = DONE THEN outcome
                  ELSE [outcome EXCEPT ![holding[w]] = "lost"]
    /\ \E more \in IF w = Remover THEN Tallies ELSE {{}} : tally' = tally \cup more
    /\ workerPc' = [workerPc EXCEPT ![w] = "stopped"]
    /\ UNCHANGED <<mainVars, interrupted, genVars, refreshes, deletes, holding,
                   cleanedUp>>

Work(w) ==
    \/ Take(w) \/ WorkerInterrupted(w)
    \/ HandleRefresh(w) \/ CleanupRequester(w)
    \/ w = Remover /\ (HandleRemove \/ CleanupRemover)
    \/ HandlerFails(w)

\* Everything has stopped: the only state in which the system may rest.
Finished ==
    /\ Left
    /\ PoolIdle \/ PoolStopped
    /\ UNCHANGED vars

Next ==
    \/ Run
    \/ Cancel
    \/ Generate
    \/ \E w \in Workers : Work(w)
    \/ Finished

\* Every thread keeps running while it can; nobody has to cancel.
Fairness ==
    /\ WF_vars(Run)
    /\ WF_vars(Generate)
    /\ \A w \in Workers : WF_vars(Work(w))

Spec == Init /\ [][Next]_vars /\ Fairness
=============================================================================
