---------------------- MODULE SynchronizationTaskProofs ----------------------
(* Proofs of the safety properties of SynchronizationTask for every number of    *)
(* requesters, every set of differences, every queue size and every fault.       *)
EXTENDS SynchronizationTaskProperties, FiniteSetTheorems, TLAPS

\* onStop puts at least one pill.
LEMMA PillsType == Pills \in Nat \ {0}
  BY FS_CardinalityType, ThreadsAssumption DEF Pills

\* What put does to a queue.
LEMMA Appended ==
  ASSUME NEW S, NEW q \in Seq(S), NEW e \in S
  PROVE  /\ Append(q, e) \in Seq(S)
         /\ Len(Append(q, e)) = Len(q) + 1
         /\ \A i \in 1..Len(q) : Append(q, e)[i] = q[i]
         /\ Append(q, e)[Len(q) + 1] = e
  OBVIOUS

\* What take does to a queue.
LEMMA Taken ==
  ASSUME NEW S, NEW q \in Seq(S), q # <<>>
  PROVE  /\ Head(q) \in S
         /\ Head(q) = q[1]
         /\ Len(q) \in Nat \ {0}
         /\ Tail(q) \in Seq(S)
         /\ Len(Tail(q)) = Len(q) - 1
         /\ \A i \in 1..Len(Tail(q)) : Tail(q)[i] = q[i + 1]
  OBVIOUS

\* A queue within its bound stays so.
LEMMA TakenBounded ==
  ASSUME NEW S, NEW q \in Seq(S), q # <<>>, Len(q) <= QueueSize
  PROVE  Tail(q) \in Seq(S) /\ Len(Tail(q)) <= QueueSize
<1>1. Tail(q) \in Seq(S) /\ Len(Tail(q)) = Len(q) - 1 /\ Len(q) \in Nat
  BY Taken
<1> QED
  BY <1>1, QueueSizeAssumption

\* The generator is in a call of onStop only if one is left to finish.
StopsLeft == genPc = "onStop" => stops > 0

TypeInv == TypeOK /\ StopsLeft

\* Every step keeps the variables in their types (all of SynchronizationTask.run).
LEMMA TypeStep == TypeInv /\ [Next]_vars => TypeInv'
<1> SUFFICES ASSUME TypeInv, [Next]_vars PROVE TypeInv'
  OBVIOUS
<1> USE DEF mainVars, genVars, workVars
<1>1. CASE Run
  <2> USE DEF TypeInv, TypeOK, StopsLeft, Phases, Goto
  <2>1. CASE StartTasks
    BY <2>1 DEF StartTasks
  <2>2. CASE Complete
    BY <2>2 DEF Complete, ComputeResult, Results, Computed
  <2>3. CASE RetrieveInvalid \/ ConnectUnavailable \/ MetricsUnavailable
    BY <2>3 DEF RetrieveInvalid, ConnectUnavailable, MetricsUnavailable, Results,
       Failures
  <2>4. CASE AwaitInterrupted
    BY <2>4 DEF AwaitInterrupted, Results
  <2> QED
    BY <1>1, <2>1, <2>2, <2>3, <2>4 DEF Run, NotifyStarted, NotifyStartedFails,
       Connect, ConnectFails, Retrieve, PrescanFails, AwaitReturns, Inspect,
       StopTransport, StopUnregistered, NotifyCompleted, NotifyCompletedFails
<1>2. CASE Cancel
  BY <1>2 DEF Cancel, TypeInv, TypeOK, StopsLeft
<1>3. CASE Generate
  <2> USE DEF TypeInv, TypeOK, StopsLeft
  <2>1. CASE Report
    <3>1. PICK d \in found :
            \/ d \in Refreshes /\ PutRefresh(d)
            \/ d \in Removes /\ PutDelete(d)
      BY <2>1 DEF Report, PutRefresh, PutDelete
    <3>2. /\ refreshes' \in Seq(Refreshes \cup {DONE}) /\ Len(refreshes') <= QueueSize
          /\ deletes' \in Seq(Removes \cup {DONE}) /\ Len(deletes') <= QueueSize
      <4>1. CASE d \in Refreshes /\ PutRefresh(d)
        BY <4>1, Appended, QueueSizeAssumption DEF PutRefresh
      <4>2. CASE d \in Removes /\ PutDelete(d)
        BY <4>2, Appended, QueueSizeAssumption DEF PutDelete
      <4> QED BY <3>1, <4>1, <4>2
    <3> QED BY <2>1, <3>2 DEF Report
  <2>2. CASE DropReport
    BY <2>2 DEF DropReport, Outcomes
  <2>3. CASE CompareReturns \/ OpenFails \/ CompareFails
    BY <2>3, PillsType DEF CompareReturns, OpenFails, CompareFails, BeginStops
  <2>4. CASE PutDone
    <3>1. /\ refreshes' \in Seq(Refreshes \cup {DONE}) /\ Len(refreshes') <= QueueSize
          /\ deletes' \in Seq(Removes \cup {DONE}) /\ Len(deletes') <= QueueSize
      <4>1. CASE PutDelete(DONE)
        BY <4>1, Appended, QueueSizeAssumption DEF PutDelete
      <4>2. CASE PutRefresh(DONE)
        BY <4>2, Appended, QueueSizeAssumption DEF PutRefresh
      <4> QED BY <2>4, <4>1, <4>2 DEF PutDone
    <3> QED BY <2>4, <3>1, PillsType DEF PutDone
  <2>5. CASE OnStopReturns
    BY <2>5, PillsType DEF OnStopReturns
  <2> QED BY <1>3, <2>1, <2>2, <2>3, <2>4, <2>5 DEF Generate
<1>4. ASSUME NEW w \in Workers, Work(w) PROVE TypeInv'
  <2> USE DEF TypeInv, TypeOK, StopsLeft
  <2>1. CASE Take(w)
    <3>1. /\ refreshes' \in Seq(Refreshes \cup {DONE}) /\ Len(refreshes') <= QueueSize
          /\ deletes' \in Seq(Removes \cup {DONE}) /\ Len(deletes') <= QueueSize
      <4>1. CASE w = Remover
        <5>1. deletes \in Seq(Removes \cup {DONE}) /\ Len(deletes) <= QueueSize /\ deletes # <<>>
          BY <2>1, <4>1 DEF Take
        <5>2. Tail(deletes) \in Seq(Removes \cup {DONE}) /\ Len(Tail(deletes)) <= QueueSize
          BY <5>1, TakenBounded
        <5> QED BY <2>1, <4>1, <5>2 DEF Take
      <4>2. CASE w # Remover
        <5>1. refreshes \in Seq(Refreshes \cup {DONE}) /\ Len(refreshes) <= QueueSize /\ refreshes # <<>>
          BY <2>1, <4>2 DEF Take
        <5>2. Tail(refreshes) \in Seq(Refreshes \cup {DONE}) /\ Len(Tail(refreshes)) <= QueueSize
          BY <5>1, TakenBounded
        <5> QED BY <2>1, <4>2, <5>2 DEF Take
      <4> QED BY <4>1, <4>2
    <3>2. holding' \in [Workers -> Differences \cup {DONE, Nothing}]
      BY <2>1, Taken DEF Take, Differences
    <3> QED BY <2>1, <3>1, <3>2 DEF Take
  <2>2. CASE WorkerInterrupted(w) \/ CleanupRequester(w)
    BY <2>2 DEF WorkerInterrupted, CleanupRequester
  <2>3. CASE HandleRefresh(w) \/ (w = Remover /\ HandleRemove)
    BY <2>3 DEF HandleRefresh, HandleRemove, Handled, Outcomes, Tallies
  <2>4. CASE w = Remover /\ CleanupRemover
    BY <2>4 DEF CleanupRemover, Tallies
  <2>5. CASE HandlerFails(w)
    BY <2>5 DEF HandlerFails, Outcomes, Tallies
  <2> QED BY <1>4, <2>1, <2>2, <2>3, <2>4, <2>5 DEF Work
<1>5. CASE Finished \/ UNCHANGED vars
  BY <1>5 DEF Finished, vars, TypeInv, TypeOK, StopsLeft
<1> QED BY <1>1, <1>2, <1>3, <1>4, <1>5 DEF Next

-----------------------------------------------------------------------------
(* The phases: what the pool may be doing while run() is where it is           *)

\* Before the pool starts nothing has been done; a run that is not interrupted
\* goes past awaitTermination only with a pool at rest; a computed result is the
\* one the counters call for and a failure means that nothing was done.
PhaseInv ==
    /\ phase \in {"begin", "connect", "retrieve", "prescan"} =>
         PoolIdle /\ tally = {} /\ result = NoResult
    /\ phase \in {"await", "inspect"} => result = NoResult
    /\ phase = "inspect" => PoolStopped
    /\ phase = "complete" => result \notin Computed
    /\ phase = "complete" \/ Completed =>
         result = "INTERRUPTED" \/ PoolIdle \/ PoolStopped
    /\ Completed => result # NoResult
    /\ result \in Failures => PoolIdle /\ tally = {}
    /\ result \in Computed => result = ComputeResult(tally)

\* A pool at rest takes no step.
LEMMA RestIsQuiet ==
  ASSUME TypeOK, PoolIdle \/ PoolStopped
  PROVE  /\ ~Generate
         /\ \A w \in Workers : ~Work(w)
  <1>1. ~Generate
    BY DEF PoolIdle, PoolStopped, Generate, Report, DropReport, CompareReturns,
       OpenFails, CompareFails, BeginStops, PutDone, OnStopReturns
  <1>2. ASSUME NEW w \in Workers PROVE ~Work(w)
    BY <1>2 DEF PoolIdle, PoolStopped, Work, Take, WorkerInterrupted, HandleRefresh,
       HandleRemove, Handled, CleanupRequester, CleanupRemover, HandlerFails
  <1> QED BY <1>1, <1>2

\* Every step keeps what the phase says of the pool and of the result
\* (SynchronizationTask.run and runTasks).
LEMMA PhaseStep == TypeInv /\ PhaseInv /\ [Next]_vars => PhaseInv'
<1> SUFFICES ASSUME TypeInv, PhaseInv, [Next]_vars PROVE PhaseInv'
  OBVIOUS
<1> USE DEF mainVars, genVars, workVars
<1>1. CASE Run
  <2> USE DEF PhaseInv, Goto, PoolIdle, PoolStopped, Completed
  <2>1. CASE StartTasks
    BY <2>1 DEF StartTasks, Failures, Computed, NoResult
  <2>2. CASE Complete
    BY <2>2 DEF Complete, ComputeResult, Computed, Failures, NoResult
  <2>3. CASE RetrieveInvalid \/ ConnectUnavailable \/ MetricsUnavailable
    BY <2>3 DEF RetrieveInvalid, ConnectUnavailable, MetricsUnavailable,
       Failures, Computed, NoResult
  <2>4. CASE AwaitInterrupted
    BY <2>4 DEF AwaitInterrupted, Failures, Computed, NoResult
  <2>5. CASE Connect \/ ConnectFails \/ NotifyStarted \/ NotifyStartedFails
    BY <2>5 DEF Connect, ConnectFails, NotifyStarted, NotifyStartedFails,
       Computed, NoResult
  <2>6. CASE Retrieve \/ PrescanFails
    BY <2>6 DEF Retrieve, PrescanFails, Computed, NoResult
  <2>7. CASE AwaitReturns \/ Inspect
    BY <2>7 DEF AwaitReturns, Inspect, Computed, NoResult
  <2>8. CASE StopTransport \/ StopUnregistered \/ NotifyCompleted \/ NotifyCompletedFails
    BY <2>8 DEF StopTransport, StopUnregistered, NotifyCompleted, NotifyCompletedFails
  <2> QED BY <1>1, <2>1, <2>2, <2>3, <2>4, <2>5, <2>6, <2>7, <2>8 DEF Run
<1>2. CASE Cancel
  BY <1>2 DEF Cancel, PhaseInv, PoolIdle, PoolStopped, Completed
<1>3. CASE Generate \/ \E w \in Workers : Work(w)
  <2>1. ~(PoolIdle \/ PoolStopped)
    BY <1>3, RestIsQuiet DEF TypeInv
  <2>2. phase = "await" \/ result = "INTERRUPTED"
    BY <2>1 DEF PhaseInv, TypeInv, TypeOK, Phases, Completed
  <2>3. UNCHANGED mainVars
    BY <1>3 DEF Generate, Report, DropReport, CompareReturns, OpenFails,
       CompareFails, BeginStops, PutDone, OnStopReturns, Work, Take,
       WorkerInterrupted, HandleRefresh, HandleRemove, Handled,
       CleanupRequester, CleanupRemover, HandlerFails
  <2> QED
    BY <2>1, <2>2, <2>3 DEF PhaseInv, Completed, Failures, Computed, NoResult
<1>4. CASE Finished \/ UNCHANGED vars
  BY <1>4 DEF Finished, vars, PhaseInv, PoolIdle, PoolStopped, Completed
<1> QED BY <1>1, <1>2, <1>3, <1>4 DEF Next

-----------------------------------------------------------------------------
(* The differences: where each one is until it meets its fate                  *)

\* The differences w's queue carries.
Reads(w) == IF w = Remover THEN Removes ELSE Refreshes

\* A worker has something in hand while it handles it, nothing while it waits, and
\* what it stopped on otherwise, unless an interrupt stopped it.
HoldingInv ==
    \A w \in Workers :
        /\ holding[w] \in Reads(w) \cup {DONE, Nothing}
        /\ workerPc[w] = "handle" => holding[w] # Nothing
        /\ workerPc[w] \in {"idle", "take"} => holding[w] = Nothing
        /\ workerPc[w] = "stopped" /\ w \notin interrupted => holding[w] # Nothing

\* Taking the head of a queue leaves the rest of it.
LEMMA ContainsTaken ==
  ASSUME NEW S, NEW q \in Seq(S), q # <<>>
  PROVE  /\ \A d : Contains(q, d) <=> d = Head(q) \/ Contains(Tail(q), d)
         /\ Distinct(q) => /\ Distinct(Tail(q))
                           /\ Head(q) # DONE => ~Contains(Tail(q), Head(q))
<1>1. /\ Head(q) = q[1]
      /\ Len(q) \in Nat \ {0}
      /\ Len(Tail(q)) = Len(q) - 1
      /\ \A i \in 1..Len(Tail(q)) : Tail(q)[i] = q[i + 1]
  BY Taken
<1>2. ASSUME NEW d PROVE Contains(q, d) <=> d = Head(q) \/ Contains(Tail(q), d)
  <2>1. ASSUME Contains(q, d) PROVE d = Head(q) \/ Contains(Tail(q), d)
    <3>1. PICK i \in 1..Len(q) : q[i] = d
      BY <2>1 DEF Contains
    <3>2. CASE i = 1
      BY <1>1, <3>1, <3>2
    <3>3. CASE i # 1
      <4>1. i - 1 \in 1..Len(Tail(q)) /\ Tail(q)[i - 1] = d
        BY <1>1, <3>1, <3>3
      <4> QED BY <4>1 DEF Contains
    <3> QED BY <3>2, <3>3
  <2>2. ASSUME Contains(Tail(q), d) PROVE Contains(q, d)
    <3>1. PICK i \in 1..Len(Tail(q)) : Tail(q)[i] = d
      BY <2>2 DEF Contains
    <3>2. i + 1 \in 1..Len(q) /\ q[i + 1] = d
      BY <1>1, <3>1
    <3> QED BY <3>2 DEF Contains
  <2>3. ASSUME d = Head(q) PROVE Contains(q, d)
    BY <1>1, <2>3 DEF Contains
  <2> QED BY <2>1, <2>2, <2>3
<1>3. ASSUME Distinct(q) PROVE Distinct(Tail(q))
  <2> SUFFICES ASSUME NEW i \in 1..Len(Tail(q)), NEW j \in 1..Len(Tail(q)),
                      Tail(q)[i] = Tail(q)[j]
               PROVE  i = j \/ Tail(q)[i] = DONE
    BY DEF Distinct
  <2>1. /\ i + 1 \in 1..Len(q) /\ Tail(q)[i] = q[i + 1]
        /\ j + 1 \in 1..Len(q) /\ Tail(q)[j] = q[j + 1]
    BY <1>1
  <2>2. i + 1 = j + 1 \/ q[i + 1] = DONE
    BY <1>3, <2>1 DEF Distinct
  <2> QED BY <2>1, <2>2
<1>4. ASSUME Distinct(q), Head(q) # DONE PROVE ~Contains(Tail(q), Head(q))
  <2> SUFFICES ASSUME NEW i \in 1..Len(Tail(q)), Tail(q)[i] = Head(q) PROVE FALSE
    BY DEF Contains
  <2>1. i + 1 \in 1..Len(q) /\ 1 \in 1..Len(q) /\ q[i + 1] = q[1]
    BY <1>1
  <2>2. i + 1 = 1
    BY <1>1, <1>4, <2>1 DEF Distinct
  <2> QED BY <2>2
<1> QED BY <1>2, <1>3, <1>4

\* Putting a difference that is not there, or a pill, keeps a queue distinct.
LEMMA ContainsAppended ==
  ASSUME NEW S, NEW q \in Seq(S), NEW e \in S
  PROVE  /\ \A d : Contains(Append(q, e), d) <=> Contains(q, d) \/ d = e
         /\ Distinct(q) /\ (e = DONE \/ ~Contains(q, e)) => Distinct(Append(q, e))
<1>1. /\ Len(q) \in Nat
      /\ Len(Append(q, e)) = Len(q) + 1
      /\ \A i \in 1..Len(q) : Append(q, e)[i] = q[i]
      /\ Append(q, e)[Len(q) + 1] = e
  BY Appended
<1>2. ASSUME NEW d PROVE Contains(Append(q, e), d) <=> Contains(q, d) \/ d = e
  <2>1. ASSUME Contains(Append(q, e), d) PROVE Contains(q, d) \/ d = e
    <3>1. PICK i \in 1..Len(Append(q, e)) : Append(q, e)[i] = d
      BY <2>1 DEF Contains
    <3>2. i \in 1..Len(q) \/ i = Len(q) + 1
      BY <1>1
    <3> QED BY <1>1, <3>1, <3>2 DEF Contains
  <2>2. ASSUME Contains(q, d) PROVE Contains(Append(q, e), d)
    <3>1. PICK i \in 1..Len(q) : q[i] = d
      BY <2>2 DEF Contains
    <3>2. i \in 1..Len(Append(q, e)) /\ Append(q, e)[i] = d
      BY <1>1, <3>1
    <3> QED BY <3>2 DEF Contains
  <2>3. ASSUME d = e PROVE Contains(Append(q, e), d)
    <3>1. Len(q) + 1 \in 1..Len(Append(q, e))
      BY <1>1
    <3> QED BY <1>1, <2>3, <3>1 DEF Contains
  <2> QED BY <2>1, <2>2, <2>3
<1>3. ASSUME Distinct(q), e = DONE \/ ~Contains(q, e) PROVE Distinct(Append(q, e))
  <2> SUFFICES ASSUME NEW i \in 1..Len(Append(q, e)), NEW j \in 1..Len(Append(q, e)),
                      Append(q, e)[i] = Append(q, e)[j]
               PROVE  i = j \/ Append(q, e)[i] = DONE
    BY DEF Distinct
  <2>1. /\ i \in 1..Len(q) \/ i = Len(q) + 1
        /\ j \in 1..Len(q) \/ j = Len(q) + 1
    BY <1>1
  <2> QED BY <1>1, <1>3, <2>1 DEF Contains, Distinct
<1> QED BY <1>2, <1>3

\* Every step keeps a worker's element and its pc in agreement
\* (ContentDiffereceTask.run).
LEMMA HoldingStep ==
  TypeInv /\ PhaseInv /\ HoldingInv /\ [Next]_vars => HoldingInv'
<1> SUFFICES ASSUME TypeInv, PhaseInv, HoldingInv, [Next]_vars PROVE HoldingInv'
  OBVIOUS
<1> USE DEF mainVars, genVars, workVars, HoldingInv
<1>1. CASE Run
  <2>1. CASE StartTasks
    BY <2>1 DEF StartTasks, Goto, PhaseInv, PoolIdle
  <2>2. CASE AwaitInterrupted
    BY <2>2, ThreadsAssumption DEF AwaitInterrupted, Workers, Pool
  <2> QED
    BY <1>1, <2>1, <2>2 DEF Run, NotifyStarted, NotifyStartedFails, Connect,
       ConnectUnavailable, ConnectFails, Retrieve, RetrieveInvalid,
       MetricsUnavailable, PrescanFails, AwaitReturns, Inspect, Complete,
       StopTransport, StopUnregistered, NotifyCompleted, NotifyCompletedFails
<1>2. CASE Cancel
  BY <1>2 DEF Cancel
<1>3. CASE Generate
  BY <1>3 DEF Generate, Report, DropReport, CompareReturns, OpenFails, CompareFails,
     BeginStops, PutDone, OnStopReturns
<1>4. ASSUME NEW w \in Workers, Work(w) PROVE HoldingInv'
  <2>1. CASE Take(w)
    <3>1. CASE w = Remover
      <4>1. Head(deletes) \in Removes \cup {DONE} /\ Head(deletes) # Nothing
        BY <2>1, <3>1, Taken, DifferencesAssumption DEF Take, TypeInv, TypeOK, Differences
      <4> QED BY <2>1, <3>1, <4>1 DEF Take, TypeInv, TypeOK, Reads
    <3>2. CASE w # Remover
      <4>1. Head(refreshes) \in Refreshes \cup {DONE} /\ Head(refreshes) # Nothing
        BY <2>1, <3>2, Taken, DifferencesAssumption DEF Take, TypeInv, TypeOK, Differences
      <4> QED BY <2>1, <3>2, <4>1 DEF Take, TypeInv, TypeOK, Reads
    <3> QED BY <3>1, <3>2
  <2>2. CASE HandleRefresh(w) \/ (w = Remover /\ HandleRemove)
    BY <2>2 DEF HandleRefresh, HandleRemove, Handled, TypeInv, TypeOK
  <2>3. CASE WorkerInterrupted(w) \/ CleanupRequester(w)
    BY <2>3 DEF WorkerInterrupted, CleanupRequester, TypeInv, TypeOK
  <2>4. CASE w = Remover /\ CleanupRemover
    BY <2>4 DEF CleanupRemover, TypeInv, TypeOK
  <2>5. CASE HandlerFails(w)
    BY <2>5 DEF HandlerFails, TypeInv, TypeOK
  <2> QED BY <1>4, <2>1, <2>2, <2>3, <2>4, <2>5 DEF Work
<1>5. CASE Finished \/ UNCHANGED vars
  BY <1>5 DEF Finished, vars
<1> QED BY <1>1, <1>2, <1>3, <1>4, <1>5 DEF Next

\* A queue carries differences of its own kind, and pills.
LEMMA QueueElements ==
  ASSUME TypeOK
  PROVE  /\ \A d : Contains(refreshes, d) => d \in Refreshes \cup {DONE}
         /\ \A d : Contains(deletes, d) => d \in Removes \cup {DONE}
  BY DEF TypeOK, Contains

\* Every step moves a difference from one place to the next or to its fate
\* (DifferenceQueuer.put, ContentDiffereceTask.run).
LEMMA AccountedStep ==
  TypeInv /\ PhaseInv /\ HoldingInv /\ Accounted /\ [Next]_vars => Accounted'
<1> SUFFICES ASSUME TypeInv, PhaseInv, HoldingInv, Accounted, [Next]_vars
             PROVE  Accounted'
  OBVIOUS
<1> USE DEF mainVars, genVars, workVars, Queued, Handles
<1>1. CASE Run
  <2>1. CASE StartTasks
    BY <2>1 DEF StartTasks, Goto, PhaseInv, PoolIdle, Accounted
  <2> QED
    BY <1>1, <2>1 DEF Run, NotifyStarted, NotifyStartedFails, Connect,
       ConnectUnavailable, ConnectFails, Retrieve, RetrieveInvalid,
       MetricsUnavailable, PrescanFails, AwaitReturns, AwaitInterrupted, Inspect,
       Complete, StopTransport, StopUnregistered, NotifyCompleted,
       NotifyCompletedFails, Accounted
<1>2. CASE Cancel
  BY <1>2 DEF Cancel, Accounted
<1>3. CASE Report
  <2>1. PICK d \in found :
          /\ found' = found \ {d}
          /\ \/ d \in Refreshes /\ PutRefresh(d)
             \/ d \in Removes /\ PutDelete(d)
    BY <1>3 DEF Report, PutRefresh, PutDelete
  <2>2. d \in Differences /\ d # DONE
    BY <2>1, DifferencesAssumption DEF TypeInv, TypeOK
  <2>3. ~Contains(refreshes, d) /\ ~Contains(deletes, d)
    BY <2>1, <2>2 DEF Accounted
  <2>4. CASE d \in Refreshes /\ PutRefresh(d)
    <3>1. /\ \A e : Contains(refreshes', e) <=> Contains(refreshes, e) \/ e = d
          /\ Distinct(refreshes')
      BY <2>3, <2>4, ContainsAppended DEF PutRefresh, TypeInv, TypeOK, Accounted
    <3> QED BY <1>3, <2>1, <2>2, <2>4, <3>1 DEF Report, PutRefresh, Accounted
  <2>5. CASE d \in Removes /\ PutDelete(d)
    <3>1. /\ \A e : Contains(deletes', e) <=> Contains(deletes, e) \/ e = d
          /\ Distinct(deletes')
      BY <2>3, <2>5, ContainsAppended DEF PutDelete, TypeInv, TypeOK, Accounted
    <3> QED BY <1>3, <2>1, <2>2, <2>5, <3>1 DEF Report, PutDelete, Accounted
  <2> QED BY <2>1, <2>4, <2>5
<1>4. CASE DropReport
  BY <1>4 DEF DropReport, TypeInv, TypeOK, Outcomes, Accounted
<1>5. CASE CompareReturns \/ OpenFails \/ CompareFails \/ OnStopReturns
  BY <1>5 DEF CompareReturns, OpenFails, CompareFails, BeginStops, OnStopReturns,
     Accounted
<1>6. CASE PutDone
  <2>1. /\ \A d \in Differences : Contains(refreshes', d) <=> Contains(refreshes, d)
        /\ \A d \in Differences : Contains(deletes', d) <=> Contains(deletes, d)
        /\ Distinct(refreshes') /\ Distinct(deletes')
    <3>1. CASE PutDelete(DONE)
      BY <3>1, ContainsAppended, DifferencesAssumption
      DEF PutDelete, TypeInv, TypeOK, Accounted
    <3>2. CASE PutRefresh(DONE)
      BY <3>2, ContainsAppended, DifferencesAssumption
      DEF PutRefresh, TypeInv, TypeOK, Accounted
    <3>3. CASE UNCHANGED <<refreshes, deletes>>
      BY <3>3 DEF Accounted
    <3> QED BY <1>6, <3>1, <3>2, <3>3 DEF PutDone
  <2> QED BY <1>6, <2>1 DEF PutDone, Accounted
<1>7. ASSUME NEW w \in Workers, Take(w) PROVE Accounted'
  <2>1. CASE w = Remover
    <3>1. /\ \A d : Contains(deletes, d) <=> d = Head(deletes) \/ Contains(deletes', d)
          /\ Distinct(deletes')
          /\ Head(deletes) # DONE => ~Contains(deletes', Head(deletes))
      <4>1. deletes \in Seq(Removes \cup {DONE}) /\ Distinct(deletes)
        BY DEF TypeInv, TypeOK, Accounted
      <4>2. deletes # <<>> /\ deletes' = Tail(deletes)
        BY <1>7, <2>1 DEF Take
      <4> QED BY <4>1, <4>2, ContainsTaken
    <3>2. Head(deletes) # DONE => ~Contains(refreshes, Head(deletes))
      BY <3>1, QueueElements, DifferencesAssumption DEF TypeInv
    <3> QED
      BY <1>7, <2>1, <3>1, <3>2, DifferencesAssumption
      DEF Take, TypeInv, TypeOK, Accounted
  <2>2. CASE w # Remover
    <3>1. /\ \A d : Contains(refreshes, d) <=> d = Head(refreshes) \/ Contains(refreshes', d)
          /\ Distinct(refreshes')
          /\ Head(refreshes) # DONE => ~Contains(refreshes', Head(refreshes))
      <4>1. refreshes \in Seq(Refreshes \cup {DONE}) /\ Distinct(refreshes)
        BY DEF TypeInv, TypeOK, Accounted
      <4>2. refreshes # <<>> /\ refreshes' = Tail(refreshes)
        BY <1>7, <2>2 DEF Take
      <4> QED BY <4>1, <4>2, ContainsTaken
    <3>2. Head(refreshes) # DONE => ~Contains(deletes, Head(refreshes))
      BY <3>1, QueueElements, DifferencesAssumption DEF TypeInv
    <3> QED
      BY <1>7, <2>2, <3>1, <3>2, DifferencesAssumption
      DEF Take, TypeInv, TypeOK, Accounted
  <2> QED BY <2>1, <2>2
<1>8. ASSUME NEW w \in Workers, WorkerInterrupted(w) PROVE Accounted'
  BY <1>8 DEF WorkerInterrupted, TypeInv, TypeOK, Accounted
<1>9. ASSUME NEW w \in Workers, HandleRefresh(w) \/ (w = Remover /\ HandleRemove)
      PROVE  Accounted'
  BY <1>9 DEF HandleRefresh, HandleRemove, Handled, TypeInv, TypeOK, Accounted
<1>10. ASSUME NEW w \in Workers, CleanupRequester(w) \/ (w = Remover /\ CleanupRemover)
       PROVE  Accounted'
  BY <1>10, DifferencesAssumption
  DEF CleanupRequester, CleanupRemover, TypeInv, TypeOK, Accounted
<1>11. ASSUME NEW w \in Workers, HandlerFails(w) PROVE Accounted'
  BY <1>11, DifferencesAssumption DEF HandlerFails, TypeInv, TypeOK, Accounted
<1>12. CASE Finished \/ UNCHANGED vars
  BY <1>12 DEF Finished, vars, Accounted
<1> QED
  BY <1>1, <1>2, <1>3, <1>4, <1>5, <1>6, <1>7, <1>8, <1>9, <1>10, <1>11, <1>12
  DEF Next, Generate, Work

-----------------------------------------------------------------------------
(* The pills: they lie behind every difference                                 *)

\* Only pills are left in q.
OnlyPills(q) == \A i \in 1..Len(q) : q[i] = DONE

\* Behind a pill in q come only pills.
PillsBehind(q) == \A i, j \in 1..Len(q) : i < j /\ q[i] = DONE => q[j] = DONE

\* While differences are reported there is no pill; a worker that has taken a pill
\* leaves only pills in its queue; cleanup runs when the remover has its pill.
PillsInv ==
    /\ genPc \in {"idle", "compare"} =>
         /\ ~Contains(refreshes, DONE) /\ ~Contains(deletes, DONE)
         /\ \A w \in Workers : holding[w] # DONE
    /\ PillsBehind(refreshes)
    /\ PillsBehind(deletes)
    /\ (\E w \in Requesters : holding[w] = DONE) => OnlyPills(refreshes)
    /\ holding[Remover] = DONE => OnlyPills(deletes)
    /\ cleanedUp => holding[Remover] = DONE /\ workerPc[Remover] = "stopped"

\* Putting a pill, or a difference while there is none, keeps pills behind.
LEMMA PillsAppended ==
  ASSUME NEW S, NEW q \in Seq(S), NEW e \in S, PillsBehind(q),
         e = DONE \/ ~Contains(q, DONE)
  PROVE  PillsBehind(Append(q, e)) /\ (e = DONE /\ OnlyPills(q) => OnlyPills(Append(q, e)))
<1>1. /\ Len(q) \in Nat
      /\ Len(Append(q, e)) = Len(q) + 1
      /\ \A i \in 1..Len(q) : Append(q, e)[i] = q[i]
      /\ Append(q, e)[Len(q) + 1] = e
  BY Appended
<1>2. \A i \in 1..Len(Append(q, e)) : i \in 1..Len(q) \/ i = Len(q) + 1
  BY <1>1
<1>3. ASSUME NEW i \in 1..Len(Append(q, e)), NEW j \in 1..Len(Append(q, e)),
             i < j, Append(q, e)[i] = DONE
      PROVE  Append(q, e)[j] = DONE
  <2>1. i \in 1..Len(q) /\ q[i] = DONE
    BY <1>1, <1>2, <1>3
  <2>2. e = DONE
    BY <2>1 DEF Contains
  <2>3. j \in 1..Len(q) \/ j = Len(q) + 1
    BY <1>2
  <2> QED BY <1>1, <1>3, <2>1, <2>2, <2>3 DEF PillsBehind
<1>4. e = DONE /\ OnlyPills(q) => OnlyPills(Append(q, e))
  BY <1>1, <1>2 DEF OnlyPills
<1> QED BY <1>3, <1>4 DEF PillsBehind

\* So does taking the head; if that is a pill, only pills are left.
LEMMA PillsTaken ==
  ASSUME NEW S, NEW q \in Seq(S), q # <<>>, PillsBehind(q)
  PROVE  /\ PillsBehind(Tail(q))
         /\ Head(q) = DONE \/ OnlyPills(q) => OnlyPills(Tail(q))
<1>1. /\ Head(q) = q[1]
      /\ Len(q) \in Nat \ {0}
      /\ Len(Tail(q)) = Len(q) - 1
      /\ \A i \in 1..Len(Tail(q)) : Tail(q)[i] = q[i + 1] /\ i + 1 \in 1..Len(q) /\ 1 < i + 1
  BY Taken
<1>2. ASSUME NEW i \in 1..Len(Tail(q)), NEW j \in 1..Len(Tail(q)), i < j,
             Tail(q)[i] = DONE
      PROVE  Tail(q)[j] = DONE
  <2>1. i + 1 < j + 1
    BY <1>2
  <2> QED BY <1>1, <1>2, <2>1 DEF PillsBehind
<1>3. ASSUME Head(q) = DONE \/ OnlyPills(q), NEW i \in 1..Len(Tail(q))
      PROVE  Tail(q)[i] = DONE
  <2>1. 1 \in 1..Len(q) /\ q[1] = DONE
    BY <1>1, <1>3 DEF OnlyPills
  <2> QED BY <1>1, <2>1 DEF PillsBehind
<1> QED BY <1>2, <1>3 DEF PillsBehind, OnlyPills

\* Every step keeps the pills behind the differences (DifferenceQueuer.onStop).
LEMMA PillsStep ==
  TypeInv /\ PhaseInv /\ HoldingInv /\ PillsInv /\ [Next]_vars => PillsInv'
<1> SUFFICES ASSUME TypeInv, PhaseInv, HoldingInv, PillsInv, [Next]_vars
             PROVE  PillsInv'
  OBVIOUS
<1> USE DEF mainVars, genVars, workVars
<1>1. CASE Run
  <2>1. CASE StartTasks
    <3>1. ~cleanedUp
      BY <2>1 DEF StartTasks, Goto, PhaseInv, PoolIdle, PillsInv, Workers
    <3> QED
      BY <2>1, <3>1 DEF StartTasks, Goto, PhaseInv, PoolIdle, PillsInv
  <2> QED
    BY <1>1, <2>1 DEF Run, NotifyStarted, NotifyStartedFails, Connect,
       ConnectUnavailable, ConnectFails, Retrieve, RetrieveInvalid,
       MetricsUnavailable, PrescanFails, AwaitReturns, AwaitInterrupted, Inspect,
       Complete, StopTransport, StopUnregistered, NotifyCompleted,
       NotifyCompletedFails, PillsInv
<1>2. CASE Cancel
  BY <1>2 DEF Cancel, PillsInv
<1>3. CASE Report
  <2>1. PICK d \in found :
          \/ d \in Refreshes /\ PutRefresh(d)
          \/ d \in Removes /\ PutDelete(d)
    BY <1>3 DEF Report, PutRefresh, PutDelete
  <2>2. d # DONE /\ ~Contains(refreshes, DONE) /\ ~Contains(deletes, DONE)
    BY <1>3, DifferencesAssumption DEF Report, PillsInv, TypeInv, TypeOK
  <2>3. CASE d \in Refreshes /\ PutRefresh(d)
    <3>1. PillsBehind(refreshes') /\ ~Contains(refreshes', DONE)
      BY <2>2, <2>3, PillsAppended, ContainsAppended
      DEF PutRefresh, TypeInv, TypeOK, PillsInv
    <3> QED BY <1>3, <2>3, <3>1, ThreadsAssumption DEF Report, PutRefresh, PillsInv, Workers
  <2>4. CASE d \in Removes /\ PutDelete(d)
    <3>1. PillsBehind(deletes') /\ ~Contains(deletes', DONE)
      BY <2>2, <2>4, PillsAppended, ContainsAppended
      DEF PutDelete, TypeInv, TypeOK, PillsInv
    <3> QED BY <1>3, <2>4, <3>1, ThreadsAssumption DEF Report, PutDelete, PillsInv, Workers
  <2> QED BY <2>1, <2>3, <2>4
<1>4. CASE DropReport \/ CompareReturns \/ OpenFails \/ CompareFails \/ OnStopReturns
  BY <1>4 DEF DropReport, CompareReturns, OpenFails, CompareFails, BeginStops,
     OnStopReturns, PillsInv
<1>5. CASE PutDone
  <2>1. CASE PutDelete(DONE)
    <3>1. PillsBehind(deletes') /\ (OnlyPills(deletes) => OnlyPills(deletes'))
      BY <2>1, PillsAppended DEF PutDelete, TypeInv, TypeOK, PillsInv
    <3> QED BY <1>5, <2>1, <3>1 DEF PutDone, PutDelete, PillsInv
  <2>2. CASE PutRefresh(DONE)
    <3>1. PillsBehind(refreshes') /\ (OnlyPills(refreshes) => OnlyPills(refreshes'))
      BY <2>2, PillsAppended DEF PutRefresh, TypeInv, TypeOK, PillsInv
    <3> QED BY <1>5, <2>2, <3>1 DEF PutDone, PutRefresh, PillsInv
  <2>3. CASE UNCHANGED <<refreshes, deletes>>
    BY <1>5, <2>3 DEF PutDone, PillsInv
  <2> QED BY <1>5, <2>1, <2>2, <2>3 DEF PutDone
<1>6. ASSUME NEW w \in Workers, Take(w) PROVE PillsInv'
  <2>1. CASE w = Remover
    <3>1. deletes \in Seq(Removes \cup {DONE}) /\ PillsBehind(deletes)
      BY DEF TypeInv, TypeOK, PillsInv
    <3>2. deletes # <<>> /\ deletes' = Tail(deletes) /\ refreshes' = refreshes
      BY <1>6, <2>1 DEF Take
    <3>3. /\ PillsBehind(deletes')
          /\ Head(deletes) = DONE => OnlyPills(deletes')
          /\ ~Contains(deletes, DONE) => Head(deletes) # DONE /\ ~Contains(deletes', DONE)
      BY <3>1, <3>2, PillsTaken, ContainsTaken
    <3>4. /\ holding' = [holding EXCEPT ![Remover] = Head(deletes)]
          /\ workerPc[Remover] = "take"
      BY <1>6, <2>1 DEF Take
    <3> QED
      BY <1>6, <3>2, <3>3, <3>4, ThreadsAssumption
      DEF Take, PillsInv, TypeInv, TypeOK, Workers
  <2>2. CASE w # Remover
    <3>1. refreshes \in Seq(Refreshes \cup {DONE}) /\ PillsBehind(refreshes)
      BY DEF TypeInv, TypeOK, PillsInv
    <3>2. refreshes # <<>> /\ refreshes' = Tail(refreshes) /\ deletes' = deletes
      BY <1>6, <2>2 DEF Take
    <3>3. /\ PillsBehind(refreshes')
          /\ Head(refreshes) = DONE \/ OnlyPills(refreshes) => OnlyPills(refreshes')
          /\ ~Contains(refreshes, DONE) =>
               Head(refreshes) # DONE /\ ~Contains(refreshes', DONE)
      BY <3>1, <3>2, PillsTaken, ContainsTaken
    <3>4. holding' = [holding EXCEPT ![w] = Head(refreshes)] /\ w \in Requesters
      BY <1>6, <2>2 DEF Take, Workers
    <3> QED
      BY <1>6, <2>2, <3>2, <3>3, <3>4, ThreadsAssumption
      DEF Take, PillsInv, TypeInv, TypeOK, Workers
  <2> QED BY <2>1, <2>2
<1>7. ASSUME NEW w \in Workers, HandleRefresh(w) \/ (w = Remover /\ HandleRemove)
      PROVE  PillsInv'
  BY <1>7, DifferencesAssumption, ThreadsAssumption
  DEF HandleRefresh, HandleRemove, Handled, PillsInv, TypeInv, TypeOK, Workers
<1>8. ASSUME NEW w \in Workers,
             \/ WorkerInterrupted(w) \/ CleanupRequester(w) \/ HandlerFails(w)
             \/ w = Remover /\ CleanupRemover
      PROVE  PillsInv'
  BY <1>8, ThreadsAssumption
  DEF WorkerInterrupted, CleanupRequester, CleanupRemover, HandlerFails, PillsInv,
      TypeInv, TypeOK, Workers
<1>9. CASE Finished \/ UNCHANGED vars
  BY <1>9 DEF Finished, vars, PillsInv
<1> QED
  BY <1>1, <1>2, <1>3, <1>4, <1>5, <1>6, <1>7, <1>8, <1>9 DEF Next, Generate, Work

-----------------------------------------------------------------------------
(* The theorems                                                                *)

\* The inductive invariant.
IInv == TypeInv /\ PhaseInv /\ HoldingInv /\ Accounted /\ PillsInv

\* The invariant holds when run() begins.
LEMMA InitInv == Init => IInv
<1> SUFFICES ASSUME Init PROVE IInv
  OBVIOUS
<1>1. /\ \A d : ~Contains(refreshes, d) /\ ~Contains(deletes, d)
      /\ Distinct(refreshes) /\ Distinct(deletes)
      /\ PillsBehind(refreshes) /\ PillsBehind(deletes)
  BY DEF Init, Contains, Distinct, PillsBehind
<1>2. TypeInv
  <2>1. /\ <<>> \in Seq(Refreshes \cup {DONE})
        /\ <<>> \in Seq(Removes \cup {DONE})
        /\ Len(<<>>) <= QueueSize
    BY QueueSizeAssumption
  <2>2. /\ workerPc \in [Workers -> {"idle", "take", "handle", "stopped"}]
        /\ holding \in [Workers -> Differences \cup {DONE, Nothing}]
        /\ outcome \in [Differences -> Outcomes]
    BY DEF Init, Outcomes
  <2>3. /\ phase \in Phases
        /\ result \in Results \cup {NoResult}
        /\ tally \in Tallies
        /\ stops \in 0..2 /\ pills \in 0..Pills
    BY PillsType DEF Init, Phases, Tallies
  <2> QED BY <2>1, <2>2, <2>3 DEF Init, TypeInv, TypeOK, StopsLeft
<1>3. PhaseInv
  BY DEF Init, PhaseInv, PoolIdle, Completed, NoResult, Failures, Computed
<1>4. HoldingInv
  BY DEF Init, HoldingInv
<1>5. Accounted
  BY <1>1 DEF Init, Accounted, Queued, Handles
<1>6. PillsInv
  BY <1>1, DifferencesAssumption, ThreadsAssumption DEF Init, PillsInv, Workers
<1> QED BY <1>2, <1>3, <1>4, <1>5, <1>6 DEF IInv

\* Every step keeps it.
LEMMA StepInv == IInv /\ [Next]_vars => IInv'
  BY TypeStep, PhaseStep, HoldingStep, AccountedStep, PillsStep DEF IInv

\* The inductive invariant holds throughout every run, for any number of
\* requesters and differences and any size of the queues.
THEOREM Invariance == Spec => []IInv
  BY InitInv, StepInv, PTL DEF Spec

\* The variables always have their types.
THEOREM TypeCorrect == Spec => []TypeOK
<1>1. IInv => TypeOK
  BY DEF IInv, TypeInv
<1> QED BY <1>1, Invariance, PTL

\* No difference is handled twice and none vanishes, whatever is interrupted or
\* thrown (DifferenceQueuer.put, ContentDiffereceTask.run).
THEOREM NothingVanishes == Spec => []Accounted
<1>1. IInv => Accounted
  BY DEF IInv
<1> QED BY <1>1, Invariance, PTL

\* A run that does not report INTERRUPTED reports when its pool is at rest
\* (SynchronizationTask.runTasks waits for it).
THEOREM Quiet == Spec => []QuietWhenReported
<1>1. IInv => QuietWhenReported
  BY DEF IInv, PhaseInv, QuietWhenReported
<1> QED BY <1>1, Invariance, PTL

\* Remover.cleanup comes after every remove of the run (DifferenceQueuer.onStop
\* puts the remover's pill behind them).
THEOREM CleanupLast == Spec => []CleanupIsLast
<1>1. IInv => CleanupIsLast
  <2> SUFFICES ASSUME IInv, cleanedUp
               PROVE  /\ genPc # "compare"
                      /\ \A d \in Removes : outcome[d] = "pending" => d \in found
    BY DEF CleanupIsLast
  <2>1. holding[Remover] = DONE /\ workerPc[Remover] = "stopped" /\ Remover \in Workers
    BY DEF IInv, PillsInv, Workers
  <2>2. genPc # "compare"
    BY <2>1 DEF IInv, PillsInv
  <2>3. ASSUME NEW d \in Removes, outcome[d] = "pending" PROVE d \in found
    <3>1. d \in Differences /\ d # DONE /\ d \notin Refreshes
      BY DifferencesAssumption DEF Differences
    <3>2. ~Contains(refreshes, d)
      BY <3>1, QueueElements DEF IInv, TypeInv
    <3>3. ~Contains(deletes, d)
      BY <2>1, <3>1 DEF IInv, PillsInv, OnlyPills, Contains
    <3>4. ASSUME NEW w \in Workers, Handles(w, d) PROVE FALSE
      BY <2>1, <3>1, <3>4, DifferencesAssumption DEF Handles, IInv, HoldingInv, Reads
    <3> QED BY <2>3, <3>1, <3>2, <3>3, <3>4 DEF IInv, Accounted, Queued
  <2> QED BY <2>2, <2>3
<1> QED BY <1>1, Invariance, PTL

\* Unless the run was cancelled, a difference is left in a queue only if every
\* worker of that queue died on another one (one pill for each worker).
THEOREM LeftByTheDead == Spec => []LeftOnlyByTheDead
<1>1. IInv => LeftOnlyByTheDead
  <2> SUFFICES ASSUME IInv, PoolStopped, Pool \cap interrupted = {}
               PROVE  /\ (\E d \in Refreshes : Queued(d)) =>
                           \A w \in Requesters : holding[w] \in Refreshes
                      /\ (\E d \in Removes : Queued(d)) => holding[Remover] \in Removes
    BY DEF LeftOnlyByTheDead
  <2>1. \A w \in Workers : holding[w] \in Reads(w) \cup {DONE}
    BY DEF PoolStopped, Pool, IInv, HoldingInv
  <2>2. ASSUME NEW d \in Refreshes, Queued(d), NEW w \in Requesters
        PROVE  holding[w] \in Refreshes
    <3>1. d # DONE /\ d \notin Removes
      BY DifferencesAssumption DEF Differences
    <3>2. Contains(refreshes, d)
      BY <2>2, <3>1, QueueElements DEF Queued, IInv, TypeInv
    <3>3. holding[w] # DONE
      BY <3>1, <3>2 DEF IInv, PillsInv, OnlyPills, Contains
    <3> QED BY <2>1, <3>3, ThreadsAssumption DEF Workers, Reads
  <2>3. ASSUME NEW d \in Removes, Queued(d) PROVE holding[Remover] \in Removes
    <3>1. d # DONE /\ d \notin Refreshes
      BY DifferencesAssumption DEF Differences
    <3>2. Contains(deletes, d)
      BY <2>3, <3>1, QueueElements DEF Queued, IInv, TypeInv
    <3>3. holding[Remover] # DONE
      BY <3>1, <3>2 DEF IInv, PillsInv, OnlyPills, Contains
    <3> QED BY <2>1, <3>3 DEF Workers, Reads
  <2> QED BY <2>2, <2>3
<1> QED BY <1>1, Invariance, PTL

-----------------------------------------------------------------------------
(* The run implements Synchronization                                          *)

\* Both modules take the results from SynchronizationResult.
LEMMA SameResults ==
    /\ Promise!NoResult = NoResult
    /\ Promise!Results = Results
    /\ Promise!Failures = Failures
    /\ Promise!Computed = Computed
    /\ Promise!Tallies = Tallies
    /\ Promise!ComputeResult(tally) = ComputeResult(tally)
  BY DEF Promise!NoResult, NoResult, Promise!Results, Results, Promise!Failures,
     Failures, Promise!Computed, Computed, Promise!Tallies, Tallies,
     Promise!ComputeResult, ComputeResult

\* A run begins as the abstract synchronization does.
LEMMA ReportInit == Init => Promise!AInit
  BY DEF Init, Promise!AInit, Promise!NoResult, Report_, Completed, NoResult

\* Every step is a step of Synchronization or leaves its variables alone.
LEMMA ReportStep == IInv /\ [Next]_vars => [Promise!ANext]_(Promise!avars)
<1> SUFFICES ASSUME IInv, [Next]_vars PROVE [Promise!ANext]_(Promise!avars)
  OBVIOUS
<1> USE DEF mainVars, genVars, workVars
<1>1. CASE Run
  <2>1. UNCHANGED <<outcome, tally>>
    BY <1>1 DEF Run, NotifyStarted, NotifyStartedFails, Connect, ConnectUnavailable,
       ConnectFails, Retrieve, RetrieveInvalid, StartTasks, MetricsUnavailable,
       PrescanFails, AwaitReturns, AwaitInterrupted, Inspect, Complete, StopTransport,
       StopUnregistered, NotifyCompleted, NotifyCompletedFails
  <2>2. CASE Complete
    <3>1. Report_ = NoResult /\ Report_' = result'
      BY <2>2 DEF Complete, Goto, Report_, Completed
    <3>2. result' \in Results
      BY <2>2 DEF Complete, ComputeResult, Results, Computed, IInv, TypeInv, TypeOK
    <3>3. result' \in Failures => tally = {}
      BY <2>2 DEF Complete, ComputeResult, Failures, IInv, PhaseInv
    <3>4. result' \in Computed => result' = ComputeResult(tally)
      BY <2>2 DEF Complete, IInv, PhaseInv
    <3>5. Promise!Report
      BY <2>1, <3>1, <3>2, <3>3, <3>4, SameResults DEF Promise!Report
    <3> QED BY <3>5 DEF Promise!ANext
  <2>3. CASE ~Complete
    <3>1. UNCHANGED Report_
      BY <1>1, <2>3
      DEF Run, NotifyStarted, NotifyStartedFails, Connect, ConnectUnavailable,
      ConnectFails, Retrieve, RetrieveInvalid, StartTasks, MetricsUnavailable,
      PrescanFails, AwaitReturns, AwaitInterrupted, Inspect, StopTransport,
      StopUnregistered, NotifyCompleted, NotifyCompletedFails, Goto, Report_, Completed
    <3> QED BY <2>1, <3>1 DEF Promise!avars
  <2> QED BY <2>2, <2>3
<1>2. CASE Cancel
  BY <1>2 DEF Cancel, Promise!avars, Report_, Completed
<1>3. CASE Generate \/ \E w \in Workers : Work(w)
  <2>1. Promise!Open
    <3>1. ~(PoolIdle \/ PoolStopped)
      BY <1>3, RestIsQuiet DEF IInv, TypeInv
    <3> QED BY <3>1, SameResults DEF IInv, PhaseInv, Promise!Open, Report_
  <2>2. UNCHANGED Report_
    BY <1>3 DEF Generate, Report, DropReport, CompareReturns, OpenFails,
       CompareFails, BeginStops, PutDone, OnStopReturns, Work, Take,
       WorkerInterrupted, HandleRefresh, HandleRemove, Handled,
       CleanupRequester, CleanupRemover, HandlerFails, Report_, Completed
  <2>3. CASE DropReport
    <3>1. PICK d \in found : outcome' = [outcome EXCEPT ![d] = "dropped"]
      BY <2>3 DEF DropReport
    <3>2. d \in Differences /\ outcome[d] = "pending"
      BY <3>1 DEF IInv, TypeInv, TypeOK, Accounted
    <3>3. {} \in Tallies /\ tally' = tally \cup {}
      BY <2>3 DEF DropReport, Tallies
    <3>4. Promise!GiveUp(d)
      BY <2>1, <2>2, <3>1, <3>2, <3>3, SameResults DEF Promise!GiveUp
    <3> QED BY <3>2, <3>4 DEF Promise!ANext
  <2>4. CASE Generate /\ ~DropReport
    BY <2>2, <2>4 DEF Generate, Report, CompareReturns, OpenFails, CompareFails,
       BeginStops, PutDone, OnStopReturns, Promise!avars
  <2>5. ASSUME NEW w \in Workers, NEW more \in Tallies, Handled(w, more)
        PROVE  Promise!ANext
    <3>1. holding[w] \in Differences /\ outcome[holding[w]] = "pending"
      BY <2>5 DEF Handled, IInv, TypeInv, TypeOK, HoldingInv, Accounted, Handles
    <3>2. Promise!Handle(holding[w])
      BY <2>1, <2>2, <2>5, <3>1, SameResults DEF Handled, Promise!Handle
    <3> QED BY <3>1, <3>2 DEF Promise!ANext
  <2>6. ASSUME NEW w \in Workers, HandleRefresh(w) \/ HandleRemove
        PROVE  Promise!ANext
    <3>1. {"completed"} \in Tallies /\ {"failed"} \in Tallies
      BY DEF Tallies
    <3>2. PICK v \in Workers, more \in Tallies : Handled(v, more)
      BY <2>6, <3>1 DEF HandleRefresh, HandleRemove, Handled, Workers
    <3> QED BY <2>5, <3>2
  <2>7. CASE CleanupRemover
    BY <2>1, <2>2, <2>7, SameResults DEF CleanupRemover, Promise!ANext, Promise!CatchUp
  <2>8. ASSUME NEW w \in Workers, HandlerFails(w)
        PROVE  [Promise!ANext]_(Promise!avars)
    <3>1. PICK more \in Tallies : tally' = tally \cup more
      BY <2>8 DEF HandlerFails, Tallies
    <3>2. CASE holding[w] = DONE
      <4>1. outcome' = outcome
        BY <2>8, <3>2 DEF HandlerFails
      <4>2. Promise!CatchUp
        BY <2>1, <2>2, <3>1, <4>1, SameResults DEF Promise!CatchUp
      <4> QED BY <4>2 DEF Promise!ANext
    <3>3. CASE holding[w] # DONE
      <4>1. holding[w] \in Differences /\ outcome[holding[w]] = "pending"
        BY <2>8, <3>3 DEF HandlerFails, IInv, TypeInv, TypeOK, HoldingInv, Accounted, Handles
      <4>2. outcome' = [outcome EXCEPT ![holding[w]] = "lost"]
        BY <2>8, <3>3 DEF HandlerFails
      <4>3. Promise!GiveUp(holding[w])
        BY <2>1, <2>2, <3>1, <4>1, <4>2, SameResults DEF Promise!GiveUp
      <4> QED BY <4>1, <4>3 DEF Promise!ANext
    <3> QED BY <3>2, <3>3
  <2>9. ASSUME NEW w \in Workers, Take(w) \/ WorkerInterrupted(w) \/ CleanupRequester(w)
        PROVE  UNCHANGED Promise!avars
    BY <2>2, <2>9 DEF Take, WorkerInterrupted, CleanupRequester, Promise!avars
  <2> QED BY <1>3, <2>3, <2>4, <2>6, <2>7, <2>8, <2>9 DEF Work
<1>4. CASE Finished \/ UNCHANGED vars
  BY <1>4 DEF Finished, vars, Promise!avars, Report_, Completed
<1> QED BY <1>1, <1>2, <1>3, <1>4 DEF Next

\* The verdict of a run matches what the run did and stays true of it: every
\* behaviour of the task is one of the abstract synchronization.
THEOREM Implements == Spec => KeepsPromise
<1>1. Spec => []IInv
  BY Invariance
<1> QED BY <1>1, ReportInit, ReportStep, PTL DEF Spec, KeepsPromise, Promise!ASpec

-----------------------------------------------------------------------------
(* Every run has only so many steps                                            *)

\* How far run() is from its end, at most.
Rank == [begin |-> 10, connect |-> 9, retrieve |-> 8, prescan |-> 7, await |-> 6,
         inspect |-> 5, complete |-> 4, stop |-> 3, announce |-> 2, done |-> 0,
         escaped |-> 0]

\* The run can be cancelled once, as long as somebody looks.
CancelLeft ==
    IF phase \in {"begin", "connect", "retrieve", "prescan", "await"}
       /\ Scheduler \notin interrupted
    THEN 1 ELSE 0

\* The generator enters onStop and leaves it, twice if the comparer throws.
StopSteps == IF genPc = "onStop" THEN stops ELSE IF genPc = "stopped" THEN 0 ELSE 3

PillsLeft ==
    IF genPc = "onStop" THEN (IF stops = 2 THEN Pills + pills ELSE pills)
    ELSE IF genPc = "stopped" THEN 0 ELSE Pills + Pills

Busy == {w \in Workers : workerPc[w] = "handle"}
Alive == {w \in Workers : workerPc[w] # "stopped"}

RunLeft == Rank[phase] + CancelLeft
GeneratorLeft == StopSteps + 3 * PillsLeft + 3 * Cardinality(found)
QueuesLeft == 2 * Len(refreshes) + 2 * Len(deletes)
WorkersLeft == Cardinality(Busy) + Cardinality(Alive)

\* A difference or a pill is put, taken and handled; each thread stops once.
StepsLeft == RunLeft + GeneratorLeft + QueuesLeft + WorkersLeft

\* Each part of StepsLeft is a number.
LEMMA PartsNat ==
  ASSUME TypeInv
  PROVE  /\ Rank[phase] \in Nat /\ CancelLeft \in Nat /\ StopSteps \in Nat
         /\ PillsLeft \in Nat /\ Len(refreshes) \in Nat /\ Len(deletes) \in Nat
         /\ IsFiniteSet(found) /\ Cardinality(found) \in Nat
         /\ IsFiniteSet(Busy) /\ Cardinality(Busy) \in Nat
         /\ IsFiniteSet(Alive) /\ Cardinality(Alive) \in Nat
<1>1. Rank[phase] \in Nat
  BY DEF TypeInv, TypeOK, Phases, Rank
<1>2. CancelLeft \in Nat /\ StopSteps \in Nat /\ PillsLeft \in Nat
  BY PillsType DEF TypeInv, TypeOK, CancelLeft, StopSteps, PillsLeft
<1>3. IsFiniteSet(Workers)
  BY FS_AddElement, ThreadsAssumption DEF Workers
<1>4. Busy \subseteq Workers /\ Alive \subseteq Workers /\ found \subseteq Differences
  BY DEF Busy, Alive, TypeInv, TypeOK
<1>5. IsFiniteSet(found) /\ IsFiniteSet(Busy) /\ IsFiniteSet(Alive)
  BY <1>3, <1>4, FS_Subset, DifferencesAssumption
<1>6. Len(refreshes) \in Nat /\ Len(deletes) \in Nat
  BY DEF TypeInv, TypeOK
<1> QED BY <1>1, <1>2, <1>5, <1>6, FS_CardinalityType

LEMMA SumsNat ==
  ASSUME TypeInv
  PROVE  RunLeft \in Nat /\ GeneratorLeft \in Nat /\ QueuesLeft \in Nat /\ WorkersLeft \in Nat
<1>1. \A a, b, c \in Nat : a + b \in Nat /\ 2 * a + 2 * b \in Nat /\ a + 3 * b + 3 * c \in Nat
  OBVIOUS
<1>2. RunLeft \in Nat
  BY <1>1, PartsNat, Zenon DEF RunLeft
<1>3. GeneratorLeft \in Nat
  BY <1>1, PartsNat, Zenon DEF GeneratorLeft
<1>4. QueuesLeft \in Nat
  BY <1>1, PartsNat, Zenon DEF QueuesLeft
<1>5. WorkersLeft \in Nat
  BY <1>1, PartsNat, Zenon DEF WorkersLeft
<1> QED BY <1>2, <1>3, <1>4, <1>5

\* A step of run() goes on to a later phase; the pool starts where it was idle.
LEMMA RunCounts ==
  ASSUME TypeInv, PhaseInv, Run, TypeInv'
  PROVE  StepsLeft' < StepsLeft
<1> USE DEF mainVars, genVars, workVars
<1>1. Rank[phase'] + 1 <= Rank[phase] /\ CancelLeft' <= CancelLeft
  BY DEF Run, NotifyStarted, NotifyStartedFails, Connect, ConnectUnavailable, ConnectFails,
     Retrieve, RetrieveInvalid, StartTasks, MetricsUnavailable, PrescanFails,
     AwaitReturns, AwaitInterrupted, Inspect, Complete, StopTransport,
     StopUnregistered, NotifyCompleted, NotifyCompletedFails, Goto, Rank, CancelLeft
<1>2. /\ UNCHANGED <<found, stops, pills, refreshes, deletes>>
      /\ StopSteps' = StopSteps /\ PillsLeft' = PillsLeft
      /\ Busy' = Busy /\ Alive' = Alive
  <2>1. CASE StartTasks
    BY <2>1 DEF StartTasks, Goto, PhaseInv, PoolIdle, StopSteps, PillsLeft, Busy, Alive
  <2>2. CASE ~StartTasks
    <3>1. UNCHANGED <<genPc, found, stops, pills, refreshes, deletes, workerPc>>
      BY <2>2 DEF Run, NotifyStarted, NotifyStartedFails, Connect, ConnectUnavailable,
         ConnectFails, Retrieve, RetrieveInvalid, MetricsUnavailable, PrescanFails,
         AwaitReturns, AwaitInterrupted, Inspect, Complete, StopTransport,
         StopUnregistered, NotifyCompleted, NotifyCompletedFails
    <3> QED BY <3>1 DEF StopSteps, PillsLeft, Busy, Alive
  <2> QED BY <2>1, <2>2
<1>3. Rank[phase'] \in Nat /\ CancelLeft' \in Nat
  BY DEF TypeInv, TypeOK, Phases, Rank, CancelLeft
<1>4. RunLeft' < RunLeft /\ RunLeft' \in Nat
  <2>1. \A a, b, c, d \in Nat :
          a + 1 <= b /\ c <= d => a + c < b + d /\ a + c \in Nat
    OBVIOUS
  <2>2. Rank[phase] \in Nat /\ CancelLeft \in Nat
    BY PartsNat
  <2>3. RunLeft' = Rank[phase'] + CancelLeft'
    BY DEF RunLeft, Rank
  <2> HIDE DEF Rank, CancelLeft
  <2> QED BY <1>1, <1>3, <2>1, <2>2, <2>3 DEF RunLeft
<1>5. /\ GeneratorLeft' = GeneratorLeft /\ QueuesLeft' = QueuesLeft
      /\ WorkersLeft' = WorkersLeft
  BY <1>2 DEF GeneratorLeft, QueuesLeft, WorkersLeft
<1> QED BY <1>4, <1>5, SumsNat DEF StepsLeft

\* A run is cancelled once.
LEMMA CancelCounts ==
  ASSUME TypeInv, Cancel
  PROVE  StepsLeft' < StepsLeft
<1> USE DEF mainVars, genVars, workVars
<1>1. /\ UNCHANGED <<phase, genPc, found, stops, pills, refreshes, deletes, workerPc>>
      /\ CancelLeft' = 0 /\ CancelLeft = 1
  BY DEF Cancel, CancelLeft
<1>2. StopSteps' = StopSteps /\ PillsLeft' = PillsLeft /\ Busy' = Busy /\ Alive' = Alive
  BY <1>1 DEF StopSteps, PillsLeft, Busy, Alive
<1>3. RunLeft' = RunLeft - 1
  BY <1>1, PartsNat DEF RunLeft
<1>4. /\ GeneratorLeft' = GeneratorLeft /\ QueuesLeft' = QueuesLeft
      /\ WorkersLeft' = WorkersLeft
  BY <1>1, <1>2 DEF GeneratorLeft, QueuesLeft, WorkersLeft
<1> QED BY <1>3, <1>4, SumsNat DEF StepsLeft

\* What is reported or dropped is not found again; a put takes more than the queue gains
\* (DifferenceGenerator.run, DifferenceQueuer).
LEMMA GenerateCounts ==
  ASSUME TypeInv, Generate
  PROVE  StepsLeft' < StepsLeft
<1> USE DEF mainVars, genVars, workVars
<1>1. UNCHANGED <<phase, interrupted, workerPc>>
  BY DEF Generate, Report, DropReport, CompareReturns, OpenFails, CompareFails,
     BeginStops, PutDone, OnStopReturns
<1>2. RunLeft' = RunLeft /\ WorkersLeft' = WorkersLeft
  BY <1>1 DEF CancelLeft, Busy, Alive, RunLeft, WorkersLeft
<1>3. ASSUME \/ Len(refreshes') = Len(refreshes) + 1 /\ deletes' = deletes
             \/ Len(deletes') = Len(deletes) + 1 /\ refreshes' = refreshes
      PROVE  QueuesLeft' = QueuesLeft + 2
  BY <1>3, PartsNat DEF QueuesLeft
<1>4. ASSUME UNCHANGED <<refreshes, deletes>> PROVE QueuesLeft' = QueuesLeft
  BY <1>4 DEF QueuesLeft
<1>5. ASSUME NEW d \in found, found' = found \ {d}, UNCHANGED <<genPc, stops, pills>>
      PROVE  GeneratorLeft' = GeneratorLeft - 3
  <2>1. Cardinality(found') = Cardinality(found) - 1
    BY <1>5, PartsNat, FS_RemoveElement
  <2>2. StopSteps' = StopSteps /\ PillsLeft' = PillsLeft
    BY <1>5 DEF StopSteps, PillsLeft
  <2> QED BY <2>1, <2>2, PartsNat DEF GeneratorLeft
<1>6. CASE Report
  <2>1. PICK d \in found : /\ found' = found \ {d}
                           /\ \/ d \in Refreshes /\ PutRefresh(d)
                              \/ d \in Removes /\ PutDelete(d)
    BY <1>6 DEF Report
  <2>2. \/ Len(refreshes') = Len(refreshes) + 1 /\ deletes' = deletes
        \/ Len(deletes') = Len(deletes) + 1 /\ refreshes' = refreshes
    BY <2>1, Appended DEF PutRefresh, PutDelete, TypeInv, TypeOK
  <2>3. GeneratorLeft' = GeneratorLeft - 3
    BY <1>5, <1>6, <2>1 DEF Report
  <2> QED BY <1>2, <1>3, <2>2, <2>3, SumsNat DEF StepsLeft
<1>7. CASE DropReport
  <2>1. GeneratorLeft' = GeneratorLeft - 3 /\ UNCHANGED <<refreshes, deletes>>
    BY <1>5, <1>7 DEF DropReport
  <2> QED BY <1>2, <1>4, <2>1, SumsNat DEF StepsLeft
<1>8. CASE CompareReturns \/ OpenFails \/ CompareFails
  <2>1. /\ UNCHANGED <<found, refreshes, deletes>>
        /\ StopSteps = 3 /\ StopSteps' \in {1, 2}
        /\ PillsLeft = Pills + Pills /\ PillsLeft' \in {Pills, Pills + Pills}
    BY <1>8, PillsType DEF CompareReturns, OpenFails, CompareFails, BeginStops, StopSteps,
       PillsLeft
  <2>2. GeneratorLeft' < GeneratorLeft /\ GeneratorLeft' \in Nat
    <3>1. \A p, c \in Nat : \A a \in {1, 2}, b \in {p, p + p} :
            /\ a + 3 * b + 3 * c < 3 + 3 * (p + p) + 3 * c
            /\ a + 3 * b + 3 * c \in Nat
      OBVIOUS
    <3>2. Pills \in Nat /\ Cardinality(found) \in Nat
      BY PillsType, PartsNat
    <3>3. /\ GeneratorLeft' = StopSteps' + 3 * PillsLeft' + 3 * Cardinality(found)
          /\ GeneratorLeft = 3 + 3 * (Pills + Pills) + 3 * Cardinality(found)
      BY <2>1 DEF GeneratorLeft
    <3> QED BY <2>1, <3>1, <3>2, <3>3
  <2> QED BY <1>2, <1>4, <2>1, <2>2, SumsNat DEF StepsLeft
<1>9. CASE PutDone
  <2>1. UNCHANGED <<found, genPc, stops>> /\ pills' = pills - 1 /\ genPc = "onStop"
    BY <1>9 DEF PutDone
  <2>2. StopSteps' = StopSteps /\ PillsLeft' = PillsLeft - 1
    BY <2>1, PillsType DEF StopSteps, PillsLeft, TypeInv, TypeOK
  <2>3. GeneratorLeft' = GeneratorLeft - 3
    <3>1. \A a, b, c \in Nat : a + 3 * (b - 1) + 3 * c = (a + 3 * b + 3 * c) - 3
      OBVIOUS
    <3>2. StopSteps \in Nat /\ PillsLeft \in Nat /\ Cardinality(found) \in Nat
      BY PartsNat
    <3>3. GeneratorLeft' = StopSteps + 3 * (PillsLeft - 1) + 3 * Cardinality(found)
      BY <2>1, <2>2 DEF GeneratorLeft
    <3> QED BY <3>1, <3>2, <3>3 DEF GeneratorLeft
  <2>4. \/ Len(refreshes') = Len(refreshes) + 1 /\ deletes' = deletes
        \/ Len(deletes') = Len(deletes) + 1 /\ refreshes' = refreshes
        \/ UNCHANGED <<refreshes, deletes>>
    BY <1>9, Appended DEF PutDone, PutDelete, PutRefresh, TypeInv, TypeOK
  <2> QED BY <1>2, <1>3, <1>4, <2>3, <2>4, SumsNat DEF StepsLeft
<1>10. CASE OnStopReturns
  <2>1. /\ UNCHANGED <<found, refreshes, deletes>>
        /\ StopSteps' = StopSteps - 1 /\ PillsLeft' = PillsLeft
    BY <1>10, PillsType DEF OnStopReturns, StopSteps, PillsLeft, TypeInv, TypeOK, StopsLeft
  <2>2. GeneratorLeft' = GeneratorLeft - 1
    BY <2>1, PartsNat DEF GeneratorLeft
  <2> QED BY <1>2, <1>4, <2>1, <2>2, SumsNat DEF StepsLeft
<1> QED BY <1>6, <1>7, <1>8, <1>9, <1>10 DEF Generate

\* A worker takes from its queue, handles what it took, and stops once
\* (ContentDiffereceTask.run).
LEMMA WorkCounts ==
  ASSUME TypeInv, NEW w \in Workers, Work(w)
  PROVE  StepsLeft' < StepsLeft
<1> USE DEF mainVars, genVars, workVars
<1>1. UNCHANGED <<phase, interrupted, genPc, found, stops, pills>>
  BY DEF Work, Take, WorkerInterrupted, HandleRefresh, HandleRemove, Handled,
     CleanupRequester, CleanupRemover, HandlerFails
<1>2. RunLeft' = RunLeft /\ GeneratorLeft' = GeneratorLeft
  BY <1>1 DEF CancelLeft, StopSteps, PillsLeft, RunLeft, GeneratorLeft
<1>3. workerPc \in [Workers -> {"idle", "take", "handle", "stopped"}]
  BY DEF TypeInv, TypeOK
<1>4. ASSUME UNCHANGED <<refreshes, deletes>> PROVE QueuesLeft' = QueuesLeft
  BY <1>4 DEF QueuesLeft
<1>5. CASE Take(w)
  <2>1. workerPc[w] = "take" /\ workerPc' = [workerPc EXCEPT ![w] = "handle"]
    BY <1>5 DEF Take
  <2>2. Busy' = Busy \cup {w} /\ w \notin Busy /\ Alive' = Alive
    BY <1>3, <2>1 DEF Busy, Alive
  <2>3. Cardinality(Busy') = Cardinality(Busy) + 1
    BY <2>2, PartsNat, FS_AddElement
  <2>4. WorkersLeft' = WorkersLeft + 1
    BY <2>2, <2>3, PartsNat DEF WorkersLeft
  <2>5. \/ Len(deletes') = Len(deletes) - 1 /\ refreshes' = refreshes
        \/ Len(refreshes') = Len(refreshes) - 1 /\ deletes' = deletes
    BY <1>5, Taken DEF Take, TypeInv, TypeOK
  <2>6. QueuesLeft' = QueuesLeft - 2
    BY <2>5, PartsNat DEF QueuesLeft
  <2> QED BY <1>2, <2>4, <2>6, SumsNat DEF StepsLeft
<1>6. ASSUME workerPc[w] = "handle", workerPc' = [workerPc EXCEPT ![w] = "take"],
             UNCHANGED <<refreshes, deletes>>
      PROVE  StepsLeft' < StepsLeft
  <2>1. Busy' = Busy \ {w} /\ w \in Busy /\ Alive' = Alive
    BY <1>3, <1>6 DEF Busy, Alive
  <2>2. Cardinality(Busy') = Cardinality(Busy) - 1
    BY <2>1, PartsNat, FS_RemoveElement
  <2>3. WorkersLeft' = WorkersLeft - 1
    BY <2>1, <2>2, PartsNat DEF WorkersLeft
  <2> QED BY <1>2, <1>4, <1>6, <2>3, SumsNat DEF StepsLeft
<1>7. ASSUME workerPc[w] \in {"take", "handle"},
             workerPc' = [workerPc EXCEPT ![w] = "stopped"],
             UNCHANGED <<refreshes, deletes>>
      PROVE  StepsLeft' < StepsLeft
  <2>1. Busy' = Busy \ {w} /\ Alive' = Alive \ {w} /\ w \in Alive
    BY <1>3, <1>7 DEF Busy, Alive
  <2>2. Cardinality(Busy') <= Cardinality(Busy) /\ Cardinality(Busy') \in Nat
    <3>1. Busy' \subseteq Busy
      BY <2>1
    <3> QED BY <3>1, PartsNat, FS_Subset, FS_CardinalityType
  <2>3. Cardinality(Alive') = Cardinality(Alive) - 1
    BY <2>1, PartsNat, FS_RemoveElement
  <2>4. WorkersLeft' < WorkersLeft /\ WorkersLeft' \in Int
    BY <2>2, <2>3, PartsNat DEF WorkersLeft
  <2> QED BY <1>2, <1>4, <1>7, <2>4, SumsNat DEF StepsLeft
<1>8. CASE HandleRefresh(w) \/ (w = Remover /\ HandleRemove)
  BY <1>6, <1>8 DEF HandleRefresh, HandleRemove, Handled
<1>9. CASE \/ WorkerInterrupted(w) \/ CleanupRequester(w) \/ HandlerFails(w)
           \/ w = Remover /\ CleanupRemover
  BY <1>7, <1>9 DEF WorkerInterrupted, CleanupRequester, CleanupRemover, HandlerFails
<1> QED BY <1>5, <1>8, <1>9 DEF Work

\* A run does no more than a fixed number of steps for each difference and for each of its
\* threads, whoever throws or is interrupted; so that it comes to rest unless it waits for
\* ever (SynchronizationTask.run, DifferenceQueuer, ContentDiffereceTask.run).
THEOREM RunsOutOfSteps ==
    Spec => /\ StepsLeft = 14 + 7 * Pills + 3 * Cardinality(Differences)
            /\ [](StepsLeft \in Nat)
            /\ [][StepsLeft' < StepsLeft]_vars
<1>1. IInv => StepsLeft \in Nat
  BY SumsNat DEF IInv, StepsLeft
<1>2. IInv /\ IInv' /\ [Next]_vars => [StepsLeft' < StepsLeft]_vars
  BY RunCounts, CancelCounts, GenerateCounts, WorkCounts DEF IInv, Next, Finished
<1>3. Init => StepsLeft = 14 + 7 * Pills + 3 * Cardinality(Differences)
  <2> SUFFICES ASSUME Init
               PROVE  StepsLeft = 14 + 7 * Pills + 3 * Cardinality(Differences)
    OBVIOUS
  <2>1. /\ Rank[phase] = 10 /\ CancelLeft = 1 /\ StopSteps = 3 /\ PillsLeft = Pills + Pills
        /\ found = Differences /\ Len(refreshes) = 0 /\ Len(deletes) = 0
        /\ Busy = {} /\ Alive = Workers
    BY DEF Init, Rank, CancelLeft, StopSteps, PillsLeft, Busy, Alive
  <2>2. Cardinality(Workers) = Pills
    BY FS_AddElement, ThreadsAssumption DEF Workers, Pills
  <2>3. Cardinality(Differences) \in Nat
    BY FS_CardinalityType, DifferencesAssumption
  <2>4. /\ RunLeft = 11 /\ GeneratorLeft = 3 + 6 * Pills + 3 * Cardinality(Differences)
        /\ QueuesLeft = 0
    BY <2>1, <2>3, PillsType DEF RunLeft, GeneratorLeft, QueuesLeft
  <2>5. WorkersLeft = Pills
    BY <2>1, <2>2, PillsType, FS_EmptySet DEF WorkersLeft
  <2> QED BY <2>3, <2>4, <2>5, PillsType DEF StepsLeft
<1> QED BY <1>1, <1>2, <1>3, Invariance, PTL DEF Spec

-----------------------------------------------------------------------------
(* Nobody waits for ever while nobody has died                                 *)

\* The last n elements of q are pills and the others are not.
PillTail(q, n) ==
    n \in 0..Len(q) /\ \A i \in 1..Len(q) : q[i] = DONE <=> Len(q) - n < i

\* The requesters that have taken their pill.
Took == {w \in Requesters : holding[w] = DONE}

\* The pills the current call of onStop, or the last one, has put.
RefreshPills ==
    IF genPc = "stopped" THEN Cardinality(Requesters)
    ELSE IF genPc = "onStop" /\ pills < Pills THEN Cardinality(Requesters) - pills
    ELSE 0

DeletePills ==
    IF genPc = "stopped" \/ (genPc = "onStop" /\ pills < Pills) THEN 1 ELSE 0

\* before: the comparer's finally block has already put a pill for each worker.
PillsLie(before) ==
    /\ before => genPc = "stopped" \/ (genPc = "onStop" /\ stops = 1)
    /\ PillTail(refreshes, (IF before THEN Cardinality(Requesters) ELSE 0)
                             + RefreshPills - Cardinality(Took))
    /\ PillTail(deletes, (IF before THEN 1 ELSE 0)
                           + DeletePills - (IF holding[Remover] = DONE THEN 1 ELSE 0))

\* A pool that is not interrupted: the pills that were put and not taken are still
\* in the queues, and no others.
PillCount == Pool \cap interrupted = {} => \E before \in BOOLEAN : PillsLie(before)

\* An interrupt reaches the whole pool or nobody; its tasks begin together; a worker
\* that died of an exception has lost the difference it held.
PoolInv ==
    /\ Pool \subseteq interrupted \/ Pool \cap interrupted = {}
    /\ \A w \in Workers : workerPc[w] = "idle" <=> genPc = "idle"
    /\ phase = "await" => genPc # "idle"
    /\ \A w \in Workers :
         workerPc[w] = "stopped" /\ holding[w] \in Differences =>
           outcome[holding[w]] = "lost"

\* A pill that is put lies last; a difference that is put lies before no pill.
LEMMA PillTailAppended ==
  ASSUME NEW S, NEW q \in Seq(S), NEW e \in S, NEW n, PillTail(q, n)
  PROVE  /\ e = DONE => PillTail(Append(q, e), n + 1)
         /\ e # DONE /\ n = 0 => PillTail(Append(q, e), 0)
<1>1. /\ Len(q) \in Nat
      /\ Len(Append(q, e)) = Len(q) + 1
      /\ \A i \in 1..Len(q) : Append(q, e)[i] = q[i]
      /\ Append(q, e)[Len(q) + 1] = e
  BY Appended
<1>2. \A i \in 1..Len(Append(q, e)) : i \in 1..Len(q) \/ i = Len(q) + 1
  BY <1>1
<1>3. n \in 0..Len(q) /\ \A i \in 1..Len(q) : q[i] = DONE <=> Len(q) - n < i
  BY DEF PillTail
<1>4. ASSUME e = DONE PROVE PillTail(Append(q, e), n + 1)
  <2>1. n + 1 \in 0..Len(Append(q, e))
    BY <1>1, <1>3
  <2>2. ASSUME NEW i \in 1..Len(Append(q, e))
        PROVE  Append(q, e)[i] = DONE <=> Len(Append(q, e)) - (n + 1) < i
    <3>1. CASE i \in 1..Len(q)
      BY <1>1, <1>3, <3>1
    <3>2. CASE i = Len(q) + 1
      BY <1>1, <1>3, <1>4, <3>2
    <3> QED BY <1>2, <3>1, <3>2
  <2> QED BY <2>1, <2>2 DEF PillTail
<1>5. ASSUME e # DONE, n = 0 PROVE PillTail(Append(q, e), 0)
  <2>1. 0 \in 0..Len(Append(q, e))
    BY <1>1
  <2>2. ASSUME NEW i \in 1..Len(Append(q, e))
        PROVE  Append(q, e)[i] = DONE <=> Len(Append(q, e)) - 0 < i
    <3>1. CASE i \in 1..Len(q)
      BY <1>1, <1>3, <1>5, <3>1
    <3>2. CASE i = Len(q) + 1
      BY <1>1, <1>3, <1>5, <3>2
    <3> QED BY <1>2, <3>1, <3>2
  <2> QED BY <2>1, <2>2 DEF PillTail
<1> QED BY <1>4, <1>5

\* Taking a pill leaves one less; taking a difference leaves as many.
LEMMA PillTailTaken ==
  ASSUME NEW S, NEW q \in Seq(S), q # <<>>, NEW n, PillTail(q, n)
  PROVE  PillTail(Tail(q), IF Head(q) = DONE THEN n - 1 ELSE n)
<1>1. ASSUME NEW l \in Nat \ {0}, NEW m \in 0..l, NEW f, NEW g,
             \A i \in 1..l : f[i] = DONE <=> l - m < i,
             \A i \in 1..(l - 1) : g[i] = f[i + 1]
      PROVE  /\ f[1] = DONE => /\ m - 1 \in 0..(l - 1)
                               /\ \A i \in 1..(l - 1) : g[i] = DONE <=> (l - 1) - (m - 1) < i
             /\ f[1] # DONE => /\ m \in 0..(l - 1)
                               /\ \A i \in 1..(l - 1) : g[i] = DONE <=> (l - 1) - m < i
  <2>1. f[1] = DONE <=> l - m < 1
    BY <1>1
  <2>2. f[1] = DONE <=> m = l
    BY <2>1
  <2>3. \A i \in 1..(l - 1) : g[i] = DONE <=> l - m < i + 1
    <3>1. \A i \in 1..(l - 1) : i + 1 \in 1..l
      OBVIOUS
    <3> QED BY <1>1, <3>1
  <2> QED BY <2>2, <2>3
<1>2. /\ Head(q) = q[1]
      /\ Len(q) \in Nat \ {0}
      /\ Len(Tail(q)) = Len(q) - 1
      /\ \A i \in 1..(Len(q) - 1) : Tail(q)[i] = q[i + 1]
  BY Taken
<1>3. n \in 0..Len(q) /\ \A i \in 1..Len(q) : q[i] = DONE <=> Len(q) - n < i
  BY DEF PillTail
<1>4. CASE q[1] = DONE
  <2>1. /\ n - 1 \in 0..(Len(q) - 1)
        /\ \A i \in 1..(Len(q) - 1) : Tail(q)[i] = DONE <=> (Len(q) - 1) - (n - 1) < i
    BY <1>1, <1>2, <1>3, <1>4
  <2> QED BY <1>2, <1>4, <2>1, Zenon DEF PillTail
<1>5. CASE q[1] # DONE
  <2>1. /\ n \in 0..(Len(q) - 1)
        /\ \A i \in 1..(Len(q) - 1) : Tail(q)[i] = DONE <=> (Len(q) - 1) - n < i
    BY <1>1, <1>2, <1>3, <1>5
  <2> QED BY <1>2, <1>5, <2>1, Zenon DEF PillTail
<1> QED BY <1>4, <1>5

\* A queue of pills holds as many as it is long.
LEMMA PillTailOnly ==
  ASSUME NEW S, NEW q \in Seq(S), NEW n, PillTail(q, n), OnlyPills(q)
  PROVE  Len(q) = n
<1>1. Len(q) \in Nat /\ n \in 0..Len(q)
  BY DEF PillTail
<1>2. ASSUME n < Len(q) PROVE FALSE
  <2>1. 1 \in 1..Len(q) /\ ~(Len(q) - n < 1)
    BY <1>1, <1>2
  <2> QED BY <2>1 DEF PillTail, OnlyPills
<1> QED BY <1>1, <1>2

\* The requesters can be counted, and those that have taken their pill.
LEMMA TookCounts ==
  /\ Cardinality(Requesters) \in Nat \ {0}
  /\ IsFiniteSet(Took) /\ Cardinality(Took) \in Nat
  /\ Cardinality(Took) <= Cardinality(Requesters)
  /\ Took # Requesters => Cardinality(Took) < Cardinality(Requesters)
<1>1. Took \subseteq Requesters
  BY DEF Took
<1>2. Cardinality(Requesters) \in Nat /\ Cardinality(Requesters) # 0
  BY FS_CardinalityType, FS_EmptySet, ThreadsAssumption
<1>3. /\ IsFiniteSet(Took) /\ Cardinality(Took) <= Cardinality(Requesters)
      /\ Cardinality(Took) = Cardinality(Requesters) => Took = Requesters
  BY <1>1, FS_Subset, ThreadsAssumption
<1>4. Cardinality(Took) \in Nat
  BY <1>3, FS_CardinalityType
<1> QED BY <1>2, <1>3, <1>4

\* Whoever handles a difference, or reports it, finds it pending.
LEMMA InHandIsPending ==
  ASSUME Accounted, NEW d \in Differences
  PROVE  /\ d \in found => outcome[d] = "pending"
         /\ \A w \in Workers : Handles(w, d) => outcome[d] = "pending"
  BY DEF Accounted

\* Every step keeps PoolInv (ThreadPoolExecutor.shutdownNow, ContentDiffereceTask.run).
LEMMA PoolStep ==
  TypeInv /\ PhaseInv /\ HoldingInv /\ Accounted /\ PoolInv /\ [Next]_vars => PoolInv'
<1> SUFFICES ASSUME TypeInv, PhaseInv, HoldingInv, Accounted, PoolInv, [Next]_vars
             PROVE  PoolInv'
  OBVIOUS
<1> USE DEF mainVars, genVars, workVars
<1>1. CASE Run
  <2>1. CASE StartTasks
    <3>1. genPc = "idle" /\ \A w \in Workers : workerPc'[w] = "take"
      BY <2>1 DEF StartTasks, Goto, PhaseInv, PoolIdle
    <3> QED BY <2>1, <3>1 DEF StartTasks, PoolInv
  <2>2. CASE AwaitInterrupted
    BY <2>2, ThreadsAssumption DEF AwaitInterrupted, Goto, PoolInv
  <2> QED
    BY <1>1, <2>1, <2>2 DEF Run, NotifyStarted, NotifyStartedFails, Connect,
       ConnectUnavailable, ConnectFails, Retrieve, RetrieveInvalid,
       MetricsUnavailable, PrescanFails, AwaitReturns, Inspect, Complete,
       StopTransport, StopUnregistered, NotifyCompleted, NotifyCompletedFails,
       Goto, PoolInv
<1>2. CASE Cancel
  <2>1. Scheduler \notin Pool
    BY ThreadsAssumption DEF Pool, Workers
  <2> QED BY <1>2, <2>1 DEF Cancel, PoolInv
<1>3. CASE DropReport
  <2>1. PICK d \in found : outcome' = [outcome EXCEPT ![d] = "dropped"]
    BY <1>3 DEF DropReport
  <2>2. d \in Differences /\ outcome[d] = "pending"
    BY InHandIsPending DEF TypeInv, TypeOK
  <2>3. \A e \in Differences : outcome[e] = "lost" => outcome'[e] = "lost"
    BY <2>1, <2>2 DEF TypeInv, TypeOK
  <2> QED BY <1>3, <2>3 DEF DropReport, PoolInv
<1>4. CASE Report \/ CompareReturns \/ OpenFails \/ CompareFails \/ PutDone \/ OnStopReturns
  BY <1>4 DEF Report, CompareReturns, OpenFails, CompareFails, BeginStops, PutDone,
     OnStopReturns, PoolInv
<1>5. ASSUME NEW w \in Workers, Work(w) PROVE PoolInv'
  <2>1. UNCHANGED <<phase, interrupted, genPc>>
    BY <1>5 DEF Work, Take, WorkerInterrupted, HandleRefresh, HandleRemove, Handled,
       CleanupRequester, CleanupRemover, HandlerFails
  <2>2. genPc # "idle" /\ workerPc[w] \in {"take", "handle"}
    BY <1>5 DEF PoolInv, Work, Take, WorkerInterrupted, HandleRefresh, HandleRemove,
       Handled, CleanupRequester, CleanupRemover, HandlerFails
  <2>3. \A v \in Workers : workerPc'[v] = "idle" <=> genPc = "idle"
    BY <1>5, <2>2 DEF PoolInv, Work, Take, WorkerInterrupted, HandleRefresh,
       HandleRemove, Handled, CleanupRequester, CleanupRemover, HandlerFails,
       TypeInv, TypeOK
  <2>4. ASSUME NEW v \in Workers, workerPc'[v] = "stopped", holding'[v] \in Differences
        PROVE  outcome'[holding'[v]] = "lost"
    <3>1. CASE Take(w)
      BY <2>4, <3>1 DEF Take, PoolInv, TypeInv, TypeOK
    <3>2. CASE \E more \in Tallies : Handled(w, more)
      <4>1. v # w /\ workerPc[v] = "stopped" /\ holding'[v] = holding[v]
        BY <2>4, <3>2 DEF Handled, TypeInv, TypeOK
      <4>2. outcome[holding[v]] = "lost"
        BY <2>4, <4>1 DEF PoolInv
      <4>3. holding[w] \in Differences => outcome[holding[w]] = "pending"
        BY <3>2, InHandIsPending DEF Handled, Handles
      <4> QED BY <2>4, <3>2, <4>1, <4>2, <4>3 DEF Handled, TypeInv, TypeOK
    <3>3. CASE WorkerInterrupted(w)
      BY <2>4, <3>3, DifferencesAssumption DEF WorkerInterrupted, HoldingInv, PoolInv,
         TypeInv, TypeOK
    <3>4. CASE CleanupRequester(w) \/ (w = Remover /\ CleanupRemover)
      BY <2>4, <3>4, DifferencesAssumption DEF CleanupRequester, CleanupRemover, PoolInv,
         TypeInv, TypeOK
    <3>5. CASE HandlerFails(w)
      <4>1. holding' = holding
        BY <3>5 DEF HandlerFails
      <4>2. CASE v = w
        BY <2>4, <3>5, <4>1, <4>2, DifferencesAssumption DEF HandlerFails, TypeInv, TypeOK
      <4>3. CASE v # w
        <5>1. outcome[holding[v]] = "lost"
          BY <2>4, <3>5, <4>1, <4>3 DEF HandlerFails, PoolInv, TypeInv, TypeOK
        <5> QED BY <2>4, <3>5, <4>1, <5>1 DEF HandlerFails, TypeInv, TypeOK
      <4> QED BY <4>2, <4>3
    <3>6. CASE HandleRefresh(w) \/ (w = Remover /\ HandleRemove)
      <4>1. {"completed"} \in Tallies /\ {"failed"} \in Tallies
        BY DEF Tallies
      <4>2. \E more \in Tallies : Handled(w, more)
        BY <3>6, <4>1 DEF HandleRefresh, HandleRemove
      <4> QED BY <3>2, <4>2, Zenon
    <3> QED BY <1>5, <3>1, <3>3, <3>4, <3>5, <3>6 DEF Work
  <2> QED BY <2>1, <2>3, <2>4 DEF PoolInv
<1>6. CASE Finished \/ UNCHANGED vars
  BY <1>6 DEF Finished, vars, PoolInv
<1> QED BY <1>1, <1>2, <1>3, <1>4, <1>5, <1>6 DEF Next, Generate

\* Every step keeps the count of the pills (DifferenceQueuer.onStop, called twice if the
\* comparer throws; ContentDiffereceTask.run).
LEMMA CountStep ==
  TypeInv /\ PhaseInv /\ HoldingInv /\ PillsInv /\ PoolInv /\ PillCount /\ [Next]_vars
    => PillCount'
<1> SUFFICES ASSUME TypeInv, PhaseInv, HoldingInv, PillsInv, PoolInv, PillCount, [Next]_vars,
                    (Pool \cap interrupted = {})'
             PROVE  \E before \in BOOLEAN : PillsLie(before)'
  BY DEF PillCount
<1> USE DEF mainVars, genVars, workVars
<1>1. ASSUME UNCHANGED <<genPc, stops, pills, refreshes, deletes, holding>>,
             NEW before \in BOOLEAN, PillsLie(before)
      PROVE  PillsLie(before)'
  BY <1>1 DEF PillsLie, RefreshPills, DeletePills, Took
<1>2. CASE Run
  <2>1. ~AwaitInterrupted
    BY DEF AwaitInterrupted, Pool
  <2>2. UNCHANGED <<interrupted, stops, pills, refreshes, deletes, holding>>
    BY <1>2, <2>1 DEF Run, NotifyStarted, NotifyStartedFails, Connect,
       ConnectUnavailable, ConnectFails, Retrieve, RetrieveInvalid, StartTasks,
       MetricsUnavailable, PrescanFails, AwaitReturns, Inspect, Complete,
       StopTransport, StopUnregistered, NotifyCompleted, NotifyCompletedFails
  <2>3. PICK before \in BOOLEAN : PillsLie(before)
    BY <2>2 DEF PillCount
  <2>4. CASE StartTasks
    <3>1. genPc = "idle" /\ genPc' = "compare"
      BY <2>4 DEF StartTasks, Goto, PhaseInv, PoolIdle
    <3>2. PillsLie(before)'
      BY <2>2, <2>3, <3>1 DEF PillsLie, RefreshPills, DeletePills, Took
    <3> QED BY <3>2
  <2>5. CASE ~StartTasks
    <3>1. UNCHANGED genPc
      BY <1>2, <2>1, <2>5 DEF Run, NotifyStarted, NotifyStartedFails, Connect,
         ConnectUnavailable, ConnectFails, Retrieve, RetrieveInvalid,
         MetricsUnavailable, PrescanFails, AwaitReturns, Inspect, Complete,
         StopTransport, StopUnregistered, NotifyCompleted, NotifyCompletedFails
    <3> QED BY <1>1, <2>2, <2>3, <3>1
  <2> QED BY <2>4, <2>5
<1>3. CASE Cancel
  <2>1. UNCHANGED <<genPc, stops, pills, refreshes, deletes, holding>>
        /\ Pool \cap interrupted = {}
    BY <1>3 DEF Cancel
  <2> QED BY <1>1, <2>1 DEF PillCount
<1>4. ASSUME Generate \/ \E w \in Workers : Work(w)
      PROVE  Pool \cap interrupted = {} /\ \E before \in BOOLEAN : PillsLie(before)
  <2>1. UNCHANGED interrupted
    BY <1>4 DEF Generate, Report, DropReport, CompareReturns, OpenFails, CompareFails,
       BeginStops, PutDone, OnStopReturns, Work, Take, WorkerInterrupted, HandleRefresh,
       HandleRemove, Handled, CleanupRequester, CleanupRemover, HandlerFails
  <2> QED BY <2>1 DEF PillCount
<1>5. /\ refreshes \in Seq(Refreshes \cup {DONE}) /\ deletes \in Seq(Removes \cup {DONE})
      /\ stops \in 0..2 /\ pills \in 0..Pills /\ Pills = Cardinality(Requesters) + 1
      /\ Cardinality(Requesters) \in Nat \ {0} /\ Cardinality(Took) \in Nat
  BY TookCounts DEF TypeInv, TypeOK, Pills
<1>6. CASE Report
  <2>1. PICK before \in BOOLEAN : PillsLie(before)
    BY <1>4, <1>6 DEF Generate
  <2>2. PICK d \in found : \/ d \in Refreshes /\ PutRefresh(d)
                           \/ d \in Removes /\ PutDelete(d)
    BY <1>6 DEF Report
  <2>3. /\ genPc = "compare" /\ UNCHANGED <<genPc, stops, pills, holding>>
        /\ d # DONE /\ \A w \in Workers : holding[w] # DONE
    BY <1>6, DifferencesAssumption DEF Report, PillsInv, TypeInv, TypeOK
  <2>4. ~before /\ RefreshPills = 0 /\ DeletePills = 0 /\ Took = {} /\ holding[Remover] # DONE
    BY <2>1, <2>3 DEF PillsLie, RefreshPills, DeletePills, Took, Workers
  <2>5. PillTail(refreshes, 0) /\ PillTail(deletes, 0)
    BY <2>1, <2>4, FS_EmptySet DEF PillsLie
  <2>6. PillTail(refreshes', 0) /\ PillTail(deletes', 0)
    BY <1>5, <2>2, <2>3, <2>5, PillTailAppended DEF PutRefresh, PutDelete
  <2>7. /\ RefreshPills' = 0 /\ DeletePills' = 0 /\ Took' = {} /\ holding'[Remover] # DONE
    BY <2>3, <2>4 DEF RefreshPills, DeletePills, Took
  <2>8. PillsLie(FALSE)'
    BY <2>6, <2>7, FS_EmptySet DEF PillsLie
  <2> QED BY <2>8
<1>7. CASE DropReport
  BY <1>4, <1>7 DEF DropReport, Generate, Pool
<1>8. CASE CompareReturns \/ OpenFails \/ CompareFails
  <2>1. PICK before \in BOOLEAN : PillsLie(before)
    BY <1>4, <1>8 DEF Generate
  <2>2. /\ genPc = "compare" /\ genPc' = "onStop" /\ pills' = Pills
        /\ UNCHANGED <<refreshes, deletes, holding>>
    BY <1>8 DEF CompareReturns, OpenFails, CompareFails, BeginStops
  <2>3. /\ ~before /\ RefreshPills' = RefreshPills /\ DeletePills' = DeletePills
        /\ Took' = Took
    BY <1>5, <2>1, <2>2 DEF PillsLie, RefreshPills, DeletePills, Took, Pills
  <2>4. PillsLie(before)'
    BY <2>1, <2>2, <2>3 DEF PillsLie
  <2> QED BY <2>4
<1>9. CASE PutDone
  <2>1. PICK before \in BOOLEAN : PillsLie(before)
    BY <1>4, <1>9 DEF Generate
  <2>2. /\ genPc = "onStop" /\ pills > 0 /\ pills' = pills - 1
        /\ UNCHANGED <<genPc, stops, holding>> /\ Pills' = Pills
        /\ IF pills = Pills THEN PutDelete(DONE) ELSE PutRefresh(DONE)
    BY <1>4, <1>9 DEF PutDone, Generate, Pool, Pills
  <2>3. Took' = Took
    BY <2>2 DEF Took
  <2> DEFINE r == (IF before THEN Cardinality(Requesters) ELSE 0)
                    + RefreshPills - Cardinality(Took)
             m == (IF before THEN 1 ELSE 0)
                    + DeletePills - (IF holding[Remover] = DONE THEN 1 ELSE 0)
  <2>4. PillTail(refreshes, r) /\ PillTail(deletes, m)
    BY <2>1 DEF PillsLie
  <2>5. CASE pills = Pills
    <3>1. RefreshPills' = RefreshPills /\ DeletePills' = DeletePills + 1
      BY <1>5, <2>2, <2>5 DEF RefreshPills, DeletePills
    <3>2. deletes' = Append(deletes, DONE) /\ refreshes' = refreshes
      BY <2>2, <2>5 DEF PutDelete
    <3>3. PillTail(deletes', m + 1)
      BY <1>5, <2>4, <3>2, PillTailAppended
    <3>4. r' = r /\ m' = m + 1
      BY <2>2, <2>3, <3>1 DEF DeletePills
    <3>5. PillsLie(before)'
      BY <2>1, <2>2, <2>4, <3>2, <3>3, <3>4 DEF PillsLie
    <3> QED BY <3>5
  <2>6. CASE pills # Pills
    <3>1. RefreshPills' = RefreshPills + 1 /\ DeletePills' = DeletePills
      BY <1>5, <2>2, <2>6 DEF RefreshPills, DeletePills
    <3>2. refreshes' = Append(refreshes, DONE) /\ deletes' = deletes
      BY <2>2, <2>6 DEF PutRefresh
    <3>3. PillTail(refreshes', r + 1)
      BY <1>5, <2>4, <3>2, PillTailAppended
    <3>4. r' = r + 1 /\ m' = m
      BY <1>5, <2>2, <2>3, <3>1 DEF RefreshPills
    <3>5. PillsLie(before)'
      BY <2>1, <2>2, <2>4, <3>2, <3>3, <3>4 DEF PillsLie
    <3> QED BY <3>5
  <2> QED BY <2>5, <2>6
<1>10. CASE OnStopReturns
  <2>1. PICK before \in BOOLEAN : PillsLie(before)
    BY <1>4, <1>10 DEF Generate
  <2>2. /\ genPc = "onStop" /\ pills = 0 /\ stops \in {1, 2}
        /\ UNCHANGED <<refreshes, deletes, holding>> /\ Took' = Took
    BY <1>5, <1>10 DEF OnStopReturns, Took, TypeInv, StopsLeft
  <2>3. RefreshPills = Cardinality(Requesters) /\ DeletePills = 1
    BY <1>5, <2>2 DEF RefreshPills, DeletePills
  <2>4. CASE stops = 2
    <3>1. genPc' = "onStop" /\ pills' = Pills /\ stops' = 1
      BY <1>10, <2>2, <2>4 DEF OnStopReturns
    <3>2. ~before /\ RefreshPills' = 0 /\ DeletePills' = 0
      BY <1>5, <2>1, <2>2, <2>4, <3>1 DEF PillsLie, RefreshPills, DeletePills, Pills
    <3>3. PillsLie(TRUE)'
      BY <1>5, <2>1, <2>2, <2>3, <3>1, <3>2 DEF PillsLie
    <3> QED BY <3>3
  <2>5. CASE stops = 1
    <3>1. genPc' = "stopped"
      BY <1>10, <2>5 DEF OnStopReturns
    <3>2. RefreshPills' = RefreshPills /\ DeletePills' = DeletePills
      BY <2>3, <3>1 DEF RefreshPills, DeletePills
    <3>3. PillsLie(before)'
      BY <2>1, <2>2, <3>1, <3>2 DEF PillsLie
    <3> QED BY <3>3
  <2> QED BY <2>2, <2>4, <2>5
<1>11. ASSUME NEW w \in Workers, Take(w) PROVE \E before \in BOOLEAN : PillsLie(before)'
  <2>1. PICK before \in BOOLEAN : PillsLie(before)
    BY <1>4, <1>11 DEF Work
  <2>2. /\ UNCHANGED <<genPc, stops, pills>> /\ holding[w] = Nothing /\ Nothing # DONE
        /\ holding \in [Workers -> Differences \cup {DONE, Nothing}]
    BY <1>11, DifferencesAssumption DEF Take, HoldingInv, TypeInv, TypeOK
  <2>3. RefreshPills' = RefreshPills /\ DeletePills' = DeletePills
    BY <2>2 DEF RefreshPills, DeletePills, Pills
  <2> DEFINE r == (IF before THEN Cardinality(Requesters) ELSE 0)
                    + RefreshPills - Cardinality(Took)
             m == (IF before THEN 1 ELSE 0)
                    + DeletePills - (IF holding[Remover] = DONE THEN 1 ELSE 0)
  <2>4. PillTail(refreshes, r) /\ PillTail(deletes, m)
    BY <2>1 DEF PillsLie
  <2>5. CASE w = Remover
    <3>1. /\ deletes # <<>> /\ deletes' = Tail(deletes) /\ refreshes' = refreshes
          /\ holding' = [holding EXCEPT ![Remover] = Head(deletes)]
      BY <1>11, <2>5 DEF Take
    <3>2. Took' = Took
      BY <2>2, <3>1, ThreadsAssumption DEF Took, Workers
    <3>3. PillTail(deletes', IF Head(deletes) = DONE THEN m - 1 ELSE m)
      BY <1>5, <2>4, <3>1, PillTailTaken
    <3>4. /\ holding[Remover] # DONE /\ holding'[Remover] = Head(deletes)
          /\ DeletePills \in {0, 1}
      BY <2>2, <2>5, <3>1 DEF DeletePills
    <3>5. m' = (IF Head(deletes) = DONE THEN m - 1 ELSE m) /\ r' = r
      BY <2>3, <3>2, <3>4
    <3>6. PillsLie(before)'
      BY <2>1, <2>2, <2>4, <3>1, <3>3, <3>5 DEF PillsLie
    <3> QED BY <3>6
  <2>6. CASE w # Remover
    <3>1. /\ refreshes # <<>> /\ refreshes' = Tail(refreshes) /\ deletes' = deletes
          /\ holding' = [holding EXCEPT ![w] = Head(refreshes)] /\ w \in Requesters
      BY <1>11, <2>6 DEF Take, Workers
    <3>2. holding'[Remover] = holding[Remover]
      BY <2>2, <2>6, <3>1 DEF Workers
    <3>3. PillTail(refreshes', IF Head(refreshes) = DONE THEN r - 1 ELSE r)
      BY <1>5, <2>4, <3>1, PillTailTaken
    <3>4. w \notin Took /\ Took' = IF Head(refreshes) = DONE THEN Took \cup {w} ELSE Took
      BY <2>2, <3>1 DEF Took, Workers
    <3>5. Cardinality(Took') = IF Head(refreshes) = DONE THEN Cardinality(Took) + 1
                               ELSE Cardinality(Took)
      BY <3>4, TookCounts, FS_AddElement
    <3>6. RefreshPills \in Int
      BY <1>5 DEF RefreshPills
    <3>7. r' = (IF Head(refreshes) = DONE THEN r - 1 ELSE r) /\ m' = m
      BY <1>5, <2>3, <3>2, <3>5, <3>6
    <3>8. PillsLie(before)'
      BY <2>1, <2>2, <2>4, <3>1, <3>3, <3>7 DEF PillsLie
    <3> QED BY <3>8
  <2> QED BY <2>5, <2>6
<1>12. ASSUME NEW w \in Workers, HandleRefresh(w) \/ (w = Remover /\ HandleRemove)
       PROVE  \E before \in BOOLEAN : PillsLie(before)'
  <2>1. PICK before \in BOOLEAN : PillsLie(before)
    BY <1>4, <1>12 DEF Work
  <2>2. /\ UNCHANGED <<genPc, stops, pills, refreshes, deletes>>
        /\ holding[w] # DONE /\ holding' = [holding EXCEPT ![w] = Nothing]
    BY <1>12 DEF HandleRefresh, HandleRemove, Handled
  <2>3. /\ Took' = Took /\ (holding'[Remover] = DONE <=> holding[Remover] = DONE)
        /\ RefreshPills' = RefreshPills /\ DeletePills' = DeletePills
    BY <2>2, DifferencesAssumption DEF Took, Workers, TypeInv, TypeOK, RefreshPills,
       DeletePills, Pills
  <2>4. PillsLie(before)'
    BY <2>1, <2>2, <2>3 DEF PillsLie
  <2> QED BY <2>4
<1>13. ASSUME NEW w \in Workers,
              \/ WorkerInterrupted(w) \/ CleanupRequester(w) \/ HandlerFails(w)
              \/ w = Remover /\ CleanupRemover
       PROVE  \E before \in BOOLEAN : PillsLie(before)'
  <2>1. UNCHANGED <<genPc, stops, pills, refreshes, deletes, holding>>
    BY <1>13 DEF WorkerInterrupted, CleanupRequester, CleanupRemover, HandlerFails
  <2> QED BY <1>1, <1>4, <1>13, <2>1 DEF Work
<1>14. CASE Finished \/ UNCHANGED vars
  BY <1>1, <1>14 DEF Finished, vars, PillCount
<1> QED
  BY <1>2, <1>3, <1>6, <1>7, <1>8, <1>9, <1>10, <1>11, <1>12, <1>13, <1>14
  DEF Next, Generate, Work

\* What Generate waits for: room in the queue it puts to, unless it is interrupted.
GeneratorCanMove ==
    \/ /\ genPc = "compare"
       /\ \/ Generator \in interrupted
          \/ found = {}
          \/ found \cap Refreshes # {} /\ Len(refreshes) < QueueSize
          \/ found \cap Removes # {} /\ Len(deletes) < QueueSize
    \/ /\ genPc = "onStop"
       /\ \/ Generator \in interrupted
          \/ pills = 0
          \/ pills = Pills /\ Len(deletes) < QueueSize
          \/ pills < Pills /\ Len(refreshes) < QueueSize

\* What Work(w) waits for: an element of its queue, unless it is interrupted.
WorkerCanMove(w) ==
    \/ workerPc[w] = "handle"
    \/ /\ workerPc[w] = "take"
       /\ w \in interrupted \/ (IF w = Remover THEN deletes ELSE refreshes) # <<>>

\* What Run waits for: the pool, in awaitTermination, unless it is interrupted.
RunCanMove == ~Left /\ (phase = "await" => PoolStopped \/ Scheduler \in interrupted)

\* Some thread can go on, or the run is over and its pool at rest, or a worker died of
\* an exception and nobody has interrupted the pool.
SomebodyMoves ==
    \/ RunCanMove
    \/ GeneratorCanMove
    \/ \E w \in Workers : WorkerCanMove(w)
    \/ Left /\ (PoolIdle \/ PoolStopped)
    \/ Pool \cap interrupted = {} /\ \E d \in Differences : outcome[d] = "lost"

\* With everybody alive, a pool that has begun and not stopped has a thread that can go
\* on: each pill that is waited for is in its queue, and each queue that is full has a
\* reader, the pills of a second onStop included.
LEMMA LivingPoolMoves ==
  ASSUME Cardinality(Requesters) <= QueueSize,
         TypeInv, HoldingInv, PillsInv, PoolInv, PillCount,
         Pool \cap interrupted = {}, \A d \in Differences : outcome[d] # "lost",
         ~PoolIdle, ~PoolStopped, ~GeneratorCanMove,
         \A w \in Workers : ~WorkerCanMove(w)
  PROVE  FALSE
<1>1. PICK before \in BOOLEAN : PillsLie(before)
  BY DEF PillCount
<1>2. /\ refreshes \in Seq(Refreshes \cup {DONE}) /\ deletes \in Seq(Removes \cup {DONE})
      /\ Len(refreshes) \in Nat /\ Len(deletes) \in Nat
      /\ pills \in 0..Pills /\ Pills = Cardinality(Requesters) + 1
      /\ Cardinality(Requesters) \in Nat \ {0} /\ Cardinality(Took) \in Nat
      /\ QueueSize \in Nat \ {0}
      /\ genPc \in {"idle", "compare", "onStop", "stopped"}
  BY TookCounts, QueueSizeAssumption DEF TypeInv, TypeOK, Pills
<1>3. genPc # "idle"
  BY DEF PoolInv, PoolIdle
<1>4. \A w \in Workers :
        \/ workerPc[w] = "stopped" /\ holding[w] = DONE
        \/ /\ workerPc[w] = "take" /\ holding[w] = Nothing
           /\ (IF w = Remover THEN deletes ELSE refreshes) = <<>>
  <2> SUFFICES ASSUME NEW w \in Workers, workerPc[w] # "take"
               PROVE  workerPc[w] = "stopped" /\ holding[w] = DONE
    BY DEF WorkerCanMove, HoldingInv
  <2>1. workerPc[w] = "stopped"
    BY <1>3 DEF WorkerCanMove, PoolInv, TypeInv, TypeOK
  <2>2. holding[w] # Nothing /\ holding[w] \notin Differences
    BY <2>1 DEF HoldingInv, PoolInv, Pool
  <2> QED BY <2>1, <2>2 DEF TypeInv, TypeOK
<1>5. Remover \in Workers /\ Requesters \subseteq Workers /\ Remover \notin Requesters
      /\ DONE # Nothing
  BY ThreadsAssumption, DifferencesAssumption DEF Workers
<1>6. /\ Len(deletes) > 0 => holding[Remover] = DONE
      /\ Len(refreshes) > 0 => Took = Requesters
  BY <1>4, <1>5 DEF Took
<1>7. CASE genPc = "compare"
  <2>1. \A w \in Workers : holding[w] # DONE
    BY <1>7 DEF PillsInv
  <2>2. found # {} /\ found \subseteq Refreshes \cup Removes
    BY <1>7 DEF GeneratorCanMove, TypeInv, TypeOK, Differences
  <2>3. Len(refreshes) > 0 \/ Len(deletes) > 0
    BY <1>2, <1>7, <2>2 DEF GeneratorCanMove
  <2> QED BY <1>5, <1>6, <2>1, <2>3, ThreadsAssumption DEF Took
<1>8. CASE genPc = "onStop" /\ pills = Pills
  <2>1. Len(deletes) > 0 /\ RefreshPills = 0 /\ DeletePills = 0
    BY <1>2, <1>8 DEF GeneratorCanMove, RefreshPills, DeletePills
  <2>2. holding[Remover] = DONE /\ OnlyPills(deletes)
    BY <1>6, <2>1 DEF PillsInv
  <2>3. PillTail(deletes, (IF before THEN 1 ELSE 0) + 0 - 1)
    BY <1>1, <2>1, <2>2 DEF PillsLie
  <2>4. Len(deletes) = (IF before THEN 1 ELSE 0) + 0 - 1
    BY <1>2, <2>2, <2>3, PillTailOnly
  <2> QED BY <2>1, <2>4
<1>9. CASE genPc = "onStop" /\ pills # Pills
  <2>1. /\ pills > 0 /\ Len(refreshes) >= QueueSize
        /\ RefreshPills = Cardinality(Requesters) - pills
    BY <1>2, <1>9 DEF GeneratorCanMove, RefreshPills
  <2>2. Took = Requesters /\ OnlyPills(refreshes)
    BY <1>2, <1>6, <2>1, ThreadsAssumption DEF PillsInv, Took
  <2> DEFINE r == (IF before THEN Cardinality(Requesters) ELSE 0)
                    + RefreshPills - Cardinality(Took)
  <2>3. PillTail(refreshes, r)
    BY <1>1 DEF PillsLie
  <2>4. Len(refreshes) = r
    BY <1>2, <2>2, <2>3, PillTailOnly
  <2>5. r < QueueSize
    BY <1>2, <2>1, <2>2
  <2> QED BY <1>2, <2>1, <2>4, <2>5
<1>10. CASE genPc = "stopped"
  <2>1. RefreshPills = Cardinality(Requesters) /\ DeletePills = 1
    BY <1>10 DEF RefreshPills, DeletePills
  <2>2. PICK w \in Workers : workerPc[w] = "take"
    BY <1>4, <1>10 DEF PoolStopped
  <2>3. CASE w = Remover
    <3>1. deletes = <<>> /\ holding[Remover] # DONE
      BY <1>4, <1>5, <2>2, <2>3
    <3>2. PillTail(deletes, (IF before THEN 1 ELSE 0) + 1 - 0)
      BY <1>1, <2>1, <3>1 DEF PillsLie
    <3> QED BY <3>1, <3>2 DEF PillTail
  <2>4. CASE w # Remover
    <3>1. refreshes = <<>> /\ w \in Requesters /\ w \notin Took
      BY <1>4, <1>5, <2>2, <2>4 DEF Took, Workers
    <3>2. Cardinality(Took) < Cardinality(Requesters)
      BY <3>1, TookCounts
    <3>3. PillTail(refreshes, (IF before THEN Cardinality(Requesters) ELSE 0)
                                + Cardinality(Requesters) - Cardinality(Took))
      BY <1>1, <2>1 DEF PillsLie
    <3> QED BY <1>2, <3>1, <3>2, <3>3 DEF PillTail
  <2> QED BY <2>3, <2>4
<1> QED BY <1>2, <1>3, <1>7, <1>8, <1>9, <1>10

\* A run never waits for ever: as long as it is not over, a thread of it can go on, unless
\* a worker has died of an exception on a difference; and then shutdownNow sets the others
\* free. The second onStop of a run whose comparer throws puts its pills into a queue that
\* nobody reads any more: it needs no more requesters than the queue has places
\* (SynchronizationTask.QUEUE_SIZE, ConsumerContentSet.concurrentTransfers,
\* DifferenceQueuer.onStop, ContentDiffereceTask.run).
THEOREM NeverStuck ==
  ASSUME Cardinality(Requesters) <= QueueSize
  PROVE  Spec => []SomebodyMoves
<1> DEFINE MInv == IInv /\ PoolInv /\ PillCount
<1>1. Init => MInv
  <2> SUFFICES ASSUME Init PROVE MInv
    OBVIOUS
  <2>1. PoolInv
    BY DEF Init, PoolInv
  <2>2. Took = {} /\ holding[Remover] # DONE /\ RefreshPills = 0 /\ DeletePills = 0
    BY DifferencesAssumption DEF Init, Took, Workers, RefreshPills, DeletePills
  <2>3. PillTail(refreshes, 0) /\ PillTail(deletes, 0)
    BY DEF Init, PillTail
  <2>4. PillsLie(FALSE)
    BY <2>2, <2>3, FS_EmptySet DEF PillsLie
  <2> QED BY <2>1, <2>4, InitInv DEF PillCount
<1>2. MInv /\ [Next]_vars => MInv'
  BY StepInv, PoolStep, CountStep DEF IInv
<1>3. MInv => SomebodyMoves
  <2> SUFFICES ASSUME MInv, ~RunCanMove, ~GeneratorCanMove,
                      \A w \in Workers : ~WorkerCanMove(w),
                      ~(Left /\ (PoolIdle \/ PoolStopped)),
                      ~(Pool \cap interrupted = {} /\ \E d \in Differences : outcome[d] = "lost")
               PROVE  FALSE
    BY DEF SomebodyMoves
  <2>1. ~PoolIdle /\ ~PoolStopped
    BY DEF RunCanMove, Left, PoolInv, PoolIdle
  <2>2. CASE Pool \subseteq interrupted
    <3>1. genPc = "stopped"
      BY <2>1, <2>2 DEF GeneratorCanMove, PoolInv, PoolIdle, Pool, IInv, TypeInv, TypeOK
    <3>2. \A w \in Workers : workerPc[w] = "stopped"
      BY <2>2, <3>1 DEF WorkerCanMove, PoolInv, Pool, IInv, TypeInv, TypeOK
    <3> QED BY <2>1, <3>1, <3>2 DEF PoolStopped
  <2>3. CASE Pool \cap interrupted = {}
    BY <2>1, <2>3, LivingPoolMoves DEF IInv
  <2> QED BY <2>2, <2>3 DEF PoolInv
<1> QED BY <1>1, <1>2, <1>3, PTL DEF Spec
=============================================================================
