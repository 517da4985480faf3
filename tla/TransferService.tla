--------------------------- MODULE TransferService ---------------------------
(* TransferServiceImpl over the runs of one content set: the scheduler's thread  *)
(* starts the service, asks for the inventory, lets the run's requesters work    *)
(* and stops the service; every caller of process takes a permit, hands its      *)
(* transfer to a thread of the executor and waits for it. A requester that was   *)
(* interrupted is not waited for, so it may still call a service that has been   *)
(* stopped, or has been started again for the next run.                          *)
EXTENDS Integers, FiniteSets

CONSTANTS
    Requesters,   \* the requester workers of each run
    Runs,         \* how many runs are looked at
    Limit,        \* CONNCURRENT_CONNECTIONS, the permits of saturationLimit
    Scheduler,    \* the thread that drives the runs
    NoSession     \* currSession = null

ASSUME RequestersAssumption == IsFiniteSet(Requesters)
ASSUME RunsAssumption == Runs \in Nat
ASSUME LimitAssumption == Limit \in Nat \ {0}
ASSUME SchedulerAssumption == Scheduler \notin Requesters
ASSUME NoSessionAssumption == NoSession \notin 0..Runs

\* A thread calls process in the run it belongs to; the scheduler's thread, which
\* asks for the inventory, counts as a caller of each run.
Callers == (1..Runs) \X (Requesters \cup {Scheduler})
Workers == (1..Runs) \X Requesters
WorkersOf(n) == {n} \X Requesters
Driver(n) == <<n, Scheduler>>

\* The session of a run is named by its number.
Sessions == (1..Runs) \cup {NoSession}

VARIABLES
    phase,        \* where the scheduler's thread is
    run,          \* the number of the current run
    isRunning, currSession, permits,  \* fields of TransferServiceImpl
    pc,           \* where each caller is in process
    holders,      \* the callers that took a permit and have not given it back
    active,       \* the callers whose transfer a thread of the executor works on
    session,      \* the session of that transfer
    interrupted   \* the callers whose interrupt status is set

serviceVars == <<isRunning, currSession>>
runVars == <<phase, run>>
taskVars == <<active, session>>
vars == <<phase, run, isRunning, currSession, permits, pc, holders, active, session,
          interrupted>>

TypeOK ==
    /\ phase \in {"idle", "retrieve", "run", "stop", "acquired", "stopped",
                  "released"}
    /\ run \in 0..Runs
    /\ isRunning \in BOOLEAN
    /\ currSession \in Sessions
    /\ permits \in Nat
    /\ pc \in [Callers -> {"off", "idle", "acquire", "submit", "await"}]
    /\ holders \subseteq Callers
    /\ active \subseteq Callers
    /\ session \in [Callers -> Sessions]
    /\ interrupted \subseteq Callers

Init ==
    /\ phase = "idle"
    /\ run = 0
    /\ isRunning = FALSE
    /\ currSession = NoSession
    /\ permits = Limit
    /\ pc = [c \in Callers |-> "off"]
    /\ holders = {}
    /\ active = {}
    /\ session = [c \in Callers |-> NoSession]
    /\ interrupted = {}

-----------------------------------------------------------------------------
(* process, called by a requester or by the scheduler's thread                 *)

Goto(c, from, to) == pc[c] = from /\ pc' = [pc EXCEPT ![c] = to]

\* isRunning and currSession are plain fields, written by the scheduler's thread.
\* A caller of the current run sees what start wrote before it handed the worker
\* to the pool. Nothing orders the later writes before the reads of a requester
\* that was interrupted: it may see them, or what was there during its own run.
Cut(c) == c \in interrupted \cap Workers
MaySeeRunning(c) == {isRunning} \cup (IF Cut(c) THEN {TRUE} ELSE {})
MaySeeSession(c) == {currSession} \cup (IF Cut(c) THEN {c[1]} ELSE {})

\* The service is running, or seems to be.
Enter(c) ==
    /\ Goto(c, "idle", "acquire")
    /\ TRUE \in MaySeeRunning(c)
    /\ UNCHANGED <<runVars, serviceVars, permits, holders, taskVars, interrupted>>

\* TransportLifeCycleException: it ends the worker.
EnterStopped(c) ==
    /\ Goto(c, "idle", "off")
    /\ FALSE \in MaySeeRunning(c)
    /\ UNCHANGED <<runVars, serviceVars, permits, holders, taskVars, interrupted>>

\* saturationLimit.acquire.
Acquire(c) ==
    /\ Goto(c, "acquire", "submit")
    /\ c \notin interrupted
    /\ permits > 0
    /\ permits' = permits - 1
    /\ holders' = holders \cup {c}
    /\ UNCHANGED <<runVars, serviceVars, taskVars, interrupted>>

\* Mutant: acquire is tried again, and throws again.
AcquireRetried(c) ==
    /\ Goto(c, "acquire", "acquire")
    /\ c \in interrupted
    /\ UNCHANGED <<runVars, serviceVars, permits, holders, taskVars, interrupted>>

\* acquire throws InterruptedException; process goes on without a permit.
AcquireInterrupted(c) ==
    /\ Goto(c, "acquire", "submit")
    /\ c \in interrupted
    /\ UNCHANGED <<runVars, serviceVars, permits, holders, taskVars, interrupted>>

\* setSession, then a thread of the executor runs TransferTask.call.
Submit(c) ==
    /\ Goto(c, "submit", "await")
    /\ \E s \in MaySeeSession(c) : session' = [session EXCEPT ![c] = s]
    /\ active' = active \cup {c}
    /\ UNCHANGED <<runVars, serviceVars, permits, holders, interrupted>>

\* The thread has done with the transfer.
TaskOver(c) ==
    /\ active' = active \ {c}
    /\ session' = [session EXCEPT ![c] = NoSession]

\* Mutant: a caller that was interrupted does not release.
ReleaseUnlessInterrupted(c) ==
    /\ permits' = IF c \in interrupted THEN permits ELSE permits + 1
    /\ pc' = [pc EXCEPT ![c] = IF c \in Workers \ interrupted THEN "idle" ELSE "off"]

\* saturationLimit.release, whether or not a permit was acquired. A worker that is
\* not interrupted takes its next difference.
Release(c) ==
    /\ permits' = permits + 1
    /\ pc' = [pc EXCEPT ![c] = IF c \in Workers \ interrupted THEN "idle" ELSE "off"]

\* The worker ends in the middle of process.
Die(c) == pc' = [pc EXCEPT ![c] = "off"] /\ UNCHANGED permits

\* Mutant: process returns from the handler of the exception.
GetThrowsAndReturns(c) ==
    /\ pc[c] = "await"
    /\ TaskOver(c) \/ (c \in interrupted /\ UNCHANGED taskVars)
    /\ Die(c)
    /\ holders' = holders \ {c}
    /\ UNCHANGED <<runVars, serviceVars, interrupted>>

\* call returns, and future.get with it. It throws without a session.
GetReturns(c) ==
    /\ pc[c] = "await"
    /\ session[c] # NoSession
    /\ TaskOver(c)
    /\ Release(c)
    /\ holders' = holders \ {c}
    /\ UNCHANGED <<runVars, serviceVars, interrupted>>

\* future.get throws: call has thrown, out of getHttpMethod, or the caller is
\* interrupted, cancels the task and leaves it to end by itself. The message then
\* logged needs the session: without one the log statement throws, release is not
\* reached and the worker ends.
GetThrows(c) ==
    /\ pc[c] = "await"
    /\ TaskOver(c) \/ (c \in interrupted /\ UNCHANGED taskVars)
    /\ \/ MaySeeSession(c) # {NoSession} /\ Release(c)
       \/ NoSession \in MaySeeSession(c) /\ Die(c)
    /\ holders' = holders \ {c}
    /\ UNCHANGED <<runVars, serviceVars, interrupted>>

\* The worker has taken the poison pill or noticed the interrupt.
Leave(c) ==
    /\ c \in Workers
    /\ Goto(c, "idle", "off")
    /\ UNCHANGED <<runVars, serviceVars, permits, holders, taskVars, interrupted>>

Process(c) ==
    \/ Enter(c) \/ EnterStopped(c)
    \/ Acquire(c) \/ AcquireInterrupted(c)
    \/ Submit(c) \/ GetReturns(c) \/ GetThrows(c)
    \/ Leave(c)

\* A cancelled task that nobody waits for ends.
TaskEnds(c) ==
    /\ c \in active
    /\ pc[c] # "await"
    /\ TaskOver(c)
    /\ UNCHANGED <<runVars, serviceVars, permits, pc, holders, interrupted>>

-----------------------------------------------------------------------------
(* start, stop and the run between them, by the scheduler's thread             *)

\* The supplier answers the handshake and the start message. (A service that is
\* running would refuse to start; stop never leaves one.)
Start ==
    /\ phase = "idle"
    /\ run < Runs
    /\ ~isRunning
    /\ run' = run + 1
    /\ currSession' = run + 1
    /\ isRunning' = TRUE
    /\ phase' = "retrieve"
    /\ pc' = [pc EXCEPT ![Driver(run + 1)] = "idle"]
    /\ UNCHANGED <<permits, holders, taskVars, interrupted>>

\* It does not; sendStart may fail after the session was set. The run is over, and
\* stop finds a service that is not running.
StartFails ==
    /\ phase = "idle"
    /\ run < Runs
    /\ ~isRunning
    /\ run' = run + 1
    /\ currSession' \in {currSession, run + 1}
    /\ UNCHANGED <<phase, isRunning, permits, pc, holders, taskVars, interrupted>>

\* The inventory is there: the run's workers start.
StartWorkers ==
    /\ phase = "retrieve"
    /\ pc[Driver(run)] = "off"
    /\ phase' = "run"
    /\ pc' = [c \in Callers |-> IF c \in WorkersOf(run) THEN "idle" ELSE pc[c]]
    /\ UNCHANGED <<run, serviceVars, permits, holders, taskVars, interrupted>>

\* It is not, or the metrics cannot be sent.
GiveUp ==
    /\ phase = "retrieve"
    /\ pc[Driver(run)] = "off"
    /\ phase' = "stop"
    /\ UNCHANGED <<run, serviceVars, permits, pc, holders, taskVars, interrupted>>

\* Mutant: the pool is shut down and not waited for.
RunEndsAtOnce ==
    /\ phase = "run"
    /\ phase' = "stop"
    /\ UNCHANGED <<run, serviceVars, permits, pc, holders, taskVars, interrupted>>

\* awaitTermination returns.
RunEnds ==
    /\ phase = "run"
    /\ \A c \in WorkersOf(run) : pc[c] = "off"
    /\ phase' = "stop"
    /\ UNCHANGED <<run, serviceVars, permits, pc, holders, taskVars, interrupted>>

\* The content set is disabled, saved or removed, or the schedule's window closes.
Cancel ==
    /\ phase \in {"retrieve", "run"}
    /\ Driver(run) \notin interrupted
    /\ interrupted' = interrupted \cup {Driver(run)}
    /\ UNCHANGED <<runVars, serviceVars, permits, pc, holders, taskVars>>

\* awaitTermination throws: the workers are interrupted and not waited for.
RunInterrupted ==
    /\ phase = "run"
    /\ Driver(run) \in interrupted
    /\ phase' = "stop"
    /\ interrupted' = interrupted \cup WorkersOf(run)
    /\ UNCHANGED <<run, serviceVars, permits, pc, holders, taskVars>>

\* Mutant: the permits are taken whether or not they are there.
StopAcquiresAtOnce ==
    /\ phase = "stop"
    /\ permits' = permits - Limit
    /\ phase' = "acquired"
    /\ UNCHANGED <<run, serviceVars, pc, holders, taskVars, interrupted>>

\* stop: acquireUninterruptibly, isRunning and sendStop, release, currSession.
StopAcquires ==
    /\ phase = "stop"
    /\ permits >= Limit
    /\ permits' = permits - Limit
    /\ phase' = "acquired"
    /\ UNCHANGED <<run, serviceVars, pc, holders, taskVars, interrupted>>

SendStop ==
    /\ phase = "acquired"
    /\ isRunning' = FALSE
    /\ phase' = "stopped"
    /\ UNCHANGED <<run, currSession, permits, pc, holders, taskVars, interrupted>>

StopReleases ==
    /\ phase = "stopped"
    /\ permits' = permits + Limit
    /\ phase' = "released"
    /\ UNCHANGED <<run, serviceVars, pc, holders, taskVars, interrupted>>

ForgetSession ==
    /\ phase = "released"
    /\ currSession' = NoSession
    /\ phase' = "idle"
    /\ UNCHANGED <<run, isRunning, permits, pc, holders, taskVars, interrupted>>

Schedule ==
    \/ Start \/ StartFails \/ StartWorkers \/ GiveUp \/ RunEnds \/ RunInterrupted
    \/ StopAcquires \/ SendStop \/ StopReleases \/ ForgetSession

\* The last run is over and nobody is left in the service.
Finished ==
    /\ phase = "idle" /\ run = Runs
    /\ \A c \in Callers : pc[c] = "off"
    /\ active = {}
    /\ UNCHANGED vars

Next ==
    \/ Schedule
    \/ Cancel
    \/ \E c \in Callers : Process(c) \/ TaskEnds(c)
    \/ Finished

\* Threads keep running while they can. A requester need not stop asking for
\* content by itself; one that was interrupted ends after the difference in hand.
Fairness ==
    /\ WF_vars(Schedule)
    /\ \A c \in Callers : WF_vars(Process(c) \/ TaskEnds(c))

Spec == Init /\ [][Next]_vars /\ Fairness
=============================================================================
