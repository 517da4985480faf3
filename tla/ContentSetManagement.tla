------------------------- MODULE ContentSetManagement -------------------------
(* One content set under management: requests arrive at the REST resources, go   *)
(* through ContentServiceImpl to its row in the database and through the         *)
(* ContentSetManager to the scheduler that runs its task. Nothing keeps two      *)
(* requests apart: each is a thread of the server, the row carries no version,   *)
(* the map of the manager no lock. An access to the map is taken to be atomic,   *)
(* a transaction to read what has been committed.                                *)
EXTENDS FiniteSets, Naturals

CONSTANTS
    Requests,     \* the requests, numbered as they arrive, each handled by a thread
    Boot,         \* the scheduler that initialize registers
    None,         \* no scheduler
    MaxAtOnce,    \* how many requests are in progress at once
    MaxRestarts   \* how often the process restarts

ASSUME RequestsAssumption == IsFiniteSet(Requests) /\ Requests \subseteq Nat
ASSUME BootAssumption == Boot \notin Requests
ASSUME NoneAssumption == None \notin Requests \cup {Boot}
ASSUME BoundsAssumption == MaxAtOnce \in Nat /\ MaxRestarts \in Nat

\* A scheduler is named for the request that made it.
Schedulers == Requests \cup {Boot}
Operations == {"create", "save", "enable", "disable", "remove"}

VARIABLES
    row,          \* the row of the content set: not there yet, its enabled, gone
    registered,   \* the scheduler in contentSetMap
    scheduled,    \* the schedulers whose taskFuture is set
    running,      \* the schedulers whose task is running
    interrupted,  \* those of them whose thread cancel(true) interrupted
    dropped,      \* the schedulers whose executor gave the task up
    pc, op, to,   \* each request: where it is, what it asks, the enabled it writes
    target,       \* the scheduler that unregisterContentSet is stopping
    apart,        \* no two requests have been in progress at once since the start
    failed,       \* the last request that got as far as the map failed after that
    restarts      \* how often the process has restarted

scheduleVars == <<registered, scheduled, running, interrupted, dropped>>
requestVars == <<pc, op, to, target>>
vars == <<row, registered, scheduled, running, interrupted, dropped, pc, op, to,
          target, apart, failed, restarts>>

Exists == row \in {"on", "off"}
Handled(r) == pc[r] \notin {"new", "done"}
InProgress == {r \in Requests : Handled(r)}
Idle == InProgress = {}

TypeOK ==
    /\ row \in {"fresh", "on", "off", "gone"}
    /\ registered \in Schedulers \cup {None}
    /\ scheduled \subseteq Schedulers
    /\ running \subseteq Schedulers
    /\ interrupted \subseteq running
    /\ dropped \subseteq scheduled
    /\ pc \in [Requests -> {"new", "called", "lookup", "get", "stop", "drop", "put",
                            "start", "commit", "done"}]
    /\ op \in [Requests -> Operations]
    /\ to \in [Requests -> {"on", "off"}]
    /\ target \in [Requests -> Schedulers \cup {None}]
    /\ apart \in BOOLEAN
    /\ failed \in BOOLEAN
    /\ restarts \in 0..MaxRestarts

\* initialize registers the row it finds, and starts it if it is enabled.
Registered == IF Exists THEN Boot ELSE None
Started == IF row = "on" THEN {Boot} ELSE {}

Init ==
    /\ row \in {"fresh", "on", "off"}
    /\ registered = Registered
    /\ scheduled = Started
    /\ running = {} /\ interrupted = {} /\ dropped = {}
    /\ pc = [r \in Requests |-> "new"]
    /\ op = [r \in Requests |-> "save"]
    /\ to = [r \in Requests |-> "off"]
    /\ target = [r \in Requests |-> None]
    /\ apart = TRUE
    /\ failed = FALSE
    /\ restarts = 0

\* A request that is done leaves nothing behind.
Goto(r, from, next) ==
    /\ pc[r] = from
    /\ pc' = [pc EXCEPT ![r] = next]
    /\ op' = IF next = "done" THEN [op EXCEPT ![r] = "save"] ELSE op
    /\ to' = IF next = "done" THEN [to EXCEPT ![r] = "off"] ELSE to

-----------------------------------------------------------------------------
(* The resources: the entity is looked up before the service is called          *)

\* Which thread handles which request makes no difference.
IsNext(r) == pc[r] = "new" /\ \A q \in Requests : q < r => pc[q] # "new"

\* The enabled of an object that is saved is whatever the client last saw, or set. A
\* request that finds no row is answered with 404. Bound: MaxAtOnce are in progress.
Arrive(r) ==
    /\ IsNext(r)
    /\ Cardinality(InProgress) < MaxAtOnce
    /\ \E o \in Operations, e \in {"on", "off"} :
        /\ o = "enable" => e = "on"
        /\ o \in {"disable", "remove"} => e = "off"
        /\ IF o = "create"
           THEN row = "fresh" /\ \A q \in Requests : op[q] # "create"
           ELSE Exists
        /\ op' = [op EXCEPT ![r] = o]
        /\ to' = [to EXCEPT ![r] = e]
    /\ pc' = [pc EXCEPT ![r] = "called"]
    /\ apart' = (apart /\ Idle)
    /\ UNCHANGED <<row, scheduleVars, target, failed, restarts>>

NotFound(r) ==
    /\ ~Exists /\ IsNext(r)
    /\ Goto(r, "new", "done")
    /\ UNCHANGED <<row, scheduleVars, target, apart, failed, restarts>>

-----------------------------------------------------------------------------
(* ContentServiceImpl up to the manager                                         *)

\* save: an object that does not validate is refused; makePersistent touches the
\* row when the transaction is flushed.
Save(r) ==
    /\ op[r] \in {"create", "save"}
    /\ Goto(r, "called", "lookup") \/ Goto(r, "called", "done")

\* enable and disable do something only if the row they read differs, and fail if
\* there is none any more.
Switch(r) ==
    /\ op[r] \in {"enable", "disable"}
    /\ Goto(r, "called", IF Exists /\ row # to[r] THEN "lookup" ELSE "done")

\* Mutant: only the row is removed.
RemoveOnlyRow(r) ==
    /\ op[r] = "remove"
    /\ Goto(r, "called", IF Exists THEN "commit" ELSE "done")

\* remove fails if the row is gone.
Remove(r) ==
    /\ op[r] = "remove"
    /\ Goto(r, "called", IF Exists THEN "lookup" ELSE "done")

Call(r) ==
    /\ Save(r) \/ Switch(r) \/ Remove(r)
    /\ UNCHANGED <<row, scheduleVars, target, apart, failed, restarts>>

-----------------------------------------------------------------------------
(* ContentSetManager: unregisterContentSet, then the rest of registerContentSet *)

AfterUnregister(r) == IF op[r] = "remove" THEN "commit" ELSE "put"

\* containsKey
Lookup(r) ==
    /\ Goto(r, "lookup", IF registered = None THEN AfterUnregister(r) ELSE "get")
    /\ UNCHANGED <<row, scheduleVars, target, apart, failed, restarts>>

\* getScheduler throws if another request has removed the scheduler meanwhile; the
\* transaction is rolled back.
GetScheduler(r) ==
    /\ Goto(r, "get", IF registered = None THEN "done" ELSE "stop")
    /\ target' = [target EXCEPT ![r] = registered]
    /\ UNCHANGED <<row, scheduleVars, apart, failed, restarts>>

\* Mutant: the task is interrupted, the future goes on.
StopTaskOnly(r) ==
    /\ Goto(r, "stop", "drop")
    /\ interrupted' = interrupted \cup (running \cap {target[r]})
    /\ target' = [target EXCEPT ![r] = None]
    /\ UNCHANGED <<row, registered, scheduled, dropped, running, apart, failed,
                   restarts>>

\* SimpleScheduler.stop cancels the future and interrupts the task.
Stop(r) ==
    /\ Goto(r, "stop", "drop")
    /\ scheduled' = scheduled \ {target[r]}
    /\ dropped' = dropped \ {target[r]}
    /\ interrupted' = interrupted \cup (running \cap {target[r]})
    /\ target' = [target EXCEPT ![r] = None]
    /\ UNCHANGED <<row, registered, running, apart, failed, restarts>>

RemoveFromMap(r) ==
    /\ Goto(r, "drop", AfterUnregister(r))
    /\ registered' = None
    /\ UNCHANGED <<row, scheduled, running, interrupted, dropped, target, apart,
                   failed, restarts>>

\* Mutant: a content set that is saved is started, enabled or not.
PutToStart(r) ==
    /\ Goto(r, "put", "start")
    /\ registered' = r
    /\ UNCHANGED <<row, scheduled, running, interrupted, dropped, target, apart,
                   failed, restarts>>

\* Mutant: a content set that is saved waits for the next restart to be started.
PutOnly(r) ==
    /\ Goto(r, "put", "commit")
    /\ registered' = r
    /\ UNCHANGED <<row, scheduled, running, interrupted, dropped, target, apart,
                   failed, restarts>>

\* addSchedulerAndConfig makes a scheduler with a pool of its own.
Put(r) ==
    /\ Goto(r, "put", IF to[r] = "on" THEN "start" ELSE "commit")
    /\ registered' = r
    /\ UNCHANGED <<row, scheduled, running, interrupted, dropped, target, apart,
                   failed, restarts>>

\* startContentSet looks the scheduler up again, and starts the one it finds unless
\* that has a future already.
Start(r) ==
    /\ Goto(r, "start", IF registered = None THEN "done" ELSE "commit")
    /\ scheduled' = scheduled \cup ({registered} \ {None})
    /\ UNCHANGED <<row, registered, running, interrupted, dropped, target, apart,
                   failed, restarts>>

\* The transaction ends; the row that is updated or deleted must still be there.
Commit(r) ==
    /\ op[r] = "create" \/ Exists
    /\ Goto(r, "commit", "done")
    /\ row' = IF op[r] = "remove" THEN "gone" ELSE to[r]
    /\ failed' = FALSE
    /\ UNCHANGED <<scheduleVars, target, apart, restarts>>

\* Everything but the scheduler is rolled back: a scheduler cannot be made or started,
\* or the database has refused the object, which makePersistent only logs, or refuses it
\* now. What is created again is another content set.
Fails(r) ==
    /\ \E from \in {"put", "start", "commit"} : Goto(r, from, "done")
    /\ row' = IF op[r] = "create" THEN "gone" ELSE row
    /\ failed' = TRUE
    /\ UNCHANGED <<scheduleVars, target, apart, restarts>>

Step(r) ==
    \/ Call(r) \/ Lookup(r) \/ GetScheduler(r) \/ Stop(r) \/ RemoveFromMap(r)
    \/ Put(r) \/ Start(r) \/ Commit(r) \/ Fails(r)

-----------------------------------------------------------------------------
(* The executors of the schedulers, of one thread each                          *)

RunStarts(s) ==
    /\ s \in scheduled \ (running \cup dropped)
    /\ running' = running \cup {s}
    /\ UNCHANGED <<row, registered, scheduled, interrupted, dropped, requestVars,
                   apart, failed, restarts>>

\* Mutant: the interrupt outlives the run.
RunEndsInterrupted(s) ==
    /\ s \in running
    /\ running' = running \ {s}
    /\ UNCHANGED <<row, registered, scheduled, interrupted, dropped, requestVars,
                   apart, failed, restarts>>

RunEnds(s) ==
    /\ s \in running
    /\ running' = running \ {s}
    /\ interrupted' = interrupted \ {s}
    /\ UNCHANGED <<row, registered, scheduled, dropped, requestVars, apart, failed,
                   restarts>>

\* A task that throws is not run again, and taskFuture stays set. The exception of
\* a cancelled run ends a future that nothing waits for.
RunThrows(s) ==
    /\ s \in running
    /\ running' = running \ {s}
    /\ interrupted' = interrupted \ {s}
    /\ dropped' = IF s \in scheduled \ interrupted THEN dropped \cup {s} ELSE dropped
    /\ UNCHANGED <<row, registered, scheduled, requestVars, apart, failed, restarts>>

\* The process ends at any point, with the requests in progress, and comes back.
Restart ==
    /\ restarts < MaxRestarts
    /\ restarts' = restarts + 1
    /\ registered' = Registered
    /\ scheduled' = Started
    /\ running' = {} /\ interrupted' = {} /\ dropped' = {}
    /\ pc' = [r \in Requests |-> IF Handled(r) THEN "done" ELSE pc[r]]
    /\ op' = [r \in Requests |-> "save"]
    /\ to' = [r \in Requests |-> "off"]
    /\ target' = [r \in Requests |-> None]
    /\ apart' = TRUE
    /\ failed' = FALSE
    /\ UNCHANGED row

Next ==
    \/ \E r \in Requests : Arrive(r) \/ NotFound(r) \/ Step(r)
    \/ \E s \in Schedulers : RunStarts(s) \/ RunEnds(s) \/ RunThrows(s)
    \/ Restart

\* A thread that handles a request goes on, an executor runs what it has scheduled,
\* and a run that was interrupted comes to its end; one that was not may hang.
Fairness ==
    /\ \A r \in Requests : WF_vars(Step(r))
    /\ \A s \in Schedulers : WF_vars(RunStarts(s)) /\ WF_vars(s \in interrupted /\ RunEnds(s))

Spec == Init /\ [][Next]_vars /\ Fairness
=============================================================================
