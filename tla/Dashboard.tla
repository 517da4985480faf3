------------------------------- MODULE Dashboard -------------------------------
(* The dashboard of the console and the transfer monitor it asks. The monitor     *)
(* knows the synchronizations that are active, and those that ended in the last   *)
(* three minutes; the dashboard asks again and again, shows the active ones, and  *)
(* keeps those that have ended until they are too old or too many.                *)
EXTENDS Naturals, FiniteSets, SequencesExt

CONSTANTS
    Syncs,          \* synchronizations
    MaximumEntries, \* maximumRecentEntries
    MaxClicks       \* how often the user does something

ASSUME DashboardAssumption == MaximumEntries \in Nat \ {0} /\ MaxClicks \in Nat

VARIABLES
    monitor,        \* TransferMonitor: each synchronization, and whether it is active
    requests,       \* the dashboard's calls in flight, with what their answers bring
    timers,         \* armed timers that the dashboard has lost track of
    refreshTimeout, \* whether the timer of its field is armed
    active,         \* the rows of the active grid
    recent,         \* the records of the recent store: how many of each synchronization
    old,            \* synchronizations whose record is older than the preference allows
    shown,          \* the rows of the recent grid, which is the store filtered by age
    meta,           \* the synchronizations the dashboard has accounted for
    clicks,         \* what the user has done so far
    presses,        \* how often Refresh was pressed with a call out
    failed          \* a call has failed

dashboardVars == <<monitor, requests, timers, refreshTimeout, active, recent, old, shown,
                   meta, presses, failed>>
gridVars == <<active, recent, old, shown, meta>>

Phases == {"unknown", "active", "complete", "expired"}
Answers == [served : BOOLEAN, active : SUBSET Syncs, complete : SUBSET Syncs]

DashboardTypeOK ==
    /\ monitor \in [Syncs -> Phases]
    /\ requests \in Seq(Answers)
    /\ timers \in Nat
    /\ refreshTimeout \in BOOLEAN
    /\ active \subseteq Syncs
    /\ recent \in [Syncs -> Nat]
    /\ old \subseteq Syncs
    /\ shown \subseteq Syncs
    /\ meta \in Seq(Syncs)
    /\ clicks \in 0..MaxClicks
    /\ presses \in 0..MaxClicks
    /\ failed \in BOOLEAN

In(phase) == {s \in Syncs : monitor[s] = phase}
Unserved == [served |-> FALSE, active |-> {}, complete |-> {}]

DashboardInit ==
    /\ monitor = [s \in Syncs |-> "unknown"]
    /\ requests = <<Unserved>>
    /\ timers = 0 /\ refreshTimeout = FALSE
    /\ active = {} /\ old = {} /\ shown = {}
    /\ recent = [s \in Syncs |-> 0]
    /\ meta = <<>>
    /\ clicks = 0 /\ presses = 0
    /\ failed = FALSE

-----------------------------------------------------------------------------
(* The transfer monitor                                                         *)

MonitorStep(s, from, to) ==
    /\ monitor[s] = from
    /\ monitor' = [monitor EXCEPT ![s] = to]
    /\ UNCHANGED <<requests, timers, refreshTimeout, gridVars, clicks, presses,
                   failed>>

Start(s) == MonitorStep(s, "unknown", "active")
\* A synchronization whose consumer never says that it has ended stays active.
Complete(s) == MonitorStep(s, "active", "complete")
\* Its time to live, three minutes, is over.
Expire(s) == MonitorStep(s, "complete", "expired")

GetCurrentSynchronizations(i) ==
    /\ ~requests[i].served
    /\ requests' = [requests EXCEPT ![i] = [served |-> TRUE, active |-> In("active"),
                                            complete |-> In("complete")]]
    /\ UNCHANGED <<monitor, timers, refreshTimeout, gridVars, clicks, presses, failed>>

-----------------------------------------------------------------------------
(* The dashboard                                                                *)

\* handleSyncResponse goes through the answer in its order. What is accounted for gets
\* the time of now and keeps its place; what is new is sorted in by time, behind the
\* others that have the time of now: those it has gone through.
Accounted(order) ==
    LET after[j \in 0..Len(order)] ==
            IF j = 0 THEN meta
            ELSE IF Contains(after[j - 1], order[j]) THEN after[j - 1]
            ELSE InsertAt(after[j - 1], j, order[j])
    IN after[Len(order)]

Shown(records, tooOld) == {s \in Syncs : records[s] > 0} \ tooOld

\* Mutant: what is dropped stays in the store.
PruneMeta(entries, records, tooOld) ==
    [meta |-> IF Cardinality(Shown(records, tooOld)) > MaximumEntries
              THEN SubSeq(entries, 1, MaximumEntries) ELSE entries,
     recent |-> records]

\* pruneRecentGrids: when more than MaximumEntries records are shown, the entries behind
\* the first are dropped, and with each the record of the store, if it has exactly one.
\* What is not shown does not count.
Prune(entries, records, tooOld) ==
    LET kept == SubSeq(entries, 1, MaximumEntries)
        dropped == ToSet(SubSeq(entries, MaximumEntries + 1, Len(entries)))
    IN  IF Cardinality(Shown(records, tooOld)) > MaximumEntries
        THEN [meta |-> kept,
              recent |-> [s \in Syncs |-> IF s \in dropped /\ records[s] = 1 THEN 0
                                          ELSE records[s]]]
        ELSE [meta |-> entries, recent |-> records]

\* The records of an answer: the new ones are added to the store.
UpdateGrids(answer) ==
    LET new == answer.complete \ ToSet(meta)
        added == [s \in Syncs |-> IF s \in new THEN recent[s] + 1 ELSE recent[s]]
    IN  /\ old' = old \ new
        /\ \E order \in SetToSeqs(answer.complete) :
            LET pruned == Prune(Accounted(order), added, old \ new) IN
            /\ meta' = pruned.meta
            /\ recent' = pruned.recent
            /\ shown' = Shown(pruned.recent, old \ new)

\* loadData puts the rows in the place of those of the grid.
LoadData(rows) == active' = rows

\* Mutant: the next call is only made while something is active.
ArmWhileActive(rows) ==
    /\ timers' = IF refreshTimeout /\ rows # {} THEN timers + 1 ELSE timers
    /\ refreshTimeout' = (refreshTimeout \/ rows # {})

\* At the end a timer is armed, and the one before forgotten.
Arm(rows) ==
    /\ timers' = IF refreshTimeout THEN timers + 1 ELSE timers
    /\ refreshTimeout' = TRUE

\* populateDashboard, in the callback of a call
PopulateDashboard(i) ==
    /\ requests[i].served
    /\ requests' = RemoveAt(requests, i)
    /\ UpdateGrids(requests[i])
    /\ LoadData(requests[i].active)
    /\ Arm(requests[i].active)
    /\ UNCHANGED <<monitor, clicks, presses, failed>>

\* The dashboard's own error handler clears the timer, be it another call's.
RequestFails(i) ==
    /\ requests' = RemoveAt(requests, i)
    /\ refreshTimeout' = FALSE
    /\ failed' = TRUE
    /\ UNCHANGED <<monitor, timers, gridVars, clicks, presses>>

RefreshDashboard == requests' = Append(requests, Unserved)

\* Mutant: a timer that was cleared fires.
RefreshFiresAgain ==
    /\ \/ timers' = timers - 1 /\ UNCHANGED refreshTimeout
       \/ refreshTimeout /\ refreshTimeout' = FALSE /\ UNCHANGED timers
    /\ RefreshDashboard
    /\ UNCHANGED <<monitor, gridVars, clicks, presses, failed>>

\* Timers need not fire in their order: the preference may have changed between them.
RefreshFires ==
    /\ \/ timers > 0 /\ timers' = timers - 1 /\ UNCHANGED refreshTimeout
       \/ refreshTimeout /\ refreshTimeout' = FALSE /\ UNCHANGED timers
    /\ RefreshDashboard
    /\ UNCHANGED <<monitor, gridVars, clicks, presses, failed>>

\* Mutant: the timer is left armed.
PressWithoutClear ==
    /\ clicks < MaxClicks /\ clicks' = clicks + 1
    /\ presses' = IF requests = <<>> THEN presses ELSE presses + 1
    /\ RefreshDashboard
    /\ UNCHANGED <<monitor, timers, refreshTimeout, gridVars, failed>>

\* "Refresh the dashboard now" clears the timer, but cannot take back a call.
PressRefresh ==
    /\ clicks < MaxClicks /\ clicks' = clicks + 1
    /\ presses' = IF requests = <<>> THEN presses ELSE presses + 1
    /\ refreshTimeout' = FALSE
    /\ RefreshDashboard
    /\ UNCHANGED <<monitor, timers, gridVars, failed>>

\* "Remove old entries now" filters the recent grid, and does not prune it.
RemoveOldEntries ==
    /\ clicks < MaxClicks /\ clicks' = clicks + 1
    /\ shown' = Shown(recent, old)
    /\ UNCHANGED <<monitor, requests, timers, refreshTimeout, active, recent, old, meta,
                   presses, failed>>

\* Time passes for a record of the store.
GrowOld(s) ==
    /\ recent[s] > 0 /\ s \notin old
    /\ old' = old \cup {s}
    /\ UNCHANGED <<monitor, requests, timers, refreshTimeout, active, recent, shown, meta,
                   clicks, presses, failed>>

\* The preference is changed, so that records may be older; it is used at the next filter.
LengthenAgeOut ==
    /\ clicks < MaxClicks /\ clicks' = clicks + 1
    /\ old' = {}
    /\ UNCHANGED <<monitor, requests, timers, refreshTimeout, active, recent, shown, meta,
                   presses, failed>>

-----------------------------------------------------------------------------
ServeRequest == \E i \in DOMAIN requests : GetCurrentSynchronizations(i)
Populate == \E i \in DOMAIN requests : PopulateDashboard(i)

MonitorNext == \E s \in Syncs : Start(s) \/ Complete(s) \/ Expire(s)

DashboardNext ==
    \/ \E s \in Syncs : GrowOld(s)
    \/ ServeRequest \/ Populate \/ RefreshFires
    \/ \E i \in DOMAIN requests : RequestFails(i)
    \/ PressRefresh \/ RemoveOldEntries \/ LengthenAgeOut
=============================================================================
