-------------------------- MODULE MonitoringProperties --------------------------
(* The properties of the dashboard and the status panel.                           *)
EXTENDS Monitoring

DashboardLoops == Len(requests) + timers + (IF refreshTimeout THEN 1 ELSE 0)
PanelLoops == Len(pending) + panelTimers + (IF timeout THEN 1 ELSE 0)

\* The store and what the dashboard has accounted for tell the same: however answers and
\* prunings fall, a synchronization is in both once or in neither; and it is not shown as
\* active after it has been recorded, unless Refresh was pressed while a call was out, so
\* that answers may overtake one another (Dashboard.handleSyncResponse,
\* pruneRecentGrids).
EachOnce ==
    /\ \A i, j \in DOMAIN meta : meta[i] = meta[j] => i = j
    /\ \A s \in Syncs : recent[s] = IF Contains(meta, s) THEN 1 ELSE 0
    /\ presses = 0 => \A s \in active : recent[s] = 0

\* Each press of Refresh during a call adds a loop to the dashboard for good, and each
\* time its tab is left with a call out one to the panel, which otherwise asks in one loop
\* while it is shown and in none when it is not; nothing else adds any
\* (Dashboard.refreshDashboard, populateDashboard, BaseStatusPanel.tabChanged, doRender).
OnlyDetoursAddLoops ==
    /\ DashboardLoops <= 1 + presses
    /\ PanelLoops <= (IF tab = "shown" THEN 1 ELSE 0) + leaps

\* In the end the synchronizations shown as active are those that are, unless a call
\* failed: the dashboard goes on asking (Dashboard.populateDashboard).
ActiveSettles == <>[](view = "panel" \/ failed \/ active = In("active"))

\* As long as the panel is shown it catches up with the server again and again, unless a
\* call failed (BaseStatusPanel.tabChanged, doRender).
PanelSettles ==
    []<>(\/ view = "dashboard" \/ tab # "shown" \/ broken
         \/ rendered = (monitor[Watched] = "active"))
=============================================================================
