------------------------------- MODULE Monitoring -------------------------------
(* What an operator watches: the dashboard, or the status panel of the content set  *)
(* whose synchronization is Watched, which tells whether it is active. Both ask the *)
(* transfer monitor, in loops of their own, and have nothing else in common, so     *)
(* that a behaviour has one of them open.                                           *)
EXTENDS Dashboard

CONSTANTS Watched, Unknown, Sent, MaxChanges
VARIABLES view, changes, tab, pending, panelTimers, timeout, rendered, leaps, broken

ASSUME MonitoringAssumption == Watched \in Syncs /\ MaxChanges \in Nat

Panel == INSTANCE StatusPanel WITH
    Statuses <- BOOLEAN, latest <- monitor[Watched] = "active", timers <- panelTimers

panelVars == <<changes, tab, pending, panelTimers, timeout, rendered, leaps, broken>>
vars == <<view, dashboardVars, clicks, panelVars>>

TypeOK == view \in {"dashboard", "panel"} /\ DashboardTypeOK /\ Panel!PanelTypeOK

Init == view \in {"dashboard", "panel"} /\ DashboardInit /\ Panel!PanelInit

MonitorSteps == MonitorNext /\ UNCHANGED <<view, panelVars>>
DashboardSteps == view = "dashboard" /\ DashboardNext /\ UNCHANGED <<view, panelVars>>
PanelSteps == view = "panel" /\ UNCHANGED <<view, clicks, dashboardVars>> /\ Panel!PanelNext

Next == MonitorSteps \/ DashboardSteps \/ PanelSteps

\* The server serves, the browser hears of it, and timers fire.
OnDashboard(A) == view = "dashboard" /\ A /\ UNCHANGED <<view, panelVars>>
OnPanel(A) == view = "panel" /\ UNCHANGED <<view, clicks, dashboardVars>> /\ A

Fairness ==
    /\ WF_vars(OnDashboard(ServeRequest))
    /\ WF_vars(OnDashboard(Populate))
    /\ WF_vars(OnDashboard(RefreshFires))
    /\ WF_vars(OnPanel(Panel!ServeStatus))
    /\ WF_vars(OnPanel(Panel!RenderStatus))
    /\ WF_vars(OnPanel(Panel!TimerFires))

Spec == Init /\ [][Next]_vars /\ Fairness
=============================================================================
