------------------------------ MODULE StatusPanel ------------------------------
(* A status panel of the console: while its tab is shown it asks the server for   *)
(* the status of its content set, renders the answer and asks again three seconds *)
(* later. A call that is out when the tab is left is answered all the same, and   *)
(* goes on asking.                                                                *)
EXTENDS Naturals, SequencesExt

CONSTANTS
    Statuses,    \* what the server may say of the content set
    Unknown,     \* nothing has been rendered
    Sent,        \* a call the server has not served
    MaxChanges   \* how often the user changes tabs

VARIABLES
    latest,      \* the status at the server
    changes,     \* how often tabs have been changed
    tab,         \* the panel's tab: shown, left for another one, or closed
    pending,     \* its calls in flight: Sent, or the status the answer brings
    timers,      \* armed timers that the panel has lost track of
    timeout,     \* whether the timer of its field is armed
    rendered,    \* the status on the screen
    leaps,       \* how often the tab was left or closed with a call out
    broken       \* a call has failed

panelVars == <<changes, tab, pending, timers, timeout, rendered, leaps, broken>>

PanelTypeOK ==
    /\ tab \in {"shown", "left", "closed"}
    /\ pending \in Seq(Statuses \cup {Sent})
    /\ timers \in Nat
    /\ timeout \in BOOLEAN
    /\ rendered \in Statuses \cup {Unknown}
    /\ changes \in 0..MaxChanges
    /\ leaps \in 0..MaxChanges
    /\ broken \in BOOLEAN

\* The panel has been added to the tabs and shown, which fired tabchange.
PanelInit ==
    /\ changes = 0
    /\ tab = "shown"
    /\ pending = <<Sent>>
    /\ timers = 0 /\ timeout = FALSE
    /\ rendered = Unknown
    /\ leaps = 0
    /\ broken = FALSE

ChangeTab ==
    /\ changes < MaxChanges
    /\ changes' = changes + 1
    /\ UNCHANGED <<latest, timers, rendered, broken>>

DoLoad == pending' = Append(pending, Sent)

\* A call that is out cannot be taken back.
Leap == leaps' = IF pending = <<>> THEN leaps ELSE leaps + 1

\* Another tab is shown.
Leave ==
    /\ ChangeTab
    /\ tab = "shown" /\ tab' = "left"
    /\ timeout' = FALSE
    /\ Leap
    /\ UNCHANGED pending

\* Mutant: the panel waits for its timer.
ReturnQuietly ==
    /\ ChangeTab
    /\ tab = "left" /\ tab' = "shown"
    /\ UNCHANGED <<pending, timeout, leaps>>

\* The tab is shown again: it is loaded at once, whatever is still out.
Return ==
    /\ ChangeTab
    /\ tab = "left" /\ tab' = "shown"
    /\ DoLoad
    /\ UNCHANGED <<timeout, leaps>>

\* One other tab follows another: a panel hears of it even when it has been destroyed.
TabChanged ==
    /\ ChangeTab
    /\ tab \in {"left", "closed"}
    /\ timeout' = FALSE
    /\ UNCHANGED <<tab, pending, leaps>>

\* The tab is closed, or its content set deleted.
Close ==
    /\ ChangeTab
    /\ tab \in {"shown", "left"} /\ tab' = "closed"
    /\ timeout' = FALSE
    /\ leaps' = IF pending = <<>> \/ tab = "left" THEN leaps ELSE leaps + 1
    /\ UNCHANGED pending

GetStatus(i) ==
    /\ pending[i] = Sent
    /\ pending' = [pending EXCEPT ![i] = latest]
    /\ UNCHANGED <<latest, changes, tab, timers, timeout, rendered, leaps, broken>>

\* doRender arms a timer and forgets the one before, whether or not the tab is shown.
DoRender(i) ==
    /\ pending[i] # Sent
    /\ pending' = RemoveAt(pending, i)
    /\ rendered' = pending[i]
    /\ timers' = IF timeout THEN timers + 1 ELSE timers
    /\ timeout' = TRUE
    /\ UNCHANGED <<latest, changes, tab, leaps, broken>>

\* The default error handler shows an error; nobody arms a timer.
StatusFails(i) ==
    /\ pending' = RemoveAt(pending, i)
    /\ broken' = TRUE
    /\ UNCHANGED <<latest, changes, tab, timers, timeout, rendered, leaps>>

\* Timers fire in the order they were armed: the last one is that of the field.
TimerFires ==
    /\ IF timers > 0
       THEN timers' = timers - 1 /\ UNCHANGED timeout
       ELSE timeout /\ timeout' = FALSE /\ UNCHANGED timers
    /\ DoLoad
    /\ UNCHANGED <<latest, changes, tab, rendered, leaps, broken>>

ServeStatus == \E i \in DOMAIN pending : GetStatus(i)
RenderStatus == \E i \in DOMAIN pending : DoRender(i)

PanelNext ==
    \/ Leave \/ Return \/ TabChanged \/ Close
    \/ ServeStatus \/ RenderStatus \/ TimerFires
    \/ \E i \in DOMAIN pending : StatusFails(i)
=============================================================================
