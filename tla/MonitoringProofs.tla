---------------------------- MODULE MonitoringProofs ----------------------------
(* The dashboard and a status panel, for any number of synchronizations, actions of  *)
(* the user and changes of tabs. Their loops: a loop is a call in flight or an armed *)
(* timer, and what multiplies loops is a timer that is forgotten. The dashboard's    *)
(* records: each synchronization that was accounted for has one, and what is shown   *)
(* has its bound. Last, the values of all variables.                                 *)
EXTENDS MonitoringProperties, SequenceTheorems, FiniteSetTheorems, WellFoundedInduction,
        TLAPS

\* The timers that are not cleared any more are those that detours brought.
DashboardLoopInv ==
    /\ requests \in Seq(Answers)
    /\ timers \in Nat /\ presses \in Nat
    /\ timers <= presses
    /\ refreshTimeout => Len(requests) + timers <= presses
    /\ ~refreshTimeout => Len(requests) + timers <= 1 + presses

PanelLoopInv ==
    /\ pending \in Seq(BOOLEAN \cup {Sent})
    /\ panelTimers \in Nat /\ leaps \in Nat
    /\ tab \in {"shown", "left", "closed"}
    /\ panelTimers <= leaps
    /\ tab = "shown" /\ timeout => Len(pending) + panelTimers <= leaps
    /\ tab = "shown" /\ ~timeout => Len(pending) + panelTimers <= 1 + leaps
    /\ tab # "shown" /\ timeout => Len(pending) + panelTimers + 1 <= leaps
    /\ tab # "shown" /\ ~timeout => Len(pending) + panelTimers <= leaps

LoopInv == DashboardLoopInv /\ PanelLoopInv

-----------------------------------------------------------------------------
(* Sequences of calls                                                            *)

LEMMA RemovedCall ==
    ASSUME NEW S, NEW s \in Seq(S), NEW i \in DOMAIN s
    PROVE  RemoveAt(s, i) \in Seq(S) /\ Len(RemoveAt(s, i)) = Len(s) - 1 /\ Len(s) >= 1
<1> DEFINE front == SubSeq(s, 1, i - 1)
           back == SubSeq(s, i + 1, Len(s))
<1>1. i \in 1..Len(s) /\ Len(s) \in Nat
    BY LenProperties
<1>2. \A j \in 1..Len(s) : s[j] \in S
    BY ElementOfSeq
<1>3. front \in Seq(S) /\ Len(front) = i - 1
    <2>1. \A j \in 1..(i - 1) : s[j] \in S
        BY <1>1, <1>2
    <2> QED
        BY <1>1, <2>1, SubSeqProperties
<1>4. back \in Seq(S) /\ Len(back) = Len(s) - i
    <2>1. \A j \in (i + 1)..Len(s) : s[j] \in S
        BY <1>1, <1>2
    <2> QED
        BY <1>1, <2>1, SubSeqProperties
<1>5. RemoveAt(s, i) = front \o back
    BY DEF RemoveAt
<1> HIDE DEF front, back
<1> QED
    BY <1>1, <1>3, <1>4, <1>5, ConcatProperties

LEMMA AddedCall ==
    ASSUME NEW S, NEW s \in Seq(S), NEW e \in S
    PROVE  Append(s, e) \in Seq(S) /\ Len(Append(s, e)) = Len(s) + 1 /\ Len(s) \in Nat
BY LenProperties, AppendProperties

LEMMA ServedCall ==
    ASSUME NEW S, NEW s \in Seq(S), NEW i \in DOMAIN s, NEW e \in S
    PROVE  [s EXCEPT ![i] = e] \in Seq(S) /\ Len([s EXCEPT ![i] = e]) = Len(s)
BY LenProperties, ExceptSeq

LEMMA NoCalls == ASSUME NEW S, NEW s \in Seq(S) PROVE Len(s) \in Nat /\ (s = <<>> <=> Len(s) = 0)
BY EmptySeq, LenProperties

-----------------------------------------------------------------------------
LEMMA LoopInit == Init => LoopInv
<1> SUFFICES ASSUME Init PROVE LoopInv
    OBVIOUS
<1>1. Unserved \in Answers
    BY DEF Unserved, Answers
<1>2. requests \in Seq(Answers) /\ Len(requests) = 1
    BY <1>1 DEF Init, DashboardInit
<1>3. pending \in Seq(BOOLEAN \cup {Sent}) /\ Len(pending) = 1
    BY DEF Init, Panel!PanelInit
<1>4. timers = 0 /\ presses = 0 /\ refreshTimeout = FALSE
    BY DEF Init, DashboardInit
<1>5. tab = "shown" /\ panelTimers = 0 /\ leaps = 0 /\ timeout = FALSE
    BY DEF Init, Panel!PanelInit
<1> QED
    BY <1>2, <1>3, <1>4, <1>5 DEF LoopInv, DashboardLoopInv, PanelLoopInv

LEMMA MonitorKeeps ==
    ASSUME DashboardLoopInv, MonitorNext
    PROVE  DashboardLoopInv'
BY DEF DashboardLoopInv, MonitorNext, Start, Complete, Expire, MonitorStep

LEMMA DashboardKeeps ==
    ASSUME DashboardLoopInv, DashboardNext
    PROVE  DashboardLoopInv'
<1>1. Unserved \in Answers
    BY DEF Unserved, Answers
<1>2. Len(requests) \in Nat /\ (requests = <<>> <=> Len(requests) = 0)
    BY NoCalls DEF DashboardLoopInv
<1>3. Append(requests, Unserved) \in Seq(Answers)
      /\ Len(Append(requests, Unserved)) = Len(requests) + 1
    BY <1>1, AddedCall DEF DashboardLoopInv
<1>4. ASSUME NEW i \in DOMAIN requests
      PROVE  RemoveAt(requests, i) \in Seq(Answers)
             /\ Len(RemoveAt(requests, i)) = Len(requests) - 1 /\ Len(requests) >= 1
    BY RemovedCall DEF DashboardLoopInv
<1>5. ASSUME NEW s \in Syncs, GrowOld(s) PROVE DashboardLoopInv'
    BY <1>5 DEF GrowOld, DashboardLoopInv
<1>6. ASSUME NEW i \in DOMAIN requests, GetCurrentSynchronizations(i)
      PROVE  DashboardLoopInv'
    <2> DEFINE answer == [served |-> TRUE, active |-> In("active"), complete |-> In("complete")]
    <2>1. answer \in Answers
        BY DEF Answers, In
    <2>2. requests' = [requests EXCEPT ![i] = answer]
        BY <1>6 DEF GetCurrentSynchronizations
    <2> HIDE DEF answer
    <2>3. requests' \in Seq(Answers) /\ Len(requests') = Len(requests)
        BY <2>1, <2>2, ServedCall DEF DashboardLoopInv
    <2> QED
        BY <1>2, <1>6, <2>3 DEF GetCurrentSynchronizations, DashboardLoopInv
<1>7. ASSUME NEW i \in DOMAIN requests, PopulateDashboard(i) PROVE DashboardLoopInv'
    <2>1. requests' = RemoveAt(requests, i) /\ presses' = presses
        BY <1>7 DEF PopulateDashboard
    <2>2. /\ refreshTimeout' = TRUE
          /\ timers' = IF refreshTimeout THEN timers + 1 ELSE timers
        BY <1>7 DEF PopulateDashboard, Arm
    <2> QED
        BY <1>2, <1>4, <2>1, <2>2 DEF DashboardLoopInv
<1>8. CASE RefreshFires
    <2>1. requests' = Append(requests, Unserved) /\ presses' = presses
        BY <1>8 DEF RefreshFires, RefreshDashboard
    <2>2. \/ timers > 0 /\ timers' = timers - 1 /\ refreshTimeout' = refreshTimeout
          \/ refreshTimeout /\ refreshTimeout' = FALSE /\ timers' = timers
        BY <1>8, Zenon DEF RefreshFires
    <2> QED
        BY <1>2, <1>3, <2>1, <2>2 DEF DashboardLoopInv
<1>9. ASSUME NEW i \in DOMAIN requests, RequestFails(i) PROVE DashboardLoopInv'
    <2>1. /\ requests' = RemoveAt(requests, i)
          /\ timers' = timers /\ presses' = presses /\ refreshTimeout' = FALSE
        BY <1>9 DEF RequestFails
    <2> QED
        BY <1>2, <1>4, <2>1 DEF DashboardLoopInv
<1>10. CASE PressRefresh
    <2>1. /\ requests' = Append(requests, Unserved)
          /\ presses' = IF requests = <<>> THEN presses ELSE presses + 1
          /\ timers' = timers /\ refreshTimeout' = FALSE
        BY <1>10 DEF PressRefresh, RefreshDashboard
    <2> QED
        BY <1>2, <1>3, <2>1 DEF DashboardLoopInv
<1>11. CASE RemoveOldEntries
    BY <1>11 DEF RemoveOldEntries, DashboardLoopInv
<1>12. CASE LengthenAgeOut
    BY <1>12 DEF LengthenAgeOut, DashboardLoopInv
<1> QED
    BY <1>5, <1>6, <1>7, <1>8, <1>9, <1>10, <1>11, <1>12
    DEF DashboardNext, ServeRequest, Populate

LEMMA PanelKeeps ==
    ASSUME PanelLoopInv, Panel!PanelNext
    PROVE  PanelLoopInv'
<1>1. Len(pending) \in Nat /\ (pending = <<>> <=> Len(pending) = 0)
    BY NoCalls DEF PanelLoopInv
<1>2. Append(pending, Sent) \in Seq(BOOLEAN \cup {Sent})
      /\ Len(Append(pending, Sent)) = Len(pending) + 1
    <2>1. Sent \in BOOLEAN \cup {Sent}
        OBVIOUS
    <2> QED
        BY <2>1, AddedCall DEF PanelLoopInv
<1>3. ASSUME NEW i \in DOMAIN pending
      PROVE  RemoveAt(pending, i) \in Seq(BOOLEAN \cup {Sent})
             /\ Len(RemoveAt(pending, i)) = Len(pending) - 1 /\ Len(pending) >= 1
    BY RemovedCall DEF PanelLoopInv
<1>4. CASE Panel!Leave
    BY <1>1, <1>4 DEF Panel!Leave, Panel!ChangeTab, Panel!Leap, PanelLoopInv
<1>5. CASE Panel!Return
    BY <1>1, <1>2, <1>5 DEF Panel!Return, Panel!ChangeTab, Panel!DoLoad, PanelLoopInv
<1>6. CASE Panel!TabChanged
    BY <1>1, <1>6 DEF Panel!TabChanged, Panel!ChangeTab, PanelLoopInv
<1>7. CASE Panel!Close
    BY <1>1, <1>7 DEF Panel!Close, Panel!ChangeTab, PanelLoopInv
<1>8. ASSUME NEW i \in DOMAIN pending, Panel!GetStatus(i) PROVE PanelLoopInv'
    <2> DEFINE status == monitor[Watched] = "active"
    <2>1. pending' = [pending EXCEPT ![i] = status]
        BY <1>8 DEF Panel!GetStatus
    <2>2. status \in BOOLEAN \cup {Sent}
        OBVIOUS
    <2> HIDE DEF status
    <2>3. pending' \in Seq(BOOLEAN \cup {Sent}) /\ Len(pending') = Len(pending)
        BY <2>1, <2>2, ServedCall DEF PanelLoopInv
    <2>4. UNCHANGED <<tab, panelTimers, timeout, leaps>>
        BY <1>8 DEF Panel!GetStatus
    <2> QED
        BY <1>1, <2>3, <2>4 DEF PanelLoopInv
<1>9. ASSUME NEW i \in DOMAIN pending, Panel!DoRender(i) PROVE PanelLoopInv'
    <2>1. /\ pending' = RemoveAt(pending, i)
          /\ panelTimers' = IF timeout THEN panelTimers + 1 ELSE panelTimers
          /\ timeout' = TRUE /\ tab' = tab /\ leaps' = leaps
        BY <1>9 DEF Panel!DoRender, Panel!RemoveAt, RemoveAt
    <2> QED
        BY <1>1, <1>3, <2>1 DEF PanelLoopInv
<1>10. ASSUME NEW i \in DOMAIN pending, Panel!StatusFails(i) PROVE PanelLoopInv'
    <2>1. pending' = RemoveAt(pending, i) /\ UNCHANGED <<tab, panelTimers, timeout, leaps>>
        BY <1>10 DEF Panel!StatusFails, Panel!RemoveAt, RemoveAt
    <2> QED
        BY <1>1, <1>3, <2>1 DEF PanelLoopInv
<1>11. CASE Panel!TimerFires
    <2>1. pending' = Append(pending, Sent) /\ tab' = tab /\ leaps' = leaps
        BY <1>11 DEF Panel!TimerFires, Panel!DoLoad
    <2>2. \/ panelTimers > 0 /\ panelTimers' = panelTimers - 1 /\ timeout' = timeout
          \/ timeout /\ timeout' = FALSE /\ panelTimers' = panelTimers
        BY <1>11, Zenon DEF Panel!TimerFires
    <2> QED
        BY <1>1, <1>2, <2>1, <2>2 DEF PanelLoopInv
<1> QED
    BY <1>4, <1>5, <1>6, <1>7, <1>8, <1>9, <1>10, <1>11
    DEF Panel!PanelNext, Panel!ServeStatus, Panel!RenderStatus

LEMMA LoopStep == LoopInv /\ [Next]_vars => LoopInv'
<1> SUFFICES ASSUME LoopInv, [Next]_vars PROVE LoopInv'
    OBVIOUS
<1>1. DashboardLoopInv /\ PanelLoopInv
    BY DEF LoopInv
<1>2. (UNCHANGED dashboardVars) => DashboardLoopInv'
    BY <1>1 DEF DashboardLoopInv, dashboardVars
<1>3. (UNCHANGED panelVars) => PanelLoopInv'
    BY <1>1 DEF PanelLoopInv, panelVars
<1>4. CASE MonitorSteps
    BY <1>1, <1>3, <1>4, MonitorKeeps DEF MonitorSteps, LoopInv
<1>5. CASE DashboardSteps
    BY <1>1, <1>3, <1>5, DashboardKeeps DEF DashboardSteps, LoopInv
<1>6. CASE PanelSteps
    BY <1>1, <1>2, <1>6, PanelKeeps DEF PanelSteps, LoopInv
<1>7. CASE UNCHANGED vars
    BY <1>2, <1>3, <1>7 DEF vars, LoopInv
<1> QED
    BY <1>4, <1>5, <1>6, <1>7 DEF Next

LEMMA LoopsCounted == LoopInv => OnlyDetoursAddLoops
<1> SUFFICES ASSUME LoopInv PROVE OnlyDetoursAddLoops
    OBVIOUS
<1>1. Len(requests) \in Nat /\ Len(pending) \in Nat
    BY NoCalls DEF LoopInv, DashboardLoopInv, PanelLoopInv
<1>2. DashboardLoops <= 1 + presses
    <2>1. CASE refreshTimeout
        BY <1>1, <2>1 DEF LoopInv, DashboardLoopInv, DashboardLoops
    <2>2. CASE ~refreshTimeout
        BY <1>1, <2>2 DEF LoopInv, DashboardLoopInv, DashboardLoops
    <2> QED
        BY <2>1, <2>2
<1>3. PanelLoops <= (IF tab = "shown" THEN 1 ELSE 0) + leaps
    <2>1. CASE timeout
        BY <1>1, <2>1 DEF LoopInv, PanelLoopInv, PanelLoops
    <2>2. CASE ~timeout
        BY <1>1, <2>2 DEF LoopInv, PanelLoopInv, PanelLoops
    <2> QED
        BY <2>1, <2>2
<1> QED
    BY <1>2, <1>3 DEF OnlyDetoursAddLoops

\* Loops of the dashboard are no more than one and the presses of Refresh during a call;
\* those of a panel no more than one while it is shown, and the times its tab was left
\* with a call out (Dashboard.populateDashboard, BaseStatusPanel.doRender).
THEOREM LoopsAreBounded == Spec => []OnlyDetoursAddLoops
BY LoopInit, LoopStep, LoopsCounted, PTL DEF Spec
-----------------------------------------------------------------------------
(* Induction, from the well-foundedness of the finite sets under strict inclusion     *)

\* A set of naturals that is not empty has a least one: of the finite sets 0..m - 1 with m
\* in it, one has none of the others for a strict subset.
LEMMA LeastNat ==
    ASSUME NEW T \in SUBSET Nat, T # {}
    PROVE  \E m \in T : \A k \in T : m <= k
<1> DEFINE Below(m) == 0..(m - 1)
           Belows == {Below(m) : m \in T}
           Order == StrictSubsetOrdering(Nat)
<1>1. IsWellFoundedOn(Order, FiniteSubsetsOf(Nat))
    BY FS_StrictSubsetOrderingWellFounded
<1>2. Belows \subseteq FiniteSubsetsOf(Nat) /\ Belows # {}
    <2>1. \A m \in Nat : IsFiniteSet(0..(m - 1)) /\ 0..(m - 1) \subseteq Nat
        BY FS_Interval
    <2>2. \A m \in T : Below(m) \in FiniteSubsetsOf(Nat)
        BY <2>1 DEF FiniteSubsetsOf
    <2> HIDE DEF Below
    <2> QED
        BY <2>2
<1>3. PICK A \in Belows : \A B \in Belows : ~ (<<B, A>> \in Order)
    <2> HIDE DEF Order, Belows
    <2> QED
        BY <1>1, <1>2, WFMin
<1>4. PICK m \in T : A = Below(m)
    OBVIOUS
<1>5. ASSUME NEW k \in T, k < m PROVE FALSE
    <2>1. Below(k) \subseteq Below(m) /\ k \in Below(m) /\ k \notin Below(k)
        BY <1>5
    <2>2. <<Below(k), A>> \in Order
        BY <1>4, <2>1 DEF StrictSubsetOrdering
    <2> QED
        BY <1>3, <2>2
<1> QED
    BY <1>5

\* The least number that a set misses has a predecessor in the set.
LEMMA Induction ==
    ASSUME NEW n \in Nat, NEW T, 0 \in T, \A k \in 1..n : k - 1 \in T => k \in T
    PROVE  \A k \in 0..n : k \in T
<1> DEFINE Missed == {k \in 0..n : k \notin T}
<1> SUFFICES ASSUME Missed # {} PROVE FALSE
    OBVIOUS
<1>1. PICK m \in Missed : \A k \in Missed : m <= k
    <2>1. Missed \in SUBSET Nat
        OBVIOUS
    <2> HIDE DEF Missed
    <2> QED
        BY <2>1, LeastNat
<1>2. m \in 1..n /\ m - 1 \in 0..n
    BY <1>1
<1>3. m - 1 \in T
    BY <1>1, <1>2
<1> QED
    BY <1>1, <1>2, <1>3
-----------------------------------------------------------------------------
(* Going through an answer                                                       *)

\* What the dashboard has accounted for, as far as its place j.
Accounting(g, order, j) ==
    IF j = 0 THEN meta
    ELSE IF Contains(g[j - 1], order[j]) THEN g[j - 1]
    ELSE InsertAt(g[j - 1], j, order[j])

\* A step uses the one before it only, so that a function that obeys the steps as far as
\* one place goes on to the next.
LEMMA AccountingExists ==
    ASSUME NEW order, NEW n \in Nat
    PROVE  \E g : g = [j \in 0..n |-> Accounting(g, order, j)]
<1> DEFINE T == {k \in 0..n : \E g : g = [j \in 0..k |-> Accounting(g, order, j)]}
<1>1. 0 \in T
    <2> DEFINE g == [j \in 0..0 |-> meta]
    <2>1. g = [j \in 0..0 |-> Accounting(g, order, j)]
        BY DEF Accounting
    <2> QED
        BY <2>1
<1>2. ASSUME NEW k \in 1..n, k - 1 \in T PROVE k \in T
    <2>1. PICK g : g = [j \in 0..(k - 1) |-> Accounting(g, order, j)]
        BY <1>2
    <2> DEFINE h == [j \in 0..k |-> IF j = k THEN Accounting(g, order, k) ELSE g[j]]
    <2>2. \A j \in 0..(k - 1) : h[j] = g[j]
        OBVIOUS
    <2>3. \A j \in 0..k : Accounting(h, order, j) = Accounting(g, order, j)
        <3> SUFFICES ASSUME NEW j \in 0..k PROVE Accounting(h, order, j) = Accounting(g, order, j)
            OBVIOUS
        <3>1. j = 0 \/ j - 1 \in 0..(k - 1)
            OBVIOUS
        <3> QED
            BY <2>2, <3>1 DEF Accounting
    <2>4. \A j \in 0..k : h[j] = Accounting(h, order, j)
        <3> SUFFICES ASSUME NEW j \in 0..k PROVE h[j] = Accounting(g, order, j)
            BY <2>3
        <3>1. CASE j = k
            BY <3>1
        <3>2. CASE j \in 0..(k - 1)
            BY <2>1, <2>2, <3>2
        <3> QED
            BY <3>1, <3>2
    <2>5. h = [j \in 0..k |-> h[j]]
        OBVIOUS
    <2>6. h = [j \in 0..k |-> Accounting(h, order, j)]
        <3> HIDE DEF h
        <3> QED
            BY <2>4, <2>5
    <2> HIDE DEF h
    <2> QED
        BY <2>6
<1>3. \A k \in 0..n : k \in T
    <2> HIDE DEF T
    <2> QED
        BY <1>1, <1>2, Induction
<1> QED
    BY <1>3

\* The recursive function of Accounted takes the values its equations say.
LEMMA AccountedSteps ==
    ASSUME NEW order, Len(order) \in Nat
    PROVE  \E after :
            /\ after[0] = meta
            /\ \A j \in 1..Len(order) :
                after[j] = IF Contains(after[j - 1], order[j]) THEN after[j - 1]
                           ELSE InsertAt(after[j - 1], j, order[j])
            /\ Accounted(order) = after[Len(order)]
<1> DEFINE after == CHOOSE g : g = [j \in 0..Len(order) |-> Accounting(g, order, j)]
<1>1. after = [j \in 0..Len(order) |-> Accounting(after, order, j)]
    BY AccountingExists
<1>2. Accounted(order) = after[Len(order)]
    BY DEF Accounted, Accounting
<1> HIDE DEF after
<1>3. \A j \in 0..Len(order) : after[j] = Accounting(after, order, j)
    BY <1>1
<1> QED
    BY <1>2, <1>3 DEF Accounting

-----------------------------------------------------------------------------
(* Sequences without repetitions                                                 *)

Distinct(s) == \A i, j \in DOMAIN s : s[i] = s[j] => i = j

LEMMA Members ==
    ASSUME NEW S, NEW s \in Seq(S)
    PROVE  /\ \A e : Contains(s, e) <=> e \in ToSet(s)
           /\ DOMAIN s = 1..Len(s) /\ Len(s) \in Nat
           /\ \A i \in 1..Len(s) : s[i] \in S /\ s[i] \in ToSet(s)
           /\ IsFiniteSet(ToSet(s)) /\ Cardinality(ToSet(s)) <= Len(s)
<1>1. Len(s) \in Nat /\ DOMAIN s = 1..Len(s) /\ s \in [1..Len(s) -> S]
    BY LenProperties
<1>2. \A e : Contains(s, e) <=> e \in ToSet(s)
    BY <1>1 DEF Contains, ToSet
<1>3. s \in Surjection(1..Len(s), ToSet(s))
    BY <1>1 DEF Surjection, ToSet
<1>4. IsFiniteSet(ToSet(s)) /\ Cardinality(ToSet(s)) <= Cardinality(1..Len(s))
    BY <1>1, <1>3, FS_Interval, FS_Surjection
<1>5. Cardinality(1..Len(s)) = Len(s)
    BY <1>1, FS_Interval
<1> QED
    BY <1>1, <1>2, <1>4, <1>5 DEF ToSet

\* InsertAt adds what it inserts, at a place it has.
LEMMA Inserted ==
    ASSUME NEW S, NEW s \in Seq(S), Distinct(s), NEW j \in 1..(Len(s) + 1), NEW e \in S,
           e \notin ToSet(s)
    PROVE  /\ InsertAt(s, j, e) \in Seq(S)
           /\ Distinct(InsertAt(s, j, e))
           /\ ToSet(InsertAt(s, j, e)) = ToSet(s) \cup {e}
<1> DEFINE front == SubSeq(s, 1, j - 1)
           back == SubSeq(s, j, Len(s))
           both == front \o <<e>>
           t == both \o back
<1>1. Len(s) \in Nat /\ DOMAIN s = 1..Len(s) /\ \A i \in 1..Len(s) : s[i] \in S
    BY Members
<1>2. /\ front \in Seq(S) /\ Len(front) = j - 1
      /\ \A i \in 1..(j - 1) : front[i] = s[i]
    <2>1. \A i \in 1..(j - 1) : s[i] \in S
        BY <1>1
    <2> QED
        BY <1>1, <2>1, SubSeqProperties
<1>3. /\ back \in Seq(S) /\ Len(back) = Len(s) - j + 1
      /\ \A i \in 1..(Len(s) - j + 1) : back[i] = s[j + i - 1]
    <2>1. \A i \in j..Len(s) : s[i] \in S
        BY <1>1
    <2> QED
        BY <1>1, <2>1, SubSeqProperties
<1>4. <<e>> \in Seq(S) /\ Len(<<e>>) = 1 /\ <<e>>[1] = e
    OBVIOUS
<1> HIDE DEF front, back
<1>5. /\ both \in Seq(S) /\ Len(both) = j
      /\ \A i \in 1..j : both[i] = IF i <= j - 1 THEN front[i] ELSE <<e>>[i - (j - 1)]
    BY <1>1, <1>2, <1>4, ConcatProperties
<1>6. \A i \in 1..j : both[i] = IF i < j THEN s[i] ELSE e
    BY <1>1, <1>2, <1>4, <1>5
<1> HIDE DEF both
<1>7. /\ t \in Seq(S) /\ Len(t) = Len(s) + 1
      /\ \A i \in 1..(Len(s) + 1) : t[i] = IF i <= j THEN both[i] ELSE back[i - j]
    <2>1. /\ t \in Seq(S) /\ Len(t) = Len(both) + Len(back)
          /\ \A i \in 1..(Len(both) + Len(back)) :
                t[i] = IF i <= Len(both) THEN both[i] ELSE back[i - Len(both)]
        BY <1>3, <1>5, ConcatProperties
    <2>2. Len(both) + Len(back) = Len(s) + 1
        BY <1>1, <1>3, <1>5
    <2> QED
        BY <1>5, <2>1, <2>2
<1> HIDE DEF t
<1>8. ASSUME NEW i \in 1..(Len(s) + 1)
      PROVE  t[i] = IF i < j THEN s[i] ELSE IF i = j THEN e ELSE s[i - 1]
    <2>1. CASE i <= j
        <3>1. i \in 1..j /\ t[i] = both[i]
            BY <1>1, <1>7, <2>1
        <3> QED
            BY <1>6, <2>1, <3>1
    <2>2. CASE i > j
        <3>1. i - j \in 1..(Len(s) - j + 1) /\ t[i] = back[i - j]
            BY <1>1, <1>7, <2>2
        <3>2. j + (i - j) - 1 = i - 1
            BY <1>1
        <3> QED
            BY <1>3, <2>2, <3>1, <3>2
    <2> QED
        BY <1>1, <2>1, <2>2
<1>9. DOMAIN t = 1..(Len(s) + 1)
    BY <1>7, Members
<1>10. InsertAt(s, j, e) = t
    BY DEF InsertAt, t, both, front, back
<1>11. Distinct(t)
    <2> SUFFICES ASSUME NEW i \in 1..(Len(s) + 1), NEW k \in 1..(Len(s) + 1), t[i] = t[k], i < k
                 PROVE  FALSE
        BY <1>1, <1>9 DEF Distinct
    <2>1. \A m \in 1..Len(s) : s[m] # e
        BY <1>1 DEF ToSet
    <2>2. \A m, n \in 1..Len(s) : s[m] = s[n] => m = n
        BY <1>1 DEF Distinct
    <2>3. CASE k < j
        BY <1>1, <1>8, <2>2, <2>3
    <2>4. CASE k = j
        BY <1>1, <1>8, <2>1, <2>4
    <2>5. CASE k > j
        <3>1. t[k] = s[k - 1] /\ k - 1 \in 1..Len(s)
            BY <1>1, <1>8, <2>5
        <3>2. CASE i < j
            BY <1>1, <1>8, <2>2, <2>5, <3>1, <3>2
        <3>3. CASE i = j
            BY <1>1, <1>8, <2>1, <3>1, <3>3
        <3>4. CASE i > j
            <4>1. t[i] = s[i - 1] /\ i - 1 \in 1..Len(s)
                BY <1>1, <1>8, <3>4
            <4> QED
                BY <2>2, <3>1, <4>1
        <3> QED
            BY <3>2, <3>3, <3>4
    <2> QED
        BY <1>1, <2>3, <2>4, <2>5
<1>12. ToSet(t) = ToSet(s) \cup {e}
    <2>1. ASSUME NEW i \in 1..(Len(s) + 1) PROVE t[i] \in ToSet(s) \cup {e}
        <3>1. i < j => i \in 1..Len(s)
            BY <1>1
        <3>2. i > j => i - 1 \in 1..Len(s)
            BY <1>1
        <3> QED
            BY <1>1, <1>8, <3>1, <3>2 DEF ToSet
    <2>2. ASSUME NEW i \in 1..Len(s) PROVE s[i] \in ToSet(t)
        <3>1. CASE i < j
            <4>1. i \in 1..(Len(s) + 1) /\ t[i] = s[i]
                BY <1>1, <1>8, <3>1
            <4> QED
                BY <1>9, <4>1 DEF ToSet
        <3>2. CASE i >= j
            <4>1. i + 1 \in 1..(Len(s) + 1) /\ t[i + 1] = s[i]
                BY <1>1, <1>8, <3>2
            <4> QED
                BY <1>9, <4>1 DEF ToSet
        <3> QED
            BY <1>1, <3>1, <3>2
    <2>3. e \in ToSet(t)
        <3>1. j \in 1..(Len(s) + 1) /\ t[j] = e
            BY <1>1, <1>8
        <3> QED
            BY <1>9, <3>1 DEF ToSet
    <2> QED
        BY <1>1, <1>9, <2>1, <2>2, <2>3 DEF ToSet
<1> QED
    BY <1>7, <1>10, <1>11, <1>12

\* A sequence without repetitions is not longer than a set that holds what is in it.
LEMMA LongEnough ==
    ASSUME NEW S, NEW s \in Seq(S), NEW n \in Nat, NEW f,
           \A i \in 1..n : f[i] \in ToSet(s),
           \A i, j \in 1..n : f[i] = f[j] => i = j
    PROVE  n <= Len(s)
<1>1. IsFiniteSet(ToSet(s)) /\ Cardinality(ToSet(s)) <= Len(s) /\ Len(s) \in Nat
    BY Members
<1> DEFINE g == [i \in 1..n |-> f[i]]
<1>2. g \in Injection(1..n, ToSet(s))
    BY DEF Injection, IsInjective
<1>3. Cardinality(1..n) <= Cardinality(ToSet(s))
    <2> HIDE DEF g
    <2> QED
        BY <1>1, <1>2, FS_Injection
<1>4. Cardinality(1..n) = n /\ Cardinality(ToSet(s)) \in Nat
    BY <1>1, FS_Interval, FS_CardinalityType
<1> QED
    BY <1>1, <1>3, <1>4

\* An order of a finite set goes through all of it.
LEMMA Orders ==
    ASSUME NEW S, IsFiniteSet(S), NEW order \in SetToSeqs(S)
    PROVE  /\ order \in Seq(S) /\ Len(order) = Cardinality(S) /\ Len(order) \in Nat
           /\ Distinct(order) /\ ToSet(order) = S
<1> DEFINE n == Cardinality(S)
<1>1. /\ order \in [1..n -> S] /\ \A i, j \in 1..n : i # j => order[i] # order[j]
    BY DEF SetToSeqs
<1>2. n \in Nat
    BY FS_CardinalityType
<1>3. order \in Seq(S) /\ Len(order) = n
    <2> HIDE DEF n
    <2>1. order \in Seq(S)
        BY <1>1, <1>2, SeqDef
    <2> QED
        BY <1>1, <1>2, <2>1, LenProperties
<1>4. DOMAIN order = 1..n
    BY <1>1
<1>5. order \in Injection(1..n, S)
    BY <1>1 DEF Injection, IsInjective
<1>6. order \in Surjection(1..n, S)
    <2>1. Cardinality(1..n) = n
        BY <1>2, FS_Interval
    <2> QED
        BY <1>5, <2>1, FS_Injection
<1> QED
    BY <1>1, <1>2, <1>3, <1>4, <1>6 DEF Surjection, ToSet, Distinct

\* After an answer the dashboard has accounted for what it had, and for the answer, each
\* once (Dashboard.handleSyncResponse).
LEMMA AccountedIs ==
    ASSUME NEW S, meta \in Seq(S), Distinct(meta), NEW A \in SUBSET S, IsFiniteSet(A),
           NEW order \in SetToSeqs(A)
    PROVE  /\ Accounted(order) \in Seq(S)
           /\ Distinct(Accounted(order))
           /\ ToSet(Accounted(order)) = ToSet(meta) \cup A
<1> DEFINE n == Len(order)
           Went(j) == {order[i] : i \in 1..j}
<1>1. /\ n \in Nat /\ DOMAIN order = 1..n /\ ToSet(order) = A
      /\ \A i, j \in 1..n : order[i] = order[j] => i = j
    <2>1. order \in Seq(A)
        BY Orders
    <2> QED
        BY <2>1, Orders, Members DEF Distinct
<1>2. PICK after :
        /\ after[0] = meta
        /\ \A j \in 1..n :
            after[j] = IF Contains(after[j - 1], order[j]) THEN after[j - 1]
                       ELSE InsertAt(after[j - 1], j, order[j])
        /\ Accounted(order) = after[n]
    BY <1>1, AccountedSteps
<1> DEFINE T == {j \in 0..n : /\ after[j] \in Seq(S) /\ Distinct(after[j])
                              /\ ToSet(after[j]) = ToSet(meta) \cup Went(j)}
<1>3. 0 \in T
    BY <1>1, <1>2
<1>4. ASSUME NEW k \in 1..n, k - 1 \in T PROVE k \in T
    <2> DEFINE s == after[k - 1]
               e == order[k]
    <2>1. s \in Seq(S) /\ Distinct(s) /\ ToSet(s) = ToSet(meta) \cup Went(k - 1)
        BY <1>4
    <2>2. Went(k) = Went(k - 1) \cup {e} /\ e \in S
        BY <1>1 DEF ToSet
    <2>3. CASE e \in ToSet(s)
        <3>1. Contains(s, e)
            BY <2>1, <2>3, Members
        <3>2. after[k] = s
            BY <1>2, <3>1
        <3> QED
            BY <2>1, <2>2, <2>3, <3>2
    <2>4. CASE e \notin ToSet(s)
        <3>1. ~Contains(s, e)
            BY <2>1, <2>4, Members
        <3>2. after[k] = InsertAt(s, k, e)
            BY <1>2, <3>1
        <3>3. k - 1 <= Len(s)
            <4>1. \A i \in 1..(k - 1) : order[i] \in ToSet(s)
                BY <2>1
            <4>2. \A i, j \in 1..(k - 1) : order[i] = order[j] => i = j
                BY <1>1
            <4>3. k - 1 \in Nat
                BY <1>1
            <4> HIDE DEF s
            <4> QED
                BY <2>1, <4>1, <4>2, <4>3, LongEnough
        <3>4. k \in 1..(Len(s) + 1)
            BY <1>1, <2>1, <3>3, LenProperties
        <3>5. /\ after[k] \in Seq(S) /\ Distinct(after[k]) /\ ToSet(after[k]) = ToSet(s) \cup {e}
            <4> HIDE DEF s, e
            <4> QED
                BY <2>1, <2>2, <2>4, <3>2, <3>4, Inserted
        <3> QED
            BY <2>1, <2>2, <3>5
    <2> QED
        BY <2>3, <2>4
<1>5. \A k \in 0..n : k \in T
    <2>1. n \in Nat
        BY <1>1
    <2> HIDE DEF T
    <2> QED
        BY <1>3, <1>4, <2>1, Induction
<1>6. Went(n) = A
    BY <1>1 DEF ToSet
<1>7. n \in T
    <2> HIDE DEF T
    <2> QED
        BY <1>1, <1>5
<1> QED
    BY <1>2, <1>6, <1>7

-----------------------------------------------------------------------------
(* Pruning the store                                                             *)

\* The store that has a record of each synchronization among the entries.
Records(entries) == [s \in Syncs |-> IF s \in ToSet(entries) THEN 1 ELSE 0]

\* The records of entries that each occur once are as many as the entries, so that there
\* is something to drop when too many are shown; what is dropped is not also kept, and has
\* the one record that Prune looks for (Dashboard.pruneRecentGrids).
LEMMA Pruned ==
    ASSUME NEW entries \in Seq(Syncs), Distinct(entries), NEW tooOld
    PROVE  LET p == Prune(entries, Records(entries), tooOld) IN
           /\ p.meta \in Seq(Syncs) /\ Distinct(p.meta)
           /\ ToSet(p.meta) \subseteq ToSet(entries)
           /\ p.recent = Records(p.meta)
           /\ Cardinality(Shown(p.recent, tooOld)) <= MaximumEntries
<1> DEFINE p == Prune(entries, Records(entries), tooOld)
           n == MaximumEntries
           kept == SubSeq(entries, 1, n)
           rest == SubSeq(entries, n + 1, Len(entries))
           Many == Cardinality(Shown(Records(entries), tooOld)) > n
<1>1. /\ Len(entries) \in Nat /\ DOMAIN entries = 1..Len(entries) /\ n \in Nat
      /\ \A i \in 1..Len(entries) : entries[i] \in Syncs /\ entries[i] \in ToSet(entries)
    BY Members, DashboardAssumption
<1>2. CASE ~Many
    <2>1. p.meta = entries /\ p.recent = Records(entries)
        BY <1>2 DEF Prune
    <2>2. Cardinality(Shown(Records(entries), tooOld)) <= n
        <3> DEFINE sh == Shown(Records(entries), tooOld)
        <3>1. sh \subseteq ToSet(entries) /\ ~(Cardinality(sh) > n)
            BY <1>2 DEF Shown, Records
        <3>2. IsFiniteSet(ToSet(entries))
            BY Members
        <3> HIDE DEF sh
        <3>3. Cardinality(sh) \in Nat
            BY <3>1, <3>2, FS_Subset, FS_CardinalityType
        <3>4. Cardinality(sh) <= n
            BY <1>1, <3>1, <3>3
        <3> QED
            BY <3>4 DEF sh
    <2> QED
        BY <2>1, <2>2
<1>3. CASE Many
    <2>1. n <= Len(entries)
        <3> DEFINE sh == Shown(Records(entries), tooOld)
        <3>1. sh \subseteq ToSet(entries)
            BY DEF Shown, Records
        <3>2. IsFiniteSet(ToSet(entries)) /\ Cardinality(ToSet(entries)) <= Len(entries)
            BY Members
        <3>3. Cardinality(sh) > n
            BY <1>3
        <3> HIDE DEF sh
        <3>4. Cardinality(sh) <= Cardinality(ToSet(entries))
            BY <3>1, <3>2, FS_Subset
        <3>5. Cardinality(sh) \in Nat /\ Cardinality(ToSet(entries)) \in Nat
            BY <3>1, <3>2, FS_Subset, FS_CardinalityType
        <3> QED
            BY <1>1, <3>2, <3>3, <3>4, <3>5
    <2>2. kept \in Seq(Syncs) /\ Len(kept) = n /\ \A i \in 1..n : kept[i] = entries[i]
        <3>1. \A i \in 1..n : entries[i] \in Syncs
            BY <1>1, <2>1
        <3> QED
            BY <1>1, <2>1, <3>1, SubSeqProperties
    <2>3. /\ rest \in Seq(Syncs) /\ Len(rest) = Len(entries) - n
          /\ \A i \in 1..(Len(entries) - n) : rest[i] = entries[n + i]
        <3>1. \A i \in (n + 1)..Len(entries) : entries[i] \in Syncs
            BY <1>1
        <3>2. n + 1 \in Nat /\ n + 1 \in 1..(Len(entries) + 1)
            BY <1>1, <2>1
        <3>3. /\ rest \in Seq(Syncs)
              /\ Len(rest) = IF n + 1 <= Len(entries) THEN Len(entries) - (n + 1) + 1 ELSE 0
              /\ \A i \in 1..(Len(entries) - (n + 1) + 1) : rest[i] = entries[n + 1 + i - 1]
            BY <1>1, <3>1, <3>2, SubSeqProperties
        <3>4. \A i \in 1..(Len(entries) - n) :
                i \in 1..(Len(entries) - (n + 1) + 1) /\ n + 1 + i - 1 = n + i
            BY <1>1, <2>1
        <3> HIDE DEF rest
        <3>5. Len(rest) = Len(entries) - n
            <4>1. \A a, b \in Nat : b <= a => (IF b + 1 <= a THEN a - (b + 1) + 1 ELSE 0) = a - b
                OBVIOUS
            <4> HIDE DEF n
            <4> QED
                BY <1>1, <2>1, <3>3, <4>1
        <3>6. \A i \in 1..(Len(entries) - n) : rest[i] = entries[n + i]
            <4> SUFFICES ASSUME NEW i \in 1..(Len(entries) - n) PROVE rest[i] = entries[n + i]
                OBVIOUS
            <4>1. rest[i] = entries[n + 1 + i - 1]
                BY <3>3, <3>4
            <4> QED
                BY <3>4, <4>1
        <3> QED
            BY <3>3, <3>5, <3>6
    <2> HIDE DEF kept, rest
    <2>4. DOMAIN kept = 1..n /\ DOMAIN rest = 1..(Len(entries) - n)
        BY <2>2, <2>3, Members
    <2>5. Distinct(kept)
        BY <1>1, <2>1, <2>2, <2>4 DEF Distinct
    <2>6. ToSet(kept) \subseteq ToSet(entries) /\ ToSet(rest) \subseteq ToSet(entries)
        <3>1. ToSet(kept) \subseteq ToSet(entries)
            BY <1>1, <2>1, <2>2, <2>4 DEF ToSet
        <3>2. \A i \in 1..(Len(entries) - n) : n + i \in 1..Len(entries)
            BY <1>1, <2>1
        <3> QED
            BY <1>1, <2>3, <2>4, <3>1, <3>2 DEF ToSet
    <2>7. ToSet(kept) \cap ToSet(rest) = {}
        <3> SUFFICES ASSUME NEW i \in 1..n, NEW j \in 1..(Len(entries) - n), kept[i] = rest[j]
                     PROVE  FALSE
            BY <2>4 DEF ToSet
        <3>1. i \in 1..Len(entries) /\ n + j \in 1..Len(entries) /\ i # n + j
            BY <1>1, <2>1
        <3> QED
            BY <1>1, <2>2, <2>3, <3>1 DEF Distinct
    <2>8. ToSet(entries) \subseteq ToSet(kept) \cup ToSet(rest)
        <3> SUFFICES ASSUME NEW i \in 1..Len(entries)
                     PROVE  entries[i] \in ToSet(kept) \cup ToSet(rest)
            BY <1>1 DEF ToSet
        <3>1. CASE i <= n
            <4>1. i \in 1..n /\ kept[i] = entries[i]
                BY <1>1, <2>2, <3>1
            <4> QED
                BY <2>4, <4>1 DEF ToSet
        <3>2. CASE i > n
            <4>1. i - n \in 1..(Len(entries) - n) /\ n + (i - n) = i
                BY <1>1, <2>1, <3>2
            <4>2. rest[i - n] = entries[i]
                BY <2>3, <4>1
            <4> QED
                BY <2>4, <4>1, <4>2 DEF ToSet
        <3> QED
            BY <1>1, <3>1, <3>2
    <2>9. /\ p.meta = kept
          /\ p.recent = [s \in Syncs |-> IF s \in ToSet(rest) /\ Records(entries)[s] = 1 THEN 0
                                         ELSE Records(entries)[s]]
        BY <1>3 DEF Prune, kept, rest
    <2>10. p.recent = Records(kept)
        BY <2>6, <2>7, <2>8, <2>9 DEF Records
    <2>11. Cardinality(Shown(Records(kept), tooOld)) <= n
        <3> DEFINE sh == Shown(Records(kept), tooOld)
        <3>1. sh \subseteq ToSet(kept)
            BY DEF Shown, Records
        <3>2. IsFiniteSet(ToSet(kept)) /\ Cardinality(ToSet(kept)) <= n
            BY <2>2, Members
        <3> HIDE DEF sh
        <3>3. Cardinality(sh) <= Cardinality(ToSet(kept))
            BY <3>1, <3>2, FS_Subset
        <3>4. Cardinality(sh) \in Nat /\ Cardinality(ToSet(kept)) \in Nat
            BY <3>1, <3>2, FS_Subset, FS_CardinalityType
        <3>5. Cardinality(sh) <= n
            BY <1>1, <3>2, <3>3, <3>4
        <3> QED
            BY <3>5 DEF sh
    <2> QED
        BY <2>2, <2>5, <2>6, <2>9, <2>10, <2>11
<1> QED
    BY <1>2, <1>3

-----------------------------------------------------------------------------
(* The store and the answers in flight                                           *)

Ended == In("complete") \cup In("expired")
Known == {s \in Syncs : monitor[s] # "unknown"}

\* An answer tells of syncs that have ended, as the monitor never takes back, and of active
\* ones that the dashboard has not recorded, while nothing else can have come in between.
Sound == {answer \in Answers :
            /\ answer.complete \subseteq Ended
            /\ answer.active \cap answer.complete = {}
            /\ presses = 0 => answer.active \cap ToSet(meta) = {}}

OnceInv ==
    /\ DashboardTypeOK
    /\ presses <= clicks
    /\ IsFiniteSet(Known)
    /\ Distinct(meta)
    /\ recent = Records(meta)
    /\ ToSet(meta) \subseteq Ended
    /\ requests \in Seq(Sound)
    /\ presses = 0 => active \cap ToSet(meta) = {}

LEMMA WiderCalls ==
    ASSUME NEW S, NEW T, S \subseteq T, NEW s \in Seq(S)
    PROVE  s \in Seq(T)
<1>1. Len(s) \in Nat /\ s \in [1..Len(s) -> T]
    BY LenProperties
<1> QED
    BY <1>1, SeqDef

LEMMA StaySound ==
    ASSUME Ended \subseteq Ended', presses' = 0 => presses = 0, meta' = meta
    PROVE  Sound \subseteq Sound'
BY DEF Sound

LEMMA StaySoundCalls ==
    ASSUME requests \in Seq(Sound), Ended \subseteq Ended', presses' = 0 => presses = 0,
           meta' = meta, requests' = requests
    PROVE  requests' \in Seq(Sound')
BY StaySound, WiderCalls

LEMMA UnservedSound == Unserved \in Sound
BY DEF Unserved, Sound, Answers

LEMMA OnceInit == Init => OnceInv
<1> SUFFICES ASSUME Init PROVE OnceInv
    OBVIOUS
<1>1. DashboardInit
    BY DEF Init
<1>2. Unserved \in Answers
    BY DEF Unserved, Answers
<1>3. DashboardTypeOK
    <2>1. requests \in Seq(Answers) /\ meta \in Seq(Syncs)
        BY <1>1, <1>2 DEF DashboardInit
    <2>2. /\ monitor \in [Syncs -> Phases] /\ recent \in [Syncs -> Nat]
          /\ active \subseteq Syncs /\ old \subseteq Syncs /\ shown \subseteq Syncs
        BY <1>1 DEF DashboardInit, Phases
    <2>3. refreshTimeout \in BOOLEAN /\ failed \in BOOLEAN
        BY <1>1, Zenon DEF DashboardInit
    <2>4. timers = 0 /\ clicks = 0 /\ presses = 0
        BY <1>1, Zenon DEF DashboardInit
    <2>5. timers \in Nat /\ clicks \in 0..MaxClicks /\ presses \in 0..MaxClicks
        BY <2>4, DashboardAssumption
    <2> QED
        BY <2>1, <2>2, <2>3, <2>5 DEF DashboardTypeOK
<1>4. presses <= clicks
    BY <1>1 DEF DashboardInit
<1>5. IsFiniteSet(Known)
    <2>1. Known = {}
        BY <1>1 DEF DashboardInit, Known
    <2> QED
        BY <2>1, FS_EmptySet
<1>6. meta = <<>> /\ DOMAIN meta = {} /\ ToSet(meta) = {}
    BY <1>1 DEF DashboardInit, ToSet
<1>7. recent = Records(meta)
    BY <1>1, <1>6 DEF DashboardInit, Records
<1>8. requests \in Seq(Sound)
    BY <1>1, UnservedSound DEF DashboardInit
<1> QED
    BY <1>3, <1>4, <1>5, <1>6, <1>7, <1>8 DEF OnceInv, Distinct

\* A synchronization does not go back in the monitor, and at most one becomes known.
LEMMA MonitorOnce ==
    ASSUME OnceInv, MonitorNext
    PROVE  OnceInv'
<1>1. PICK s \in Syncs, from \in {"unknown", "active", "complete"},
           to \in {"active", "complete", "expired"} :
        /\ MonitorStep(s, from, to)
        /\ from = "complete" => to = "expired"
    BY DEF MonitorNext, Start, Complete, Expire
<1>2. /\ monitor[s] = from /\ monitor' = [monitor EXCEPT ![s] = to]
      /\ UNCHANGED <<requests, timers, refreshTimeout, gridVars, clicks, presses, failed>>
    BY <1>1 DEF MonitorStep
<1>3. UNCHANGED <<active, recent, old, shown, meta>>
    BY <1>2 DEF gridVars
<1>4. monitor \in [Syncs -> Phases] /\ monitor' \in [Syncs -> Phases]
    BY <1>2 DEF OnceInv, DashboardTypeOK, Phases
<1>5. Ended \subseteq Ended'
    BY <1>1, <1>2, <1>4 DEF Ended, In
<1>6. IsFiniteSet(Known')
    <2>1. Known' \subseteq Known \cup {s}
        BY <1>2, <1>4 DEF Known
    <2>2. IsFiniteSet(Known \cup {s})
        BY FS_AddElement DEF OnceInv
    <2> QED
        BY <2>1, <2>2, FS_Subset
<1>7. requests' \in Seq(Sound')
    BY <1>2, <1>3, <1>5, StaySoundCalls DEF OnceInv
<1>8. DashboardTypeOK'
    BY <1>2, <1>3, <1>4 DEF OnceInv, DashboardTypeOK
<1>9. (recent = Records(meta))' /\ (Distinct(meta))' /\ ToSet(meta') \subseteq Ended'
    BY <1>3, <1>5 DEF OnceInv, Records, Distinct
<1> QED
    BY <1>2, <1>3, <1>6, <1>7, <1>8, <1>9 DEF OnceInv

\* What an answer leaves in the store (Dashboard.updateGrids).
LEMMA AnswerRecorded ==
    ASSUME OnceInv, NEW i \in DOMAIN requests, UpdateGrids(requests[i])
    PROVE  /\ meta' \in Seq(Syncs) /\ Distinct(meta')
           /\ ToSet(meta') \subseteq ToSet(meta) \cup requests[i].complete
           /\ recent' = Records(meta')
           /\ old' \subseteq Syncs
           /\ shown' = Shown(recent', old')
           /\ Cardinality(shown') <= MaximumEntries
<1> DEFINE answer == requests[i]
           new == answer.complete \ ToSet(meta)
           added == [s \in Syncs |-> IF s \in new THEN recent[s] + 1 ELSE recent[s]]
<1>1. answer \in Sound
    BY ElementOfSeq, LenProperties DEF OnceInv
<1>2. answer.complete \subseteq Ended /\ answer.complete \subseteq Syncs
    BY <1>1 DEF Sound, Answers
<1>3. IsFiniteSet(answer.complete)
    <2>1. answer.complete \subseteq Known
        BY <1>2 DEF Ended, In, Known
    <2> QED
        BY <2>1, FS_Subset DEF OnceInv
<1>4. PICK order \in SetToSeqs(answer.complete) :
        LET pruned == Prune(Accounted(order), added, old \ new) IN
        /\ meta' = pruned.meta
        /\ recent' = pruned.recent
        /\ shown' = Shown(pruned.recent, old \ new)
    BY DEF UpdateGrids
<1>5. /\ Accounted(order) \in Seq(Syncs) /\ Distinct(Accounted(order))
      /\ ToSet(Accounted(order)) = ToSet(meta) \cup answer.complete
    <2> HIDE DEF answer
    <2>1. meta \in Seq(Syncs) /\ Distinct(meta)
        BY DEF OnceInv, DashboardTypeOK
    <2> QED
        BY <1>2, <1>3, <2>1, AccountedIs
<1>6. added = Records(Accounted(order))
    <2> HIDE DEF answer
    <2>1. \A s \in Syncs : recent[s] = IF s \in ToSet(meta) THEN 1 ELSE 0
        BY DEF OnceInv, Records
    <2> QED
        BY <1>5, <2>1 DEF Records
<1> HIDE DEF added
<1>7. old' = old \ new
    BY DEF UpdateGrids
<1>8. old \subseteq Syncs
    BY DEF OnceInv, DashboardTypeOK
<1> HIDE DEF answer, new
<1>9. LET p == Prune(Accounted(order), added, old \ new) IN
      /\ p.meta \in Seq(Syncs) /\ Distinct(p.meta)
      /\ ToSet(p.meta) \subseteq ToSet(Accounted(order))
      /\ p.recent = Records(p.meta)
      /\ Cardinality(Shown(p.recent, old \ new)) <= MaximumEntries
    BY <1>5, <1>6, Pruned
<1> QED
    BY <1>4, <1>5, <1>7, <1>8, <1>9 DEF answer

\* An answer that is served now tells of what is active and complete now; no active
\* synchronization has been recorded.
LEMMA ServedOnce ==
    ASSUME OnceInv, NEW i \in DOMAIN requests, GetCurrentSynchronizations(i)
    PROVE  OnceInv'
<1> DEFINE answer == [served |-> TRUE, active |-> In("active"), complete |-> In("complete")]
<1>1. /\ requests' = [requests EXCEPT ![i] = answer]
      /\ UNCHANGED <<monitor, timers, refreshTimeout, gridVars, clicks, presses, failed>>
    BY DEF GetCurrentSynchronizations
<1>2. UNCHANGED <<active, recent, old, shown, meta>>
    BY <1>1 DEF gridVars
<1>3. answer \in Sound
    <2>1. ToSet(meta) \subseteq Ended
        BY DEF OnceInv
    <2> QED
        BY <2>1 DEF Sound, Answers, In, Ended
<1> HIDE DEF answer
<1>4. requests' \in Seq(Sound)
    BY <1>1, <1>3, ServedCall DEF OnceInv
<1>5. Sound' = Sound /\ Ended' = Ended /\ Known' = Known
    BY <1>1, <1>2 DEF Sound, Ended, Known, In
<1>6. requests' \in Seq(Answers)
    BY <1>4, WiderCalls DEF Sound
<1>7. DashboardTypeOK'
    BY <1>1, <1>2, <1>6 DEF OnceInv, DashboardTypeOK
<1>8. (recent = Records(meta))' /\ (Distinct(meta))' /\ ToSet(meta') \subseteq Ended'
    BY <1>2, <1>5 DEF OnceInv, Records, Distinct
<1> QED
    BY <1>1, <1>2, <1>4, <1>5, <1>7, <1>8 DEF OnceInv

\* While Refresh was not pressed during a call, an answer is the only one in flight, so
\* that none is overtaken (Dashboard.populateDashboard).
LEMMA PopulateOnce ==
    ASSUME OnceInv, DashboardLoopInv, NEW i \in DOMAIN requests, PopulateDashboard(i)
    PROVE  OnceInv'
<1>1. /\ requests' = RemoveAt(requests, i)
      /\ UpdateGrids(requests[i])
      /\ active' = requests[i].active
      /\ UNCHANGED <<monitor, clicks, presses, failed>>
    BY DEF PopulateDashboard, LoadData
<1>2. timers' \in Nat /\ refreshTimeout' \in BOOLEAN
    BY DEF PopulateDashboard, Arm, OnceInv, DashboardTypeOK
<1>3. requests[i] \in Sound
    BY ElementOfSeq, LenProperties DEF OnceInv
<1>4. /\ meta' \in Seq(Syncs) /\ Distinct(meta')
      /\ ToSet(meta') \subseteq ToSet(meta) \cup requests[i].complete
      /\ recent' = Records(meta')
      /\ old' \subseteq Syncs
      /\ shown' = Shown(recent', old')
    BY <1>1, AnswerRecorded
<1>5. Ended' = Ended /\ Known' = Known
    BY <1>1 DEF Ended, Known, In
<1>6. ToSet(meta') \subseteq Ended'
    BY <1>3, <1>4, <1>5 DEF Sound, OnceInv
<1>7. requests' \in Seq(Sound) /\ Len(requests') = Len(requests) - 1
    BY <1>1, RemovedCall DEF OnceInv
<1>8. requests' \in Seq(Sound')
    <2>1. CASE presses = 0
        <3>1. Len(requests) <= 1 /\ Len(requests) \in Nat
            BY <2>1, NoCalls DEF DashboardLoopInv
        <3>2. requests' = <<>>
            BY <1>7, <3>1, NoCalls
        <3> QED
            BY <3>2
    <2>2. CASE presses # 0
        <3>1. Sound' = Sound
            BY <1>1, <1>5, <2>2 DEF Sound
        <3> QED
            BY <1>7, <3>1
    <2> QED
        BY <2>1, <2>2
<1>9. presses' = 0 => active' \cap ToSet(meta') = {}
    BY <1>1, <1>3, <1>4 DEF Sound
<1>10. DashboardTypeOK'
    <2>1. requests' \in Seq(Answers)
        BY <1>7, WiderCalls DEF Sound
    <2>2. recent' \in [Syncs -> Nat]
        BY <1>4 DEF Records
    <2>3. shown' \subseteq Syncs /\ active' \subseteq Syncs
        BY <1>1, <1>3, <1>4 DEF Shown, Sound, Answers
    <2> QED
        BY <1>1, <1>2, <1>4, <2>1, <2>2, <2>3 DEF OnceInv, DashboardTypeOK
<1>11. (recent = Records(meta))' /\ (Distinct(meta))'
    BY <1>4 DEF Records, Distinct
<1> QED
    BY <1>1, <1>5, <1>6, <1>8, <1>9, <1>10, <1>11 DEF OnceInv

\* Every other step of the dashboard leaves the store, and what is accounted for.
LEMMA ElseOnce ==
    ASSUME OnceInv, UNCHANGED <<monitor, active, recent, meta>>, DashboardTypeOK',
           requests' \in Seq(Sound), presses' <= clicks', presses' = 0 => presses = 0
    PROVE  OnceInv'
<1>1. Ended' = Ended /\ Known' = Known
    BY DEF Ended, Known, In
<1>2. requests' \in Seq(Sound')
    <2>1. Sound \subseteq Sound'
        BY <1>1, StaySound
    <2> QED
        BY <2>1, WiderCalls
<1>3. (recent = Records(meta))' /\ (Distinct(meta))' /\ ToSet(meta') \subseteq Ended'
    BY <1>1 DEF OnceInv, Records, Distinct
<1> QED
    BY <1>1, <1>2, <1>3 DEF OnceInv

LEMMA DashboardOnce ==
    ASSUME OnceInv, DashboardLoopInv, DashboardNext
    PROVE  OnceInv'
<1>1. /\ DashboardTypeOK /\ requests \in Seq(Sound) /\ presses <= clicks
      /\ clicks \in Nat /\ presses \in Nat /\ MaxClicks \in Nat
    BY DashboardAssumption DEF OnceInv, DashboardTypeOK
<1>2. Append(requests, Unserved) \in Seq(Sound)
    BY <1>1, UnservedSound, AddedCall
<1>3. Append(requests, Unserved) \in Seq(Answers)
    BY <1>2, WiderCalls DEF Sound
<1>4. ASSUME NEW i \in DOMAIN requests
      PROVE  RemoveAt(requests, i) \in Seq(Sound) /\ RemoveAt(requests, i) \in Seq(Answers)
    <2>1. RemoveAt(requests, i) \in Seq(Sound)
        BY <1>1, RemovedCall
    <2> QED
        BY <2>1, WiderCalls DEF Sound
<1>5. ASSUME NEW s \in Syncs, GrowOld(s) PROVE OnceInv'
    <2>1. DashboardTypeOK'
        BY <1>1, <1>5 DEF GrowOld, DashboardTypeOK
    <2> QED
        BY <1>1, <1>5, <2>1, ElseOnce DEF GrowOld
<1>6. CASE ServeRequest
    BY <1>6, ServedOnce DEF ServeRequest
<1>7. CASE Populate
    BY <1>7, PopulateOnce DEF Populate
<1>8. CASE RefreshFires
    <2>1. /\ requests' = Append(requests, Unserved)
          /\ UNCHANGED <<monitor, active, recent, old, shown, meta, clicks, presses, failed>>
        BY <1>8 DEF RefreshFires, RefreshDashboard, gridVars
    <2>2. (timers > 0 /\ timers' = timers - 1) \/ timers' = timers
        BY <1>8, Zenon DEF RefreshFires
    <2>3. timers' \in Nat
        BY <1>1, <2>2 DEF DashboardTypeOK
    <2>4. refreshTimeout' \in BOOLEAN
        BY <1>1, <1>8, Zenon DEF RefreshFires, DashboardTypeOK
    <2>5. DashboardTypeOK'
        BY <1>1, <1>3, <2>1, <2>3, <2>4 DEF DashboardTypeOK
    <2> QED
        BY <1>1, <1>2, <2>1, <2>5, ElseOnce
<1>9. ASSUME NEW i \in DOMAIN requests, RequestFails(i) PROVE OnceInv'
    <2>1. /\ requests' = RemoveAt(requests, i)
          /\ refreshTimeout' = FALSE /\ failed' = TRUE
          /\ UNCHANGED <<monitor, timers, active, recent, old, shown, meta, clicks, presses>>
        BY <1>9 DEF RequestFails, gridVars
    <2>2. DashboardTypeOK'
        BY <1>1, <1>4, <2>1 DEF DashboardTypeOK
    <2> QED
        BY <1>1, <1>4, <2>1, <2>2, ElseOnce
<1>10. CASE PressRefresh
    <2>1. /\ requests' = Append(requests, Unserved)
          /\ clicks < MaxClicks /\ clicks' = clicks + 1
          /\ presses' = IF requests = <<>> THEN presses ELSE presses + 1
          /\ refreshTimeout' = FALSE
          /\ UNCHANGED <<monitor, timers, active, recent, old, shown, meta, failed>>
        BY <1>10 DEF PressRefresh, RefreshDashboard, gridVars
    <2>2. clicks' \in 0..MaxClicks /\ presses' \in 0..MaxClicks /\ presses' <= clicks'
          /\ (presses' = 0 => presses = 0)
        BY <1>1, <2>1
    <2>3. DashboardTypeOK'
        BY <1>1, <1>3, <2>1, <2>2 DEF DashboardTypeOK
    <2> QED
        BY <1>2, <2>1, <2>2, <2>3, ElseOnce
<1>11. CASE RemoveOldEntries
    <2>1. DashboardTypeOK'
        BY <1>1, <1>11 DEF RemoveOldEntries, DashboardTypeOK, Shown
    <2> QED
        BY <1>1, <1>11, <2>1, ElseOnce DEF RemoveOldEntries
<1>12. CASE LengthenAgeOut
    <2>1. DashboardTypeOK'
        BY <1>1, <1>12 DEF LengthenAgeOut, DashboardTypeOK
    <2> QED
        BY <1>1, <1>12, <2>1, ElseOnce DEF LengthenAgeOut
<1> QED
    BY <1>5, <1>6, <1>7, <1>8, <1>9, <1>10, <1>11, <1>12 DEF DashboardNext

LEMMA OnceStep == LoopInv /\ OnceInv /\ [Next]_vars => OnceInv'
<1> SUFFICES ASSUME LoopInv, OnceInv, [Next]_vars PROVE OnceInv'
    OBVIOUS
<1>1. ASSUME UNCHANGED <<dashboardVars, clicks>> PROVE OnceInv'
    <2>1. UNCHANGED <<monitor, requests, timers, refreshTimeout, active, recent, old, shown,
                      meta, presses, failed, clicks>>
        BY <1>1 DEF dashboardVars
    <2>2. DashboardTypeOK'
        BY <2>1 DEF OnceInv, DashboardTypeOK
    <2> QED
        BY <2>1, <2>2, ElseOnce DEF OnceInv
<1>2. CASE MonitorSteps
    BY <1>2, MonitorOnce DEF MonitorSteps
<1>3. CASE DashboardSteps
    BY <1>3, DashboardOnce DEF DashboardSteps, LoopInv
<1>4. CASE PanelSteps
    BY <1>1, <1>4 DEF PanelSteps
<1>5. CASE UNCHANGED vars
    BY <1>1, <1>5 DEF vars
<1> QED
    BY <1>2, <1>3, <1>4, <1>5 DEF Next

LEMMA OnceImpliesEach == OnceInv => EachOnce
<1> SUFFICES ASSUME OnceInv PROVE EachOnce
    OBVIOUS
<1>1. meta \in Seq(Syncs) /\ active \subseteq Syncs
    BY DEF OnceInv, DashboardTypeOK
<1>2. \A s \in Syncs : recent[s] = IF Contains(meta, s) THEN 1 ELSE 0
    BY <1>1, Members DEF OnceInv, Records
<1>3. presses = 0 => \A s \in active : recent[s] = 0
    BY <1>1 DEF OnceInv, Records
<1> QED
    BY <1>2, <1>3 DEF OnceInv, Distinct, EachOnce

LEMMA AlwaysOnce == Spec => [](LoopInv /\ OnceInv)
BY LoopInit, OnceInit, LoopStep, OnceStep, PTL DEF Spec

\* The recent store has one record of each synchronization the dashboard has accounted for
\* and none of another, however answers, prunings and refreshes interleave, for any number
\* of synchronizations; and a synchronization that was recorded is not shown as active again
\* unless Refresh was pressed during a call (Dashboard.handleSyncResponse,
\* pruneRecentGrids, refreshDashboard).
THEOREM RecordedOnce == Spec => []EachOnce
BY AlwaysOnce, OnceImpliesEach, PTL

\* When an answer has been handled, the recent grid shows no more rows than the preference
\* allows, whatever was accounted for before and however old it is: what is pruned is found
\* in the store, and enough of it (Dashboard.pruneRecentGrids, maximumRecentEntries).
THEOREM ShowsNoMore ==
    Spec => [][OnDashboard(Populate) => Cardinality(shown') <= MaximumEntries]_vars
<1>1. OnceInv /\ OnDashboard(Populate) => Cardinality(shown') <= MaximumEntries
    BY AnswerRecorded DEF OnDashboard, Populate, PopulateDashboard
<1>2. OnceInv /\ [Next]_vars
        => [OnDashboard(Populate) => Cardinality(shown') <= MaximumEntries]_vars
    BY <1>1
<1> QED
    BY <1>2, AlwaysOnce, PTL DEF Spec

-----------------------------------------------------------------------------
(* The values of the panel's state                                               *)

\* The tab is left no more often than tabs change.
PanelInv == Panel!PanelTypeOK /\ leaps <= changes

LEMMA PanelInvInit == Init => PanelInv
<1> SUFFICES ASSUME Init PROVE PanelInv
    OBVIOUS
<1>1. tab = "shown" /\ pending = <<Sent>> /\ rendered = Unknown
    BY DEF Init, Panel!PanelInit
<1>2. timeout \in BOOLEAN /\ broken \in BOOLEAN
    BY Zenon DEF Init, Panel!PanelInit
<1>3. changes = 0 /\ leaps = 0 /\ panelTimers = 0
    BY DEF Init, Panel!PanelInit
<1>4. pending \in Seq(BOOLEAN \cup {Sent})
    BY <1>1
<1>5. changes \in 0..MaxChanges /\ leaps \in 0..MaxChanges /\ leaps <= changes
    BY <1>3, MonitoringAssumption
<1> QED
    BY <1>1, <1>2, <1>3, <1>4, <1>5 DEF PanelInv, Panel!PanelTypeOK

\* Only what a served call brought is rendered.
LEMMA PanelInvKept ==
    ASSUME PanelInv, Panel!PanelNext
    PROVE  PanelInv'
<1>1. /\ tab \in {"shown", "left", "closed"} /\ pending \in Seq(BOOLEAN \cup {Sent})
      /\ panelTimers \in Nat /\ timeout \in BOOLEAN /\ broken \in BOOLEAN
      /\ rendered \in BOOLEAN \cup {Unknown}
      /\ changes \in 0..MaxChanges /\ leaps \in 0..MaxChanges /\ leaps <= changes
      /\ MaxChanges \in Nat
    BY MonitoringAssumption DEF PanelInv, Panel!PanelTypeOK
<1>2. Append(pending, Sent) \in Seq(BOOLEAN \cup {Sent})
    <2>1. Sent \in BOOLEAN \cup {Sent}
        OBVIOUS
    <2> QED
        BY <1>1, <2>1, AddedCall
<1>3. ASSUME NEW i \in DOMAIN pending
      PROVE  /\ RemoveAt(pending, i) \in Seq(BOOLEAN \cup {Sent})
             /\ pending[i] \in BOOLEAN \cup {Sent}
    BY <1>1, RemovedCall, ElementOfSeq, LenProperties
<1>4. ASSUME Panel!ChangeTab,
             tab' \in {"shown", "left", "closed"},
             timeout' = FALSE \/ timeout' = timeout,
             leaps' = leaps \/ leaps' = leaps + 1,
             pending' \in Seq(BOOLEAN \cup {Sent})
      PROVE  PanelInv'
    <2>1. /\ changes < MaxChanges /\ changes' = changes + 1
          /\ panelTimers' = panelTimers /\ rendered' = rendered /\ broken' = broken
        BY <1>4 DEF Panel!ChangeTab
    <2>2. changes' \in 0..MaxChanges /\ leaps' \in 0..MaxChanges /\ leaps' <= changes'
        BY <1>1, <1>4, <2>1
    <2>3. timeout' \in BOOLEAN
        BY <1>1, <1>4, Zenon
    <2> QED
        BY <1>1, <1>4, <2>1, <2>2, <2>3 DEF PanelInv, Panel!PanelTypeOK
<1>5. ASSUME UNCHANGED <<changes, tab, leaps>>,
             pending' \in Seq(BOOLEAN \cup {Sent}), panelTimers' \in Nat,
             timeout' \in BOOLEAN, broken' \in BOOLEAN, rendered' \in BOOLEAN \cup {Unknown}
      PROVE  PanelInv'
    BY <1>1, <1>5 DEF PanelInv, Panel!PanelTypeOK
<1>6. CASE Panel!Leave
    BY <1>1, <1>4, <1>6 DEF Panel!Leave, Panel!Leap
<1>7. CASE Panel!Return
    BY <1>1, <1>2, <1>4, <1>7, Zenon DEF Panel!Return, Panel!DoLoad
<1>8. CASE Panel!TabChanged
    BY <1>1, <1>4, <1>8 DEF Panel!TabChanged
<1>9. CASE Panel!Close
    BY <1>1, <1>4, <1>9 DEF Panel!Close
<1>10. ASSUME NEW i \in DOMAIN pending, Panel!GetStatus(i) PROVE PanelInv'
    <2> DEFINE status == monitor[Watched] = "active"
    <2>1. /\ pending' = [pending EXCEPT ![i] = status]
          /\ UNCHANGED <<changes, tab, panelTimers, timeout, rendered, leaps, broken>>
        BY <1>10 DEF Panel!GetStatus
    <2>2. status \in BOOLEAN \cup {Sent}
        OBVIOUS
    <2> HIDE DEF status
    <2>3. pending' \in Seq(BOOLEAN \cup {Sent})
        BY <1>1, <2>1, <2>2, ServedCall
    <2> QED
        BY <1>1, <1>5, <2>1, <2>3
<1>11. ASSUME NEW i \in DOMAIN pending, Panel!DoRender(i) PROVE PanelInv'
    <2>1. /\ pending[i] # Sent /\ pending' = RemoveAt(pending, i) /\ rendered' = pending[i]
          /\ panelTimers' = IF timeout THEN panelTimers + 1 ELSE panelTimers
          /\ UNCHANGED <<changes, tab, leaps>>
        BY <1>11 DEF Panel!DoRender, Panel!RemoveAt, RemoveAt
    <2>2. timeout' \in BOOLEAN /\ broken' \in BOOLEAN
        BY <1>1, <1>11, Zenon DEF Panel!DoRender
    <2>3. rendered' \in BOOLEAN \cup {Unknown}
        BY <1>3, <2>1
    <2>4. panelTimers' \in Nat
        BY <1>1, <2>1
    <2> QED
        BY <1>3, <1>5, <2>1, <2>2, <2>3, <2>4
<1>12. ASSUME NEW i \in DOMAIN pending, Panel!StatusFails(i) PROVE PanelInv'
    <2>1. /\ pending' = RemoveAt(pending, i)
          /\ UNCHANGED <<changes, tab, panelTimers, timeout, rendered, leaps>>
        BY <1>12 DEF Panel!StatusFails, Panel!RemoveAt, RemoveAt
    <2>2. broken' \in BOOLEAN
        BY <1>12, Zenon DEF Panel!StatusFails
    <2> QED
        BY <1>1, <1>3, <1>5, <2>1, <2>2
<1>13. CASE Panel!TimerFires
    <2>1. /\ pending' = Append(pending, Sent)
          /\ UNCHANGED <<changes, tab, rendered, leaps, broken>>
        BY <1>13 DEF Panel!TimerFires, Panel!DoLoad
    <2>2. (panelTimers > 0 /\ panelTimers' = panelTimers - 1) \/ panelTimers' = panelTimers
        BY <1>13, Zenon DEF Panel!TimerFires
    <2>3. panelTimers' \in Nat
        BY <1>1, <2>2
    <2>4. timeout' \in BOOLEAN
        BY <1>1, <1>13, Zenon DEF Panel!TimerFires
    <2> QED
        BY <1>1, <1>2, <1>5, <2>1, <2>3, <2>4
<1> QED
    BY <1>6, <1>7, <1>8, <1>9, <1>10, <1>11, <1>12, <1>13
    DEF Panel!PanelNext, Panel!ServeStatus, Panel!RenderStatus

LEMMA PanelInvStep == PanelInv /\ [Next]_vars => PanelInv'
<1> SUFFICES ASSUME PanelInv, [Next]_vars PROVE PanelInv'
    OBVIOUS
<1>1. (UNCHANGED panelVars) => PanelInv'
    BY DEF PanelInv, Panel!PanelTypeOK, panelVars
<1>2. CASE MonitorSteps \/ DashboardSteps
    BY <1>1, <1>2 DEF MonitorSteps, DashboardSteps
<1>3. CASE PanelSteps
    BY <1>3, PanelInvKept DEF PanelSteps
<1>4. CASE UNCHANGED vars
    BY <1>1, <1>4 DEF vars
<1> QED
    BY <1>2, <1>3, <1>4 DEF Next

LEMMA OneView == Spec => [](view \in {"dashboard", "panel"})
<1>1. Init => view \in {"dashboard", "panel"}
    BY DEF Init
<1>2. view \in {"dashboard", "panel"} /\ [Next]_vars => (view \in {"dashboard", "panel"})'
    BY DEF Next, MonitorSteps, DashboardSteps, PanelSteps, vars
<1> QED
    BY <1>1, <1>2, PTL DEF Spec

\* Whatever the number of synchronizations, presses and tab changes, the state keeps to its
\* values: what is rendered is what the server said, and the store counts no record below
\* zero (Dashboard, BaseStatusPanel).
THEOREM MonitoringTypes == Spec => []TypeOK
<1>1. OnceInv /\ PanelInv /\ view \in {"dashboard", "panel"} => TypeOK
    BY DEF OnceInv, PanelInv, TypeOK
<1> QED
    BY <1>1, AlwaysOnce, PanelInvInit, PanelInvStep, OneView, PTL DEF Spec
=============================================================================
