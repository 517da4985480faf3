---------------------- MODULE ContentSetManagementProofs ----------------------
(* The invariants of ContentSetManagement for any number of requests and restarts. *)
(* As long as no two requests overlap, the one in progress knows where the row,   *)
(* the map and the scheduler stand at each of its steps, or that a request before *)
(* it failed.                                                                    *)
EXTENDS ContentSetManagementProperties, FiniteSetTheorems, TLAPS

Agreed ==
    /\ registered # None <=> Exists
    /\ scheduled = IF row = "on" THEN {registered} ELSE {}

\* What a request in progress may rely on while it has the content set to itself.
Progress(r) ==
    /\ IF op[r] = "create" THEN row = "fresh" ELSE Exists
    /\ pc[r] \in {"called", "lookup", "get", "stop"} => failed \/ Agreed
    /\ pc[r] \in {"get", "stop", "drop"} => registered # None
    /\ pc[r] = "stop" => target[r] = registered
    /\ pc[r] \in {"drop", "put", "start"} => scheduled = {}
    /\ pc[r] = "put" => registered = None
    /\ pc[r] \in {"put", "start"} => op[r] # "remove"
    /\ pc[r] = "start" => registered = r /\ to[r] = "on"
    /\ pc[r] = "commit" =>
        /\ registered = None <=> op[r] = "remove"
        /\ scheduled = IF op[r] # "remove" /\ to[r] = "on" THEN {registered} ELSE {}

OneAtATime == \A q, r \in Requests : Handled(q) /\ Handled(r) => q = r

Alone ==
    /\ OneAtATime
    /\ Idle => failed \/ Agreed
    /\ \A r \in Requests : Handled(r) => Progress(r)
    /\ scheduled \subseteq {registered}

Inv ==
    /\ TypeOK
    /\ running \ scheduled \subseteq interrupted
    /\ apart => Alone

-----------------------------------------------------------------------------
(* Types                                                                        *)

LEMMA RegisteredType == Registered \in Schedulers \cup {None}
BY DEF Registered, Schedulers

LEMMA StartedType == Started \subseteq Schedulers
BY DEF Started, Schedulers

LEMMA TypeInit == Init => TypeOK
<1> SUFFICES ASSUME Init PROVE TypeOK
    OBVIOUS
<1>1. registered \in Schedulers \cup {None} /\ scheduled \subseteq Schedulers
    BY RegisteredType, StartedType DEF Init
<1>2. restarts \in 0..MaxRestarts
    BY BoundsAssumption DEF Init
<1> QED
    BY <1>1, <1>2 DEF Init, TypeOK, Operations

LEMMA GotoType ==
    ASSUME TypeOK, NEW r \in Requests, NEW from,
           NEW next \in {"lookup", "get", "stop", "drop", "put", "start", "commit", "done"},
           Goto(r, from, next)
    PROVE  /\ pc' \in [Requests -> {"new", "called", "lookup", "get", "stop", "drop", "put",
                                    "start", "commit", "done"}]
           /\ op' \in [Requests -> Operations]
           /\ to' \in [Requests -> {"on", "off"}]
BY DEF TypeOK, Goto, Operations

LEMMA TypeStep == TypeOK /\ [Next]_vars => TypeOK'
<1> SUFFICES ASSUME TypeOK, [Next]_vars PROVE TypeOK'
    OBVIOUS
<1>1. ASSUME NEW r \in Requests, Arrive(r) PROVE TypeOK'
    BY <1>1 DEF TypeOK, Arrive, scheduleVars, Operations
<1>2. ASSUME NEW r \in Requests, NotFound(r) PROVE TypeOK'
    BY <1>2, GotoType DEF TypeOK, NotFound, scheduleVars
<1>3. ASSUME NEW r \in Requests, Call(r) PROVE TypeOK'
    BY <1>3, GotoType DEF TypeOK, Call, Save, Switch, Remove, scheduleVars
<1>4. ASSUME NEW r \in Requests, Lookup(r) PROVE TypeOK'
    BY <1>4, GotoType DEF TypeOK, Lookup, AfterUnregister, scheduleVars
<1>5. ASSUME NEW r \in Requests, GetScheduler(r) PROVE TypeOK'
    BY <1>5, GotoType DEF TypeOK, GetScheduler, scheduleVars
<1>6. ASSUME NEW r \in Requests, Stop(r) PROVE TypeOK'
    BY <1>6, GotoType DEF TypeOK, Stop
<1>7. ASSUME NEW r \in Requests, RemoveFromMap(r) PROVE TypeOK'
    BY <1>7, GotoType DEF TypeOK, RemoveFromMap, AfterUnregister
<1>8. ASSUME NEW r \in Requests, Put(r) PROVE TypeOK'
    BY <1>8, GotoType DEF TypeOK, Put, Schedulers
<1>9. ASSUME NEW r \in Requests, Start(r) PROVE TypeOK'
    BY <1>9, GotoType DEF TypeOK, Start
<1>10. ASSUME NEW r \in Requests, Commit(r) PROVE TypeOK'
    BY <1>10, GotoType DEF TypeOK, Commit, scheduleVars, Exists
<1>16. ASSUME NEW r \in Requests, Fails(r) PROVE TypeOK'
    BY <1>16, GotoType DEF TypeOK, Fails, scheduleVars
<1>11. ASSUME NEW s \in Schedulers, RunStarts(s) PROVE TypeOK'
    BY <1>11 DEF TypeOK, RunStarts, requestVars
<1>12. ASSUME NEW s \in Schedulers, RunEnds(s) PROVE TypeOK'
    BY <1>12 DEF TypeOK, RunEnds, requestVars
<1>13. ASSUME NEW s \in Schedulers, RunThrows(s) PROVE TypeOK'
    BY <1>13 DEF TypeOK, RunThrows, requestVars
<1>14. CASE Restart
    <2>1. registered' \in Schedulers \cup {None} /\ scheduled' \subseteq Schedulers
        BY <1>14, RegisteredType, StartedType DEF Restart
    <2>2. restarts' \in 0..MaxRestarts
        BY <1>14, BoundsAssumption DEF Restart, TypeOK
    <2> QED
        BY <1>14, <2>1, <2>2 DEF Restart, TypeOK, Operations
<1>15. CASE UNCHANGED vars
    BY <1>15 DEF TypeOK, vars
<1> QED
    BY <1>1, <1>2, <1>3, <1>4, <1>5, <1>6, <1>7, <1>8, <1>9, <1>10, <1>11, <1>12,
       <1>13, <1>14, <1>15, <1>16 DEF Next, Step

\* Every variable keeps its type, for any number of requests and restarts.
THEOREM ManagementTypes == Spec => []TypeOK
BY TypeInit, TypeStep, PTL DEF Spec

-----------------------------------------------------------------------------
(* The request that is alone                                                    *)

\* The only request in progress takes a step and stays in progress, or ends.
LEMMA Lift ==
    ASSUME TypeOK, TypeOK', Alone, NEW r \in Requests, Handled(r), pc'[r] # "new",
           \A q \in Requests \ {r} : pc'[q] = pc[q],
           Handled(r)' => Progress(r)',
           ~Handled(r)' => failed' \/ Agreed',
           scheduled' \subseteq {registered'}
    PROVE  Alone'
<1>1. \A q \in Requests \ {r} : ~Handled(q)'
    BY DEF Alone, OneAtATime, Handled
<1>2. OneAtATime'
    BY <1>1 DEF OneAtATime
<1>3. Idle' => failed' \/ Agreed'
    BY DEF Idle, InProgress
<1>4. \A q \in Requests : Handled(q)' => Progress(q)'
    BY <1>1
<1> QED
    BY <1>2, <1>3, <1>4 DEF Alone

\* A step of the executors, or one that stutters, leaves the requests alone.
LEMMA Undisturbed ==
    ASSUME Alone, UNCHANGED <<row, registered, scheduled, pc, op, to, target, failed>>
    PROVE  Alone'
BY DEF Alone, OneAtATime, Idle, InProgress, Handled, Progress, Agreed, Exists

LEMMA ArriveAlone ==
    ASSUME TypeOK, apart => Alone, NEW r \in Requests, Arrive(r), apart'
    PROVE  Alone'
<1>1. apart /\ Idle /\ Alone /\ (failed \/ Agreed)
    BY DEF Arrive, Alone
<1>2. \A q \in Requests : ~Handled(q)
    BY <1>1 DEF Idle, InProgress
<1>3. Handled(r)' /\ \A q \in Requests \ {r} : ~Handled(q)'
    BY <1>2 DEF Arrive, Handled, TypeOK
<1>4. Progress(r)'
    BY <1>1 DEF Arrive, Progress, Agreed, Exists, scheduleVars, TypeOK
<1>5. scheduled' \subseteq {registered'}
    BY <1>1 DEF Arrive, scheduleVars, Alone
<1> QED
    BY <1>3, <1>4, <1>5 DEF Alone, OneAtATime, Idle, InProgress

LEMMA NotFoundAlone ==
    ASSUME TypeOK, Alone, NEW r \in Requests, NotFound(r)
    PROVE  Alone'
<1>1. ~Handled(r) /\ ~Handled(r)'
    BY DEF NotFound, Goto, Handled, TypeOK
<1>2. \A q \in Requests \ {r} : pc'[q] = pc[q] /\ op'[q] = op[q] /\ to'[q] = to[q]
    BY DEF NotFound, Goto, TypeOK
<1>3. \A q \in Requests : Handled(q)' <=> Handled(q)
    BY <1>1, <1>2 DEF Handled
<1>4. failed' = failed /\ (Agreed' <=> Agreed)
    BY DEF NotFound, Agreed, Exists, scheduleVars
<1>5. ASSUME NEW q \in Requests, Handled(q)' PROVE Progress(q)'
    <2>1. q # r /\ Progress(q)
        BY <1>1, <1>3, <1>5 DEF Alone
    <2> QED
        BY <2>1, <1>2, <1>4 DEF Progress, NotFound, Exists, scheduleVars
<1> QED
    BY <1>3, <1>4, <1>5 DEF Alone, OneAtATime, Idle, InProgress, NotFound, scheduleVars

\* One request in progress, at each of its steps.
LEMMA StepAlone ==
    ASSUME TypeOK, TypeOK', Alone, NEW r \in Requests, Step(r)
    PROVE  Alone'
<1>1. Handled(r)
    BY DEF Step, Call, Save, Switch, Remove, Lookup, GetScheduler, Stop, RemoveFromMap,
           Put, Start, Commit, Fails, Goto, Handled
<1>2. Progress(r) /\ scheduled \subseteq {registered}
    BY <1>1 DEF Alone
<1>3. pc'[r] # "new" /\ \A q \in Requests \ {r} : pc'[q] = pc[q]
    BY DEF TypeOK, Step, Call, Save, Switch, Remove, Lookup, GetScheduler, Stop,
           RemoveFromMap, Put, Start, Commit, Fails, Goto, AfterUnregister
<1> SUFFICES /\ Handled(r)' => Progress(r)'
             /\ ~Handled(r)' => failed' \/ Agreed'
             /\ scheduled' \subseteq {registered'}
    BY <1>1, <1>3, Lift
<1>4. CASE Call(r)
    BY <1>2, <1>4 DEF Call, Save, Switch, Remove, Goto, Handled, Progress, Agreed, Exists,
                      TypeOK, scheduleVars
<1>5. CASE Lookup(r)
    <2>1. registered = None => scheduled = {}
        BY <1>2, NoneAssumption DEF TypeOK, Schedulers
    <2> QED
        BY <1>2, <1>5, <2>1 DEF Lookup, AfterUnregister, Goto, Handled, Progress, Agreed,
                                Exists, TypeOK, scheduleVars
<1>6. CASE GetScheduler(r)
    BY <1>2, <1>6 DEF GetScheduler, Goto, Handled, Progress, Agreed, Exists, TypeOK,
                      scheduleVars
<1>7. CASE Stop(r)
    BY <1>2, <1>7 DEF Stop, Goto, Handled, Progress, Agreed, Exists, TypeOK
<1>8. CASE RemoveFromMap(r)
    BY <1>2, <1>8 DEF RemoveFromMap, AfterUnregister, Goto, Handled, Progress, Agreed,
                      Exists, TypeOK
<1>9. CASE Put(r)
    BY <1>2, <1>9, NoneAssumption DEF Put, Goto, Handled, Progress, Agreed, Exists, TypeOK
<1>10. CASE Start(r)
    BY <1>2, <1>10, NoneAssumption DEF Start, Goto, Handled, Progress, Agreed, Exists, TypeOK
<1>11. CASE Commit(r)
    BY <1>2, <1>11 DEF Commit, Goto, Handled, Progress, Agreed, Exists, TypeOK, scheduleVars
<1>12. CASE Fails(r)
    BY <1>2, <1>12 DEF Fails, Goto, Handled, TypeOK, scheduleVars
<1> QED
    BY <1>4, <1>5, <1>6, <1>7, <1>8, <1>9, <1>10, <1>11, <1>12 DEF Step

-----------------------------------------------------------------------------
(* The invariant                                                                *)

\* A run without a future has been interrupted.
Orphans == running \ scheduled \subseteq interrupted

LEMMA OrphansStep == TypeOK /\ Orphans /\ [Next]_vars => Orphans'
<1> SUFFICES ASSUME TypeOK, Orphans, [Next]_vars PROVE Orphans'
    OBVIOUS
<1>1. ASSUME NEW r \in Requests, Arrive(r) \/ NotFound(r) \/ Step(r) PROVE Orphans'
    BY <1>1 DEF Orphans, Arrive, NotFound, Step, Call, Lookup, GetScheduler, Stop,
                RemoveFromMap, Put, Start, Commit, Fails, scheduleVars
<1>2. ASSUME NEW s \in Schedulers, RunStarts(s) \/ RunEnds(s) \/ RunThrows(s) PROVE Orphans'
    BY <1>2 DEF Orphans, RunStarts, RunEnds, RunThrows
<1>3. CASE Restart
    BY <1>3 DEF Orphans, Restart
<1>4. CASE UNCHANGED vars
    BY <1>4 DEF Orphans, vars
<1> QED
    BY <1>1, <1>2, <1>3, <1>4 DEF Next

\* initialize brings the manager into agreement with the database.
LEMMA StartAgrees ==
    ASSUME NEW r, NEW e, r = Registered, e = Started
    PROVE  /\ r # None <=> Exists
           /\ e = IF row = "on" THEN {r} ELSE {}
           /\ e \subseteq {r}
BY NoneAssumption DEF Registered, Started, Exists

LEMMA AloneInit == Init => Alone
<1> SUFFICES ASSUME Init PROVE Alone
    OBVIOUS
<1>1. \A r \in Requests : ~Handled(r)
    BY DEF Init, Handled
<1>2. Agreed /\ scheduled \subseteq {registered}
    BY StartAgrees DEF Init, Agreed
<1> QED
    BY <1>1, <1>2 DEF Alone, OneAtATime

LEMMA RestartAlone == Restart => Alone'
<1> SUFFICES ASSUME Restart PROVE Alone'
    OBVIOUS
<1>1. \A r \in Requests : ~Handled(r)'
    BY DEF Restart, Handled
<1>2. Agreed' /\ scheduled' \subseteq {registered'}
    BY StartAgrees DEF Restart, Agreed, Exists
<1> QED
    BY <1>1, <1>2 DEF Alone, OneAtATime

LEMMA InvInit == Init => Inv
BY TypeInit, AloneInit DEF Inv, Init

LEMMA InvStep == Inv /\ [Next]_vars => Inv'
<1> SUFFICES ASSUME Inv, [Next]_vars PROVE Inv'
    OBVIOUS
<1>1. TypeOK /\ TypeOK'
    BY TypeStep DEF Inv
<1>2. Orphans'
    BY OrphansStep DEF Inv, Orphans
<1> SUFFICES ASSUME apart' PROVE Alone'
    BY <1>1, <1>2 DEF Inv, Orphans
<1>3. ASSUME NEW r \in Requests, Arrive(r) PROVE Alone'
    BY <1>1, <1>3, ArriveAlone DEF Inv
<1>4. ASSUME NEW r \in Requests, NotFound(r) PROVE Alone'
    BY <1>1, <1>4, NotFoundAlone DEF Inv, NotFound
<1>5. ASSUME NEW r \in Requests, Step(r) PROVE Alone'
    <2>1. apart
        BY <1>5 DEF Step, Call, Lookup, GetScheduler, Stop, RemoveFromMap, Put, Start,
                    Commit, Fails
    <2> QED
        BY <1>1, <1>5, <2>1, StepAlone DEF Inv
<1>6. ASSUME NEW s \in Schedulers, RunStarts(s) \/ RunEnds(s) \/ RunThrows(s) PROVE Alone'
    BY <1>6, Undisturbed DEF Inv, RunStarts, RunEnds, RunThrows, requestVars
<1>7. CASE Restart
    BY <1>7, RestartAlone
<1>8. CASE UNCHANGED vars
    BY <1>8, Undisturbed DEF Inv, vars
<1> QED
    BY <1>3, <1>4, <1>5, <1>6, <1>7, <1>8 DEF Next

THEOREM Invariance == Spec => []Inv
BY InvInit, InvStep, PTL DEF Spec

LEMMA InvAgrees == Inv => Agreement
BY DEF Inv, Alone, Agreed, Agreement

LEMMA InvActive == Inv => OneActive
<1> SUFFICES ASSUME Inv, apart PROVE OneActive
    BY DEF OneActive
<1>1. scheduled \subseteq {registered} /\ running \ interrupted \subseteq {registered}
    BY DEF Inv, Alone
<1>2. IsFiniteSet({registered}) /\ Cardinality({registered}) = 1
    BY FS_Singleton
<1>3. Cardinality(running \ interrupted) <= 1
    BY <1>1, <1>2, FS_Subset
<1> QED
    BY <1>1, <1>3 DEF OneActive

\* The manager agrees with the database whenever the content set is at rest, unless
\* requests have overlapped since the process started or the last to reach the manager
\* failed, as after an error that makePersistent swallows (ContentServiceImpl).
THEOREM ManagerAgrees == Spec => []Agreement
BY Invariance, InvAgrees, PTL

\* No scheduler is out of reach, and no two runs go on that nobody interrupted, whatever
\* has failed, unless requests have overlapped since the process started
\* (ContentSetManager).
THEOREM AtMostOneActive == Spec => []OneActive
BY Invariance, InvActive, PTL
=============================================================================
