------------------------ MODULE TransferServiceProofs ------------------------
(* Proofs of the safety properties of TransferService, for any number of         *)
(* requesters, runs and permits.                                                 *)
EXTENDS TransferServiceProperties, FiniteSetTheorems, TLAPS

\* Who the callers are.
LEMMA CallerParts ==
  /\ Workers \subseteq Callers
  /\ \A c \in Callers : c[1] \in 1..Runs
  /\ \A c \in Callers \ Workers : c = Driver(c[1])
  /\ \A n \in 1..Runs : /\ Driver(n) \in Callers \ Workers
                        /\ Driver(n)[1] = n
                        /\ \A c \in Callers : c \in WorkersOf(n) <=> c \in Workers /\ c[1] = n
                        /\ WorkersOf(n) \subseteq Workers
  BY SchedulerAssumption DEF Callers, Workers, WorkersOf, Driver

\* There are finitely many of them.
LEMMA CallersFinite == \A S \in SUBSET Callers : IsFiniteSet(S) /\ Cardinality(S) \in Nat
<1>1. IsFiniteSet(Requesters \cup {Scheduler})
  BY FS_AddElement, RequestersAssumption
<1>2. IsFiniteSet(1..Runs)
  <2>1. 1 \in Int /\ Runs \in Int
    BY RunsAssumption
  <2> QED
    BY <2>1, FS_Interval
<1>3. IsFiniteSet(Callers)
  BY <1>1, <1>2, FS_Product DEF Callers
<1> QED
  BY <1>3, FS_Subset, FS_CardinalityType

\* A run is in progress only once it has been counted.
TypeInv == TypeOK /\ (phase # "idle" => run # 0)

\* A caller sees a session.
LEMMA SeenSession == TypeOK => \A c \in Callers : MaySeeSession(c) \subseteq Sessions
  BY CallerParts DEF TypeOK, MaySeeSession, Sessions

\* Every step keeps the variables in their types (TransferServiceImpl).
LEMMA TypeStep == TypeInv /\ [Next]_vars => TypeInv'
<1> SUFFICES ASSUME TypeInv, [Next]_vars PROVE TypeInv'
  OBVIOUS
<1> USE RunsAssumption, LimitAssumption, NoSessionAssumption
        DEF runVars, serviceVars, taskVars, TypeInv, TypeOK
<1>1. CASE Schedule
  <2>1. CASE Start
    <3>1. run + 1 \in 1..Runs
      BY <2>1 DEF Start
    <3> QED
      BY <2>1, <3>1, CallerParts DEF Start, Sessions
  <2>2. CASE StartFails
    <3>1. run + 1 \in 1..Runs
      BY <2>2 DEF StartFails
    <3> QED
      BY <2>2, <3>1 DEF StartFails, Sessions
  <2>3. CASE StartWorkers
    BY <2>3 DEF StartWorkers
  <2>4. CASE GiveUp
    BY <2>4 DEF GiveUp
  <2>5. CASE RunEnds
    BY <2>5 DEF RunEnds
  <2>6. CASE RunInterrupted
    <3>1. run \in 1..Runs
      BY <2>6 DEF RunInterrupted
    <3> QED
      BY <2>6, <3>1, CallerParts DEF RunInterrupted
  <2>7. CASE StopAcquires
    BY <2>7 DEF StopAcquires
  <2>8. CASE SendStop
    BY <2>8 DEF SendStop
  <2>9. CASE StopReleases
    BY <2>9 DEF StopReleases
  <2>10. CASE ForgetSession
    BY <2>10 DEF ForgetSession, Sessions
  <2> QED
    BY <1>1, <2>1, <2>2, <2>3, <2>4, <2>5, <2>6, <2>7, <2>8, <2>9, <2>10 DEF Schedule
<1>2. CASE Cancel
  <2>1. run \in 1..Runs
    BY <1>2 DEF Cancel
  <2> QED
    BY <1>2, <2>1, CallerParts DEF Cancel
<1>3. ASSUME NEW c \in Callers, Process(c) PROVE TypeInv'
  <2>1. CASE Enter(c) \/ EnterStopped(c) \/ AcquireInterrupted(c) \/ Leave(c)
    BY <2>1 DEF Enter, EnterStopped, AcquireInterrupted, Leave, Goto
  <2>2. CASE Acquire(c)
    BY <2>2 DEF Acquire, Goto
  <2>3. CASE Submit(c)
    BY <2>3, SeenSession DEF Submit, Goto
  <2>4. CASE GetReturns(c)
    BY <2>4 DEF GetReturns, TaskOver, Release, Sessions
  <2>5. CASE GetThrows(c)
    BY <2>5 DEF GetThrows, TaskOver, Release, Die, Sessions
  <2> QED
    BY <1>3, <2>1, <2>2, <2>3, <2>4, <2>5 DEF Process
<1>4. ASSUME NEW c \in Callers, TaskEnds(c) PROVE TypeInv'
  BY <1>4 DEF TaskEnds, TaskOver, Sessions
<1>5. CASE Finished \/ UNCHANGED vars
  BY <1>5 DEF Finished, vars
<1> QED
  BY <1>1, <1>2, <1>3, <1>4, <1>5 DEF Next

\* A step of one caller ends it, or goes on where it already was.
LEMMA OthersStay ==
  ASSUME TypeOK, NEW c \in Callers, Process(c) \/ TaskEnds(c)
  PROVE  /\ UNCHANGED <<phase, run, isRunning, currSession, interrupted>>
         /\ \A d \in Callers \ {c} : pc'[d] = pc[d]
         /\ pc[c] = "off" => pc'[c] = "off"
         /\ \A d \in Callers \ {c} : /\ d \in active' <=> d \in active
                                     /\ d \in holders' <=> d \in holders
                                     /\ session'[d] = session[d]
<1> USE DEF runVars, serviceVars, taskVars, TypeOK
<1>1. CASE Enter(c) \/ EnterStopped(c) \/ AcquireInterrupted(c) \/ Leave(c)
  BY <1>1 DEF Enter, EnterStopped, AcquireInterrupted, Leave, Goto
<1>2. CASE Acquire(c)
  BY <1>2 DEF Acquire, Goto
<1>3. CASE Submit(c)
  BY <1>3 DEF Submit, Goto
<1>4. CASE GetReturns(c)
  BY <1>4 DEF GetReturns, TaskOver, Release
<1>5. CASE GetThrows(c)
  BY <1>5 DEF GetThrows, TaskOver, Release, Die
<1>6. CASE TaskEnds(c)
  BY <1>6 DEF TaskEnds, TaskOver
<1> QED
  BY <1>1, <1>2, <1>3, <1>4, <1>5, <1>6 DEF Process

-----------------------------------------------------------------------------
(* Who may be where in which phase                                             *)

\* From start to stop the service has the session of its run, and it is running
\* until the stop message is sent.
ServiceInv ==
    /\ phase # "idle" => currSession = run
    /\ isRunning <=> phase \in {"retrieve", "run", "stop", "acquired"}

\* The steps of the scheduler's thread keep it; no other step touches the service.
LEMMA ServiceStep == TypeInv /\ ServiceInv /\ [Next]_vars => ServiceInv'
<1> SUFFICES ASSUME TypeInv, ServiceInv, [Next]_vars PROVE ServiceInv'
  OBVIOUS
<1> USE DEF runVars, serviceVars, taskVars, ServiceInv
<1>1. CASE Schedule
  BY <1>1 DEF Schedule, Start, StartFails, StartWorkers, GiveUp, RunEnds,
     RunInterrupted, StopAcquires, SendStop, StopReleases, ForgetSession, TypeInv,
     TypeOK
<1>2. CASE Cancel
  BY <1>2 DEF Cancel
<1>3. ASSUME NEW c \in Callers, Process(c) \/ TaskEnds(c) PROVE ServiceInv'
  BY <1>3, OthersStay DEF TypeInv
<1>4. CASE Finished \/ UNCHANGED vars
  BY <1>4 DEF Finished, vars
<1> QED
  BY <1>1, <1>2, <1>3, <1>4 DEF Next

\* Only threads of the runs so far are interrupted, those of the current run when
\* it has ended. A caller that is not interrupted works in its own run, the
\* scheduler's thread while it retrieves the inventory.
CallersInv ==
    /\ \A c \in interrupted :
        /\ c[1] <= run
        /\ c \in Workers /\ c[1] = run => phase \notin {"retrieve", "run"}
    /\ \A c \in Workers \ interrupted : pc[c] # "off" => phase = "run" /\ c[1] = run
    /\ \A c \in Callers \ Workers : pc[c] # "off" => phase = "retrieve" /\ c[1] = run

\* Every step keeps the callers in their places.
LEMMA CallersStep == TypeInv /\ CallersInv /\ [Next]_vars => CallersInv'
<1> SUFFICES ASSUME TypeInv, CallersInv, [Next]_vars PROVE CallersInv'
  OBVIOUS
<1> USE CallerParts DEF runVars, serviceVars, taskVars, TypeInv, TypeOK, CallersInv
<1>1. CASE Schedule
  <2>1. CASE Start
    <3>1. run + 1 \in 1..Runs
      BY <2>1, RunsAssumption DEF Start
    <3> QED
      BY <2>1, <3>1, RunsAssumption DEF Start
  <2>2. CASE StartFails
    BY <2>2, RunsAssumption DEF StartFails
  <2>3. CASE StartWorkers
    <3>1. run \in 1..Runs
      BY <2>3, RunsAssumption DEF StartWorkers
    <3> QED
      BY <2>3, <3>1 DEF StartWorkers
  <2>4. CASE GiveUp
    <3>1. run \in 1..Runs
      BY <2>4, RunsAssumption DEF GiveUp
    <3> QED
      BY <2>4, <3>1 DEF GiveUp
  <2>5. CASE RunEnds
    <3>1. run \in 1..Runs
      BY <2>5, RunsAssumption DEF RunEnds
    <3> QED
      BY <2>5, <3>1 DEF RunEnds
  <2>6. CASE RunInterrupted
    <3>1. run \in 1..Runs
      BY <2>6, RunsAssumption DEF RunInterrupted
    <3> QED
      BY <2>6, <3>1, RunsAssumption DEF RunInterrupted
  <2>7. CASE StopAcquires
    BY <2>7 DEF StopAcquires
  <2>8. CASE SendStop
    BY <2>8 DEF SendStop
  <2>9. CASE StopReleases
    BY <2>9 DEF StopReleases
  <2>10. CASE ForgetSession
    BY <2>10 DEF ForgetSession
  <2> QED
    BY <1>1, <2>1, <2>2, <2>3, <2>4, <2>5, <2>6, <2>7, <2>8, <2>9, <2>10 DEF Schedule
<1>2. CASE Cancel
  <2>1. run \in 1..Runs
    BY <1>2, RunsAssumption DEF Cancel
  <2> QED
    BY <1>2, <2>1, RunsAssumption DEF Cancel
<1>3. ASSUME NEW c \in Callers, Process(c) \/ TaskEnds(c) PROVE CallersInv'
  BY <1>3, OthersStay
<1>4. CASE Finished \/ UNCHANGED vars
  BY <1>4 DEF Finished, vars
<1> QED
  BY <1>1, <1>2, <1>3, <1>4 DEF Next

\* A caller that is not interrupted works in the run in progress.
LEMMA Current ==
  ASSUME TypeInv, ServiceInv, CallersInv,
         NEW c \in Callers \ interrupted, pc[c] # "off"
  PROVE  /\ phase \in {"retrieve", "run"}
         /\ c[1] = run
         /\ isRunning
         /\ currSession = run
         /\ MaySeeSession(c) = {run}
  BY CallerParts DEF ServiceInv, CallersInv, MaySeeSession, Cut

-----------------------------------------------------------------------------
(* Permits and transfers                                                       *)

\* A caller has a permit only between acquire and release. One that is not
\* interrupted has it all that time, and its transfer is active, in the session of
\* its run, exactly while it waits for it.
HoldersInv ==
    /\ \A c \in holders : pc[c] \in {"submit", "await"}
    /\ \A c \in Callers \ interrupted :
        /\ pc[c] \in {"submit", "await"} => c \in holders
        /\ pc[c] = "await" => session[c] = c[1]
        /\ c \in active <=> pc[c] = "await"

\* Every step keeps permits and transfers with their callers.
LEMMA HoldersStep ==
  TypeInv /\ ServiceInv /\ CallersInv /\ HoldersInv /\ [Next]_vars => HoldersInv'
<1> SUFFICES ASSUME TypeInv, ServiceInv, CallersInv, HoldersInv, [Next]_vars
             PROVE  HoldersInv'
  OBVIOUS
<1> USE DEF runVars, serviceVars, taskVars, TypeInv, TypeOK, HoldersInv
<1>1. CASE Schedule
  <2>1. CASE Start
    <3>1. run + 1 \in 1..Runs
      BY <2>1, RunsAssumption DEF Start
    <3>2. pc[Driver(run + 1)] = "off"
      BY <2>1, <3>1, CallerParts DEF Start, CallersInv
    <3> QED
      BY <2>1, <3>1, <3>2, CallerParts DEF Start
  <2>2. CASE StartWorkers
    <3>1. run \in 1..Runs
      BY <2>2, RunsAssumption DEF StartWorkers
    <3>2. \A c \in WorkersOf(run) : c \in Callers \ interrupted /\ pc[c] = "off"
      BY <2>2, <3>1, CallerParts DEF StartWorkers, CallersInv
    <3> QED
      BY <2>2, <3>2 DEF StartWorkers
  <2>3. CASE RunInterrupted
    BY <2>3 DEF RunInterrupted
  <2>4. CASE StartFails \/ GiveUp \/ RunEnds
    BY <2>4 DEF StartFails, GiveUp, RunEnds
  <2>5. CASE StopAcquires \/ SendStop \/ StopReleases \/ ForgetSession
    BY <2>5 DEF StopAcquires, SendStop, StopReleases, ForgetSession
  <2> QED
    BY <1>1, <2>1, <2>2, <2>3, <2>4, <2>5 DEF Schedule
<1>2. CASE Cancel
  BY <1>2 DEF Cancel
<1>3. ASSUME NEW c \in Callers, Process(c) PROVE HoldersInv'
  <2>1. CASE Enter(c) \/ EnterStopped(c) \/ AcquireInterrupted(c) \/ Leave(c)
    BY <2>1 DEF Enter, EnterStopped, AcquireInterrupted, Leave, Goto
  <2>2. CASE Acquire(c)
    BY <2>2 DEF Acquire, Goto
  <2>3. CASE Submit(c)
    <3>1. c \notin interrupted => MaySeeSession(c) = {c[1]}
      BY <2>3, Current DEF Submit, Goto
    <3> QED
      BY <2>3, <3>1 DEF Submit, Goto
  <2>4. CASE GetReturns(c)
    BY <2>4 DEF GetReturns, TaskOver, Release
  <2>5. CASE GetThrows(c)
    BY <2>5 DEF GetThrows, TaskOver, Release, Die
  <2> QED
    BY <1>3, <2>1, <2>2, <2>3, <2>4, <2>5 DEF Process
<1>4. ASSUME NEW c \in Callers, TaskEnds(c) PROVE HoldersInv'
  BY <1>4 DEF TaskEnds, TaskOver
<1>5. CASE Finished \/ UNCHANGED vars
  BY <1>5 DEF Finished, vars
<1> QED
  BY <1>1, <1>2, <1>3, <1>4, <1>5 DEF Next

\* The interrupted callers that have left: each may have released a permit it had
\* not acquired.
Gone == {c \in interrupted : pc[c] = "off"}

\* Between two runs the permits are all there, or more.
PermitsInv ==
    /\ phase \in {"released", "idle"} => permits >= Limit
    /\ permits + Taken >= Limit
    /\ permits + Taken <= Limit + Cardinality(Gone)

\* A set of callers that grows by a caller or loses one.
LEMMA Counted ==
  ASSUME NEW S \in SUBSET Callers, NEW c \in Callers
  PROVE  /\ Cardinality(S \cup {c}) = IF c \in S THEN Cardinality(S) ELSE Cardinality(S) + 1
         /\ Cardinality(S \ {c}) = IF c \in S THEN Cardinality(S) - 1 ELSE Cardinality(S)
  BY CallersFinite, FS_AddElement, FS_RemoveElement

\* Who has left stays away, as long as the interrupts stay and no caller comes back.
LEMMA GoneGrows ==
  ASSUME TypeOK, TypeOK', interrupted \subseteq interrupted',
         \A c \in interrupted : pc[c] = "off" => pc'[c] = "off"
  PROVE  /\ Gone \subseteq Gone'
         /\ Cardinality(Gone) <= Cardinality(Gone')
         /\ Cardinality(Gone) \in Nat /\ Cardinality(Gone') \in Nat
<1>1. Gone \in SUBSET Callers /\ Gone' \in SUBSET Callers /\ Gone \in SUBSET Gone'
  BY DEF Gone, TypeOK
<1> QED
  BY <1>1, CallersFinite, FS_Subset

\* Every step keeps account of the permits: one that gives back a permit that was
\* not taken is the last of an interrupted caller, and one that loses a permit comes
\* when they are all there (TransferServiceImpl.process).
LEMMA PermitsStep ==
  /\ TypeInv /\ ServiceInv /\ CallersInv /\ HoldersInv /\ PermitsInv
  /\ [Next]_vars
  => PermitsInv'
<1> SUFFICES ASSUME TypeInv, ServiceInv, CallersInv, HoldersInv, PermitsInv,
                    [Next]_vars
             PROVE  PermitsInv'
  OBVIOUS
<1> USE LimitAssumption DEF runVars, serviceVars, taskVars, PermitsInv, Taken
<1>0. TypeOK /\ TypeOK'
  BY TypeStep DEF TypeInv
<1>a. /\ permits \in Nat /\ permits' \in Nat
      /\ Cardinality(holders) \in Nat /\ Cardinality(holders') \in Nat
      /\ Cardinality(Gone) \in Nat /\ Cardinality(Gone') \in Nat
  BY <1>0, CallersFinite DEF TypeOK, Gone
<1>1. CASE Schedule
  <2>1. \A c \in interrupted : pc[c] = "off" => pc'[c] = "off"
    <3>1. CASE Start
      <4>1. run + 1 \in 1..Runs
        BY <3>1, <1>0, RunsAssumption DEF Start, TypeOK
      <4>2. Driver(run + 1) \notin interrupted
        BY <4>1, <1>0, CallerParts, RunsAssumption DEF CallersInv, TypeOK
      <4> QED
        BY <3>1, <4>1, <4>2, <1>0 DEF Start, TypeOK
    <3>2. CASE StartWorkers
      <4>1. run \in 1..Runs
        BY <3>2, <1>0, RunsAssumption DEF StartWorkers, TypeOK, TypeInv
      <4>2. \A c \in WorkersOf(run) : c \notin interrupted
        BY <3>2, <4>1, CallerParts DEF StartWorkers, CallersInv
      <4> QED
        BY <3>2, <4>2, <1>0 DEF StartWorkers, TypeOK
    <3> QED
      BY <1>1, <3>1, <3>2 DEF Schedule, StartFails, GiveUp, RunEnds, RunInterrupted,
         StopAcquires, SendStop, StopReleases, ForgetSession
  <2>2. interrupted \subseteq interrupted'
    BY <1>1 DEF Schedule, Start, StartFails, StartWorkers, GiveUp, RunEnds,
       RunInterrupted, StopAcquires, SendStop, StopReleases, ForgetSession
  <2>3. Cardinality(Gone) <= Cardinality(Gone')
    BY <1>0, <2>1, <2>2, GoneGrows
  <2>4. CASE Start \/ StartFails \/ StartWorkers \/ GiveUp \/ RunEnds \/ RunInterrupted
    BY <1>a, <2>3, <2>4 DEF Start, StartFails, StartWorkers, GiveUp, RunEnds,
       RunInterrupted
  <2>5. CASE StopAcquires
    BY <1>a, <2>3, <2>5 DEF StopAcquires
  <2>6. CASE SendStop
    BY <1>a, <2>3, <2>6 DEF SendStop
  <2>7. CASE StopReleases
    BY <1>a, <2>3, <2>7 DEF StopReleases
  <2>8. CASE ForgetSession
    BY <1>a, <2>3, <2>8 DEF ForgetSession
  <2> QED
    BY <1>1, <2>4, <2>5, <2>6, <2>7, <2>8 DEF Schedule
<1>2. CASE Cancel
  <2>1. Cardinality(Gone) <= Cardinality(Gone')
    BY <1>0, <1>2, GoneGrows DEF Cancel
  <2> QED
    BY <1>a, <1>2, <2>1 DEF Cancel
<1>3. ASSUME NEW c \in Callers, Process(c) \/ TaskEnds(c) PROVE PermitsInv'
  <2>1. /\ UNCHANGED <<phase, interrupted>>
        /\ \A d \in Callers : pc[d] = "off" => pc'[d] = "off"
    BY <1>0, <1>3, OthersStay
  <2>2. Cardinality(Gone) <= Cardinality(Gone')
    BY <1>0, <2>1, GoneGrows DEF TypeOK
  <2>3. CASE UNCHANGED <<permits, holders>>
    BY <1>a, <2>1, <2>2, <2>3
  <2>4. CASE Acquire(c)
    <3>1. phase \notin {"released", "idle"} /\ c \notin holders
      BY <2>4, Current DEF Acquire, Goto, HoldersInv
    <3>2. Cardinality(holders') = Cardinality(holders) + 1
      BY <1>0, <2>4, <3>1, Counted DEF Acquire, TypeOK
    <3> QED
      BY <1>a, <2>1, <2>2, <2>4, <3>1, <3>2 DEF Acquire
  <2>5. ASSUME pc[c] = "await", Release(c), holders' = holders \ {c} PROVE PermitsInv'
    <3>1. permits' = permits + 1
      BY <2>5 DEF Release
    <3>2. CASE c \in holders
      <4>1. Cardinality(holders') = Cardinality(holders) - 1
        BY <1>0, <2>5, <3>2, Counted DEF TypeOK
      <4> QED
        BY <1>a, <2>1, <2>2, <3>1, <4>1
    <3>3. CASE c \notin holders
      <4>1. c \in interrupted
        BY <2>5, <3>3 DEF HoldersInv
      <4>2. c \notin Gone /\ c \in Gone'
        BY <1>0, <2>1, <2>5, <4>1 DEF Gone, Release, TypeOK
      <4>3. Gone \in SUBSET Gone' \ {c}
        BY <1>0, <2>1, <4>2 DEF Gone, TypeOK
      <4>4. Gone' \in SUBSET Callers /\ Gone' \ {c} \in SUBSET Callers
        BY <1>0 DEF Gone, TypeOK
      <4>5. Cardinality(Gone) <= Cardinality(Gone' \ {c})
        BY <4>3, <4>4, CallersFinite, FS_Subset
      <4>6. Cardinality(Gone' \ {c}) = Cardinality(Gone') - 1
        BY <4>2, <4>4, Counted
      <4>7. holders' = holders
        BY <2>5, <3>3
      <4> QED
        BY <1>a, <2>1, <3>1, <4>5, <4>6, <4>7
    <3> QED
      BY <3>2, <3>3
  <2>6. ASSUME GetThrows(c), Die(c) , holders' = holders \ {c}, permits' = permits,
               NoSession \in MaySeeSession(c)
        PROVE  PermitsInv'
    <3>1. /\ Cardinality(holders') \in {Cardinality(holders), Cardinality(holders) - 1}
      BY <1>0, <2>6, Counted DEF TypeOK
    <3>2. currSession = NoSession
      BY <2>6, CallerParts, NoSessionAssumption, RunsAssumption DEF MaySeeSession
    <3>3. phase = "idle"
      BY <1>0, <3>2, NoSessionAssumption DEF ServiceInv, TypeOK
    <3> QED
      BY <1>a, <2>1, <2>2, <2>6, <3>1, <3>3
  <2> QED
    BY <1>3, <2>3, <2>4, <2>5, <2>6 DEF Process, Enter, EnterStopped,
       AcquireInterrupted, Submit, GetReturns, GetThrows, Leave, Die, TaskEnds
<1>4. CASE Finished \/ UNCHANGED vars
  BY <1>4 DEF Finished, vars, Gone
<1> QED
  BY <1>1, <1>2, <1>3, <1>4 DEF Next

-----------------------------------------------------------------------------
(* The theorems                                                                *)

IInv == TypeInv /\ ServiceInv /\ CallersInv /\ HoldersInv /\ PermitsInv

\* It holds before the first run.
LEMMA InitInv == Init => IInv
<1> SUFFICES ASSUME Init PROVE IInv
  OBVIOUS
<1>1. TypeInv
  <2>1. run \in 0..Runs /\ permits \in Nat
    BY RunsAssumption, LimitAssumption DEF Init
  <2>2. /\ pc \in [Callers -> {"off", "idle", "acquire", "submit", "await"}]
        /\ session \in [Callers -> Sessions] /\ currSession \in Sessions
    BY DEF Init, Sessions
  <2> QED
    BY <2>1, <2>2 DEF Init, TypeInv, TypeOK
<1>2. ServiceInv /\ CallersInv /\ HoldersInv
  BY CallerParts DEF Init, ServiceInv, CallersInv, HoldersInv
<1>3. PermitsInv
  <2>1. Gone = {} /\ Cardinality({}) = 0
    BY FS_EmptySet DEF Init, Gone
  <2> QED
    BY <2>1, LimitAssumption DEF Init, PermitsInv, Taken
<1> QED
  BY <1>1, <1>2, <1>3 DEF IInv

\* Every step keeps it.
LEMMA StepInv == IInv /\ [Next]_vars => IInv'
  BY TypeStep, ServiceStep, CallersStep, HoldersStep, PermitsStep DEF IInv

\* The inductive invariant holds over any number of runs, requesters and permits.
THEOREM ServiceInvariance == Spec => []IInv
  BY InitInv, StepInv, PTL DEF Spec

\* The variables always have their types.
THEOREM ServiceTypes == Spec => []TypeOK
<1>1. IInv => TypeOK
  BY DEF IInv, TypeInv
<1> QED
  BY <1>1, ServiceInvariance, PTL

\* No permit is lost, and the limit on transfers is exceeded by no more than one for
\* each caller that was interrupted (TransferServiceImpl.process).
THEOREM PermitsAreAccounted == Spec => []PermitsAccounted
<1>1. IInv => PermitsAccounted
  <2> SUFFICES ASSUME IInv PROVE PermitsAccounted
    OBVIOUS
  <2>1. /\ interrupted \in SUBSET Callers /\ Gone \in SUBSET interrupted
        /\ permits \in Nat /\ holders \in SUBSET Callers
    BY DEF IInv, TypeInv, TypeOK, Gone
  <2>2. /\ Cardinality(Gone) <= Cardinality(interrupted)
        /\ Cardinality(Gone) \in Nat /\ Cardinality(interrupted) \in Nat
        /\ Cardinality(holders) \in Nat
    BY <2>1, CallersFinite, FS_Subset
  <2> QED
    BY <2>1, <2>2, LimitAssumption DEF IInv, PermitsInv, PermitsAccounted, Taken
<1> QED
  BY <1>1, ServiceInvariance, PTL

\* A transfer whose caller is not interrupted runs under a permit, in the session of
\* its own run, on a service that is up (TransferServiceImpl.stop).
THEOREM TransfersAreUndisturbed == Spec => []Undisturbed
<1>1. IInv => Undisturbed
  <2> SUFFICES ASSUME IInv, NEW c \in active \ interrupted
               PROVE  /\ c \in holders
                      /\ session[c] = c[1]
                      /\ isRunning
                      /\ currSession = c[1]
    BY DEF Undisturbed
  <2>1. c \in Callers \ interrupted /\ pc[c] = "await"
    BY DEF IInv, TypeInv, TypeOK, HoldersInv
  <2> QED
    BY <2>1, Current DEF IInv, HoldersInv
<1> QED
  BY <1>1, ServiceInvariance, PTL

-----------------------------------------------------------------------------
(* Waiting for permits                                                         *)

\* stop waits for all the permits, or a caller that is not interrupted for one.
WaitsForPermits ==
    \/ phase = "stop" /\ permits < Limit
    \/ permits = 0 /\ \E c \in Callers \ interrupted : pc[c] = "acquire"

\* A step of somebody who does not wait brings permits nearer: a caller submits its
\* transfer or is given its outcome, or the scheduler's thread goes on in stop.
PermitsComeBack ==
    \/ \E c \in holders : pc[c] = "submit" \/ pc[c] = "await"
    \/ phase = "acquired" \/ phase = "stopped"

\* Nobody waits for a permit in vain: neither stop, which collects them all while
\* interrupted callers take none or give back too many, nor a caller behind it. Whoever
\* has the permits can go on, and waits for no permit itself
\* (TransferServiceImpl.process, stop, saturationLimit).
THEOREM NobodyWaitsInVain == Spec => [](WaitsForPermits => PermitsComeBack)
<1>1. IInv /\ WaitsForPermits => PermitsComeBack
  <2> SUFFICES ASSUME IInv, WaitsForPermits, phase \notin {"acquired", "stopped"}
               PROVE  \E c \in holders : pc[c] = "submit" \/ pc[c] = "await"
    BY DEF PermitsComeBack
  <2>1. permits \in Nat /\ Cardinality(holders) \in Nat
    BY CallersFinite DEF IInv, TypeInv, TypeOK
  <2>2. permits + Cardinality(holders) >= Limit /\ permits < Limit
    BY <2>1, LimitAssumption DEF IInv, PermitsInv, Taken, WaitsForPermits
  <2>3. holders # {}
    BY <2>1, <2>2, LimitAssumption, FS_EmptySet
  <2> QED
    BY <2>3 DEF IInv, HoldersInv
<1> QED
  BY <1>1, ServiceInvariance, PTL
=============================================================================
