--------------------------- MODULE Synchronization ---------------------------
(* What a consumer synchronization promises to whoever reads its report, without *)
(* queues, threads or phases: every difference meets at most one fate, and the   *)
(* verdict, given once, describes what was done and stays true. Only a run that  *)
(* reports INTERRUPTED may go on changing content after it has reported.         *)
EXTENDS SynchronizationResult

CONSTANT Differences

VARIABLES
    outcome,  \* what became of each difference
    tally,    \* the counters of the run, as zero or not
    report    \* the verdict, NoResult before it is given

avars == <<outcome, tally, report>>

AInit ==
    /\ outcome = [d \in Differences |-> "pending"]
    /\ tally = {}
    /\ report = NoResult

\* The report is not given yet, or it warns that work may still be going on.
Open == report \in {NoResult, "INTERRUPTED"}

\* A difference is handled; what was counted stays counted.
Handle(d) ==
    /\ Open
    /\ outcome[d] = "pending"
    /\ outcome' = [outcome EXCEPT ![d] = "handled"]
    /\ \E more \in Tallies : tally' = tally \cup more
    /\ UNCHANGED report

\* A difference is given up, by an interrupt or an exception; what had been done
\* of it by then is counted.
GiveUp(d) ==
    /\ Open
    /\ outcome[d] = "pending"
    /\ \E o \in {"dropped", "lost"} : outcome' = [outcome EXCEPT ![d] = o]
    /\ \E more \in Tallies : tally' = tally \cup more
    /\ UNCHANGED report

\* Deletions that had been put off in earlier runs are carried out.
CatchUp ==
    /\ Open
    /\ \E more \in Tallies : tally' = tally \cup more
    /\ UNCHANGED <<outcome, report>>

\* A failure says that nothing was touched; a computed verdict is the one the
\* counters call for.
Report ==
    /\ report = NoResult
    /\ report' \in Results
    /\ report' \in Failures => tally = {}
    /\ report' \in Computed => report' = ComputeResult(tally)
    /\ UNCHANGED <<outcome, tally>>

ANext == (\E d \in Differences : Handle(d) \/ GiveUp(d)) \/ CatchUp \/ Report

ASpec == AInit /\ [][ANext]_avars
=============================================================================
