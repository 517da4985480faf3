------------------------ MODULE MCSynchronizationTask ------------------------
(* Instances of SynchronizationTask for TLC.                                     *)
EXTENDS SynchronizationTaskProperties

CONSTANTS r1, r2, a, b, c

MCRequesters == {r1, r2}
OneRequester == {r1}
OneRefresh == {a}
MCRemoves == {c}
TwoRemoves == {b, c}
AllFaults == {"listener", "monitor", "prescan", "comparer", "handler"}
HandlerFaults == {"handler"}
ComparerFaults == {"comparer"}
=============================================================================
