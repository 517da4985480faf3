----------------------------- MODULE MCMonitoring ------------------------------
(* Instances of Monitoring for TLC.                                              *)
EXTENDS MonitoringProperties

CONSTANTS s1, s2

TwoSyncs == {s1, s2}
=============================================================================
