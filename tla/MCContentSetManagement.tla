------------------------ MODULE MCContentSetManagement ------------------------
(* Instances of ContentSetManagement for TLC.                                    *)
EXTENDS ContentSetManagementProperties

ThreeRequests == 1..3
=============================================================================
