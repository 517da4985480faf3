-------------------------- MODULE MCContentTransfer --------------------------
(* Instances of ContentTransfer for TLC: a file of 2000 bytes of which 1999 look *)
(* complete, and what it may be overwritten with.                                *)
EXTENDS ContentTransferProperties

MCVersions == {"listed", "edited", "grown", "shrunk"}
MCSize == [v \in MCVersions |->
             CASE v = "grown" -> 3000 [] v = "shrunk" -> 1000 [] OTHER -> 2000]
MCCuts == {1000, 1999, 2000, 3000}
AllFaults ==
    {"changed", "reopened", "vanished", "unrenamed", "diskfull", "trailer", "undeleted"}
RenameFaults == {"unrenamed"}
=============================================================================
