------------------------- MODULE MCInventoryExchange -------------------------
(* Instances of InventoryExchange for TLC.                                       *)
EXTENDS InventoryExchangeProperties

CONSTANTS file, dir, v1, v2

FileAndDir == {file, dir}
OneDir == {dir}
TwoVersions == {v1, v2}
OneVersion == {v1}
=============================================================================
