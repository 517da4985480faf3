-------------------------- MODULE MCTransferService --------------------------
(* Instances of TransferService for TLC.                                         *)
EXTENDS TransferServiceProperties

CONSTANTS r1, r2

OneRequester == {r1}
TwoRequesters == {r1, r2}
=============================================================================
