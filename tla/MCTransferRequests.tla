------------------------ MODULE MCTransferRequests --------------------------
(* Small instances of TransferRequests for TLC.                            *)
EXTENDS TransferRequests

MCMailIds == 1 .. MaxTxn
=============================================================================
