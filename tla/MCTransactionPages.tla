------------------------- MODULE MCTransactionPages -------------------------
(* Small instances of TransactionPages for TLC.                            *)
EXTENDS TransactionPages, TLC

MCStamps == 1..4
MCPageSizes == {1, 2}

MCSymmetry == Permutations(Txns)
=============================================================================
