--------------------------- MODULE MCBalanceService -------------------------
(* Small instances of BalanceService for TLC.                              *)
EXTENDS BalanceService, TLC

MCMoves == {2, -2, -3}

MCSymmetry == Permutations(Writers) \cup Permutations(Snapshotters)
=============================================================================
