-------------------------- MODULE MCDepositLifecycle ------------------------
(* Small instances of DepositLifecycle for TLC.                            *)
EXTENDS DepositLifecycle, TLC

\* Everything may go wrong.
MCAllFaults == FaultKinds

MCNoFaults == {}

MCSymmetry == Permutations(Deposits) \cup Permutations(Workers)
                \cup Permutations(Handlers)
=============================================================================
