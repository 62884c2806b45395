----------------------------- MODULE MCFxRates ------------------------------
(* Small instances of FxRates for TLC.                                     *)
EXTENDS FxRates

\* With Den = 2 and Fine = 4, rates of one half and three halves and amounts
\* in quarters of a unit: exact products, ties on even and on odd neighbours,
\* and an amount that is below one unit.
MCRates == {1, 3}
MCAmounts == {2, 4, 5, 6, 9}
=============================================================================
