-------------------------- MODULE MCLedgerService ---------------------------
(* Small instances of LedgerService for TLC.                               *)
EXTENDS LedgerService, TLC

CONSTANT k1

\* Two users with dollars and one with euros.  The ids of the clearing
\* accounts are on both sides of the users', as they come from one sequence.
MCUserAccounts == {11, 12, 13}
MCCurrencies == {"USD", "EUR"}
MCClearingId == [k \in MCCurrencies |-> IF k = "USD" THEN 1 ELSE 20]
MCCurrencyOf ==
    [a \in {1, 11, 12, 13, 20} |-> IF a \in {13, 20} THEN "EUR" ELSE "USD"]

\* One dollar buys nothing or one euro (the rate is a fraction, rounded),
\* two dollars buy one; a euro buys two dollars.
MCQuote ==
    [q \in MCCurrencies \X MCCurrencies \X Amounts |->
       CASE q[3] <= 0 -> {} [] q[1] = "USD" -> {q[3] \div 2}
         [] OTHER -> {2 * q[3]}]

MCInitialBalance ==
    [a \in {1, 11, 12, 13, 20} |->
       CASE a \in {11, 13} -> 2 [] a = 12 -> 0 [] OTHER -> -2]

MCAmounts == {-2, 1, 2}

\* The system user is created with the first clearing account, perhaps of a
\* currency outside the model.
MCAllRows == {MCCurrencies \cup {SystemUser}}
MCAnyRows == {{}, {SystemUser}, {SystemUser, "USD"}} \cup MCAllRows

T(s, d, m, cur, k) == [kind |-> "transfer", src |-> s, dst |-> d, amt |-> m,
                       cur |-> cur, tcur |-> cur, key |-> k]
D(d, m, cur, k) == [T(11, d, m, cur, k) EXCEPT !.kind = "deposit"]
X(s, d, m, cur, tcur, k) ==
    [T(s, d, m, cur, k) EXCEPT !.kind = "fx", !.tcur = tcur]

\* Transfers in both directions that together overdraw account 11, a deposit,
\* the same key for different operations, a target in the wrong currency and
\* a target that is a clearing account.
MCTransfers ==
    { T(11, 12, 2, "USD", NoKey), T(11, 12, 1, "USD", k1),
      T(12, 11, 1, "USD", k1), T(11, 13, 1, "USD", NoKey),
      T(11, 1, 1, "USD", NoKey), T(11, 11, 1, "USD", NoKey),
      T(12, 11, -2, "USD", NoKey), D(13, 1, "EUR", k1) }

\* Exchanges in both directions next to a transfer and deposits, one of them
\* into a clearing account; and one with nothing to give for the amount.
MCExchanges ==
    { X(11, 13, 2, "USD", "EUR", NoKey), X(13, 11, 1, "EUR", "USD", k1),
      X(11, 20, 1, "USD", "EUR", NoKey), X(11, 12, 1, "USD", "EUR", NoKey),
      X(11, 12, 1, "USD", "USD", NoKey),
      D(11, 1, "USD", k1), D(20, 1, "EUR", NoKey), T(11, 20, 1, "EUR", NoKey) }

MCAllRequests == MCTransfers \cup MCExchanges

\* Operations whose accounts meet in opposite orders, two of them with a key.
MCOpposed ==
    { T(11, 12, 1, "USD", k1), T(12, 11, 1, "USD", NoKey),
      X(11, 13, 2, "USD", "EUR", NoKey), X(13, 11, 1, "EUR", "USD", k1),
      D(12, 1, "USD", NoKey), T(11, 11, 1, "USD", NoKey) }

MCSymmetry == Permutations(Calls)
=============================================================================
