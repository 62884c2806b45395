---------------------------- MODULE AtomicLedger ----------------------------
(***************************************************************************)
(* What the ledger promises its callers, without sessions, locks or rows   *)
(* in flight: every operation posts its movements in one indivisible step, *)
(* a user's account is never debited beyond its balance, and a client's    *)
(* idempotency key is spent by one transaction only.                       *)
(***************************************************************************)
EXTENDS Integers

CONSTANTS
    Accounts,       \* ids of all accounts, the clearing accounts included
    UserAccounts,   \* ids of the users' accounts
    CurrencyOf,     \* the currency each account is held in
    ClearingId,     \* the platform clearing account of each currency
    Amounts,        \* the amounts a client may ask for
    Quote,          \* Quote[<<s, t, m>>]: what m units of s may buy in t
    InitialBalance, \* balances when the model starts
    Keys, NoKey     \* idempotency keys, and the request without one

VARIABLES
    balance,        \* sum of the SUCCESS entries of each account
    spent           \* idempotency keys of the committed transactions

avars == <<balance, spent>>

Moved(bal, from, to, m) ==
    [a \in Accounts |-> bal[a] - (IF a = from THEN m ELSE 0)
                                + (IF a = to THEN m ELSE 0)]

Clearing(a) == ClearingId[CurrencyOf[a]]

Spend(k) ==
    /\ k \notin spent
    /\ spent' = spent \cup ({k} \ {NoKey})

Transfer(s, d, m, k) ==
    /\ s # d
    /\ CurrencyOf[s] = CurrencyOf[d]
    /\ m > 0 /\ m <= balance[s]
    /\ Spend(k)
    /\ balance' = Moved(balance, s, d, m)

Deposit(d, m, k) ==
    /\ m > 0
    /\ Spend(k)
    /\ balance' = Moved(balance, Clearing(d), d, m)

\* The clearing accounts of the two currencies stand between the two users.
Exchange(s, d, m, q, k) ==
    /\ CurrencyOf[s] # CurrencyOf[d]
    /\ m > 0 /\ m <= balance[s]
    /\ Spend(k)
    /\ balance' = Moved(Moved(balance, s, Clearing(s), m), Clearing(d), d, q)

AInit ==
    /\ balance = InitialBalance
    /\ spent = {}

ANext ==
    \E m \in Amounts, d \in Accounts, k \in Keys \cup {NoKey} :
        \/ Deposit(d, m, k)
        \/ \E s \in UserAccounts :
              \/ Transfer(s, d, m, k)
              \/ \E q \in Quote[<<CurrencyOf[s], CurrencyOf[d], m>>] :
                    Exchange(s, d, m, q, k)

ASpec == AInit /\ [][ANext]_avars
=============================================================================
