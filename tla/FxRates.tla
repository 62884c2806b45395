------------------------------ MODULE FxRates ------------------------------
(***************************************************************************)
(* The rate of an exchange and what it makes of the amounts: the rate of   *)
(* one pair of currencies at the provider, the cache fx:<source>:<target>  *)
(* in front of it, sessions that look the rate up and post with it, and    *)
(* the two roundings on the way to the ledger.                             *)
(*                                                                         *)
(* Accounts, locks and the four entries by themselves are LedgerService's; *)
(* there the amount bought is any value of Quote, here it is computed.     *)
(* A unit is the last digit of the amount column, Numeric(19, 4); clients  *)
(* may ask for amounts finer than that, in fractions of 1 / Fine.          *)
(***************************************************************************)
EXTENDS Integers

CONSTANTS
    Sessions,       \* requests that exchange money
    NoRate,         \* no rate: in the cache, with a session, posted
    Rates,          \* rates the provider may quote, in fractions of 1 / Den
    Den,
    Fine,           \* fractions of a unit that clients may ask for
    Amounts,        \* amounts asked for, in fractions of a unit
    Funds,          \* the balance of the source account at the start, in units
    TTL,            \* FX_RATE_CACHE_TTL, in ticks
    MaxHold         \* longest time from having a rate to the end of its use

ASSUME NumbersAssumption ==
    /\ Den \in Nat \ {0} /\ Fine \in Nat \ {0}
    /\ Rates \subseteq Nat \ {0} /\ Rates # {} /\ NoRate \notin Rates
    /\ Amounts \subseteq Nat \ {0}
    /\ Funds \in Nat /\ TTL \in Nat \ {0} /\ MaxHold \in Nat

VARIABLES
    market,     \* the rate the provider would quote
    since,      \* ticks since a rate was the market's, up to Bound
    entry,      \* the cache entry: a rate and the ticks it has left
    at,         \* where each session is
    held,       \* the rate each session has
    hold,       \* the ticks since it has it
    source,     \* balance of the source account, in units
    pool,       \* balance of the source currency's clearing account
    last        \* the exchange posted last

vars == <<market, since, entry, at, held, hold, source, pool, last>>

Bound == TTL + 2 * MaxHold
Empty == [rate |-> NoRate, left |-> 0]

(* Here and below, a definition placed directly before another one of the  *)
(* same parameters is a faulty variant of it: no action uses it, and the   *)
(* property it breaks is named in PROJECT.json.                            *)

\* Decimal.quantize: to the nearest, a tie to the even neighbour.
HalfEvenDown(n, d) == n \div d
HalfEven(n, d) ==
    LET q == n \div d
        r == n % d
    IN  IF 2 * r < d \/ (2 * r = d /\ q % 2 = 0) THEN q ELSE q + 1

\* numeric(19, 4) of PostgreSQL: to the nearest, a tie away from zero.
ColumnDown(n, d) == n \div d
Column(n, d) ==
    IF n >= 0 THEN (2 * n + d) \div (2 * d) ELSE -((d - 2 * n) \div (2 * d))

\* target_amount, in units.
BoughtCoarse(a, r) == HalfEven(HalfEven(a, Fine) * r, Den)
Bought(a, r) == HalfEven(a * r, Fine * Den)

Init ==
    /\ market \in Rates
    /\ since = [r \in Rates |-> IF r = market THEN 0 ELSE Bound]
    /\ entry = Empty
    /\ at = [s \in Sessions |-> "idle"]
    /\ held = [s \in Sessions |-> NoRate]
    /\ hold = [s \in Sessions |-> 0]
    /\ source = Funds
    /\ pool = 0
    /\ last = NoRate

Have(s, r) ==
    /\ held' = [held EXCEPT ![s] = r]
    /\ hold' = [hold EXCEPT ![s] = 0]

\* The cache is asked first; a hit does not prolong the entry.
LookupSliding(s) ==
    /\ at[s] = "idle"
    /\ IF entry # Empty
         THEN /\ Have(s, entry.rate)
              /\ at' = [at EXCEPT ![s] = "use"]
              /\ entry' = [entry EXCEPT !.left = TTL]
         ELSE /\ at' = [at EXCEPT ![s] = "fetch"]
              /\ UNCHANGED <<held, hold, entry>>
    /\ UNCHANGED <<market, since, source, pool, last>>
Lookup(s) ==
    /\ at[s] = "idle"
    /\ IF entry # Empty
         THEN Have(s, entry.rate) /\ at' = [at EXCEPT ![s] = "use"]
         ELSE at' = [at EXCEPT ![s] = "fetch"] /\ UNCHANGED <<held, hold>>
    /\ UNCHANGED <<market, since, entry, source, pool, last>>

\* fetch_rate: the provider's answer, or None for any error, which refuses
\* the exchange.
FetchUnanswered(s) ==
    /\ at[s] = "fetch"
    /\ Have(s, market) \/ Have(s, NoRate)
    /\ at' = [at EXCEPT ![s] = "set"]
    /\ UNCHANGED <<market, since, entry, source, pool, last>>
Fetch(s) ==
    /\ at[s] = "fetch"
    /\ \/ Have(s, market) /\ at' = [at EXCEPT ![s] = "set"]
       \/ at' = [at EXCEPT ![s] = "idle"] /\ UNCHANGED <<held, hold>>
    /\ UNCHANGED <<market, since, entry, source, pool, last>>

\* The entry is written over whatever is there.
SetCache(s) ==
    /\ at[s] = "set"
    /\ entry' = [rate |-> held[s], left |-> TTL]
    /\ at' = [at EXCEPT ![s] = "use"]
    /\ UNCHANGED <<market, since, held, hold, source, pool, last>>

Leave(s) ==
    /\ at' = [at EXCEPT ![s] = "idle"]
    /\ held' = [held EXCEPT ![s] = NoRate]
    /\ hold' = [hold EXCEPT ![s] = 0]

FundedInUnits(a) == source >= a \div Fine
Funded(a) == source * Fine >= a

\* Under the locks: the balance is compared with the amount asked for, and
\* the entries are rounded as they are stored.
Exchange(s, a) ==
    /\ at[s] = "use"
    /\ Funded(a)
    /\ source' = source + Column(-a, Fine)
    /\ pool' = pool + Column(a, Fine)
    /\ last' = [asked |-> a, rate |-> held[s], age |-> since[held[s]],
                paid |-> -Column(-a, Fine), got |-> Bought(a, held[s])]
    /\ Leave(s)
    /\ UNCHANGED <<market, since, entry>>

\* Insufficient funds, another refusal, or a session that fails.
GiveUp(s) ==
    /\ at[s] # "idle"
    /\ Leave(s)
    /\ UNCHANGED <<market, since, entry, source, pool, last>>

MarketMoves ==
    /\ \E r \in Rates \ {market} :
         /\ market' = r
         /\ since' = [since EXCEPT ![r] = 0]
    /\ UNCHANGED <<entry, at, held, hold, source, pool, last>>

\* Time passes; statement_timeout and the time-out of the provider's answer
\* keep a session from holding a rate for longer than MaxHold.
Tick ==
    /\ \A s \in Sessions : held[s] # NoRate => hold[s] < MaxHold
    /\ since' = [r \in Rates |->
         IF r = market \/ since[r] = Bound THEN since[r] ELSE since[r] + 1]
    /\ entry' = IF entry.left > 1 THEN [entry EXCEPT !.left = @ - 1] ELSE Empty
    /\ hold' = [s \in Sessions |->
         IF held[s] = NoRate THEN 0 ELSE hold[s] + 1]
    /\ UNCHANGED <<market, at, held, source, pool, last>>

Progress(s) == Lookup(s) \/ Fetch(s) \/ SetCache(s) \/ GiveUp(s)

Next ==
    \/ \E s \in Sessions :
         Progress(s) \/ \E a \in Amounts : Exchange(s, a)
    \/ MarketMoves
    \/ Tick

Spec == Init /\ [][Next]_vars

\* Time goes on, and a session that has begun comes to its end.
FairSpec ==
    /\ Spec
    /\ SF_vars(Tick)
    /\ \A s \in Sessions : WF_vars(Progress(s))

-----------------------------------------------------------------------------
(* Properties.                                                             *)

Exchanges == [asked : Amounts, rate : Rates, age : 0 .. Bound, paid : Nat,
              got : Nat]

\* The values every variable may take.
TypeOK ==
    /\ market \in Rates
    /\ since \in [Rates -> 0 .. Bound]
    /\ entry \in [rate : Rates, left : 1 .. TTL] \cup {Empty}
    /\ at \in [Sessions -> {"idle", "fetch", "set", "use"}]
    /\ held \in [Sessions -> Rates \cup {NoRate}]
    /\ hold \in [Sessions -> 0 .. MaxHold]
    /\ source \in Int
    /\ pool \in Int
    /\ last \in Exchanges \cup {NoRate}

\* The rate an exchange is posted with was the market's less than the life of
\* a cache entry ago, plus the time two sessions may hold a rate: the one
\* that put it into the cache late and the one that took it out at the end.
\* Neither hits nor late writes keep an old rate alive.
FreshRate == last # NoRate => last.age < Bound

Distance(x, y) == IF x > y THEN x - y ELSE y - x

Nearest(q, n, d) ==
    \A p \in {q - 1, q + 1} :
        \/ Distance(q * d, n) < Distance(p * d, n)
        \/ Distance(q * d, n) = Distance(p * d, n) /\ q % 2 = 0

\* The amount bought is the product of the amount and the rate rounded once:
\* the nearest number of units, the even one of two (quantize).
BoughtIsNearest ==
    last # NoRate => Nearest(last.got, last.asked * last.rate, Fine * Den)

\* What the receiver gets and what the sender pays, as stored, are the rate
\* apart, up to half a unit of rounding on either side: the two roundings, of
\* two libraries and with two rules for a tie, do not add up to more.
RoundingBounded ==
    last # NoRate =>
        Distance(2 * Den * last.got, 2 * last.paid * last.rate)
          <= last.rate + Den

\* The two entries in the source currency cancel as they are stored, also
\* when the amount is finer than the column.
SourceLegsCancel == source + pool = Funds

\* An exchange the funds check lets pass does not overdraw the account by the
\* rounding of its debit.
RoundingWithinFunds == source >= 0

\* A rate that is no longer the market's leaves the cache for good, however
\* often it is asked for.
OldRatesGo ==
    \A r \in Rates :
        <>[](market = r) => <>[](entry.rate \in {r, NoRate})
=============================================================================
