---------------------------- MODULE FxRatesProofs ---------------------------
(***************************************************************************)
(* Proofs about FxRates: how old the rate of an exchange can be, for every *)
(* life of a cache entry and every number of sessions, and what the two    *)
(* roundings do to any amount at any rate.                                 *)
(***************************************************************************)
EXTENDS FxRates, TLAPS

-----------------------------------------------------------------------------
(* Division and the two roundings.                                         *)

\* Integer division, with the remainder spelt out.
LEMMA Division ==
    ASSUME NEW n \in Nat, NEW d \in Nat \ {0}
    PROVE  /\ n \div d \in Nat /\ n % d \in 0 .. d - 1
           /\ n % d = n - d * (n \div d)
<1>1. n \div d \in Int
  OBVIOUS
<1>2. n % d \in 0 .. d - 1
  OBVIOUS
<1>3. n % d = n - d * (n \div d)
  OBVIOUS
<1>4. n \div d >= 0
  OBVIOUS
<1>5. QED
  BY <1>1, <1>2, <1>3, <1>4

\* A product of two positive numbers is positive.
LEMMA ProductPositive ==
    ASSUME NEW m \in Nat \ {0}, NEW n \in Nat \ {0}
    PROVE  m * n \in Nat \ {0}
  OBVIOUS

\* quantize returns a number no further than half a unit away.
LEMMA HalfEvenClose ==
    ASSUME NEW n \in Nat, NEW d \in Nat \ {0}
    PROVE  /\ HalfEven(n, d) \in Nat
           /\ 2 * (d * HalfEven(n, d)) <= 2 * n + d
           /\ 2 * n - d <= 2 * (d * HalfEven(n, d))
<1> DEFINE q == n \div d
           r == n % d
<1>1. q \in Nat /\ r \in 0 .. d - 1 /\ r = n - d * q
  BY Division, Zenon
<1>2. CASE HalfEven(n, d) = q /\ 2 * r <= d
  <2> HIDE DEF q, r
  <2>1. d * q \in Nat
    BY <1>1
  <2>2. QED
    BY <1>1, <1>2, <2>1
<1>3. CASE HalfEven(n, d) = q + 1 /\ 2 * r >= d
  <2> HIDE DEF q, r
  <2>1. d * q \in Nat /\ d * (q + 1) = d * q + d
    BY <1>1
  <2>2. QED
    BY <1>1, <1>3, <2>1
<1>4. \/ HalfEven(n, d) = q /\ 2 * r <= d
      \/ HalfEven(n, d) = q + 1 /\ 2 * r >= d
  BY <1>1 DEF HalfEven
<1>5. QED
  BY <1>2, <1>3, <1>4

\* The column rounds a debit as it rounds the credit of the same amount, to
\* half a unit at most.
LEMMA ColumnClose ==
    ASSUME NEW n \in Nat \ {0}, NEW d \in Nat \ {0}
    PROVE  /\ Column(n, d) \in Nat /\ Column(-n, d) = -Column(n, d)
           /\ 2 * (d * Column(n, d)) <= 2 * n + d
           /\ 2 * n - d < 2 * (d * Column(n, d))
<1> DEFINE m == 2 * n + d
           e == 2 * d
           q == m \div e
           r == m % e
<1>1. m \in Nat /\ e \in Nat \ {0} /\ d - 2 * (-n) = m
  OBVIOUS
<1>2. Column(n, d) = q /\ Column(-n, d) = -q
  BY <1>1 DEF Column
<1>3. q \in Nat /\ r \in 0 .. e - 1 /\ r = m - e * q
  <2> HIDE DEF m, e
  <2>1. QED
    BY <1>1, Division, Zenon
<1> HIDE DEF q, r
<1>4. e * q = 2 * (d * q) /\ d * q \in Nat
  BY <1>3
<1>5. QED
  BY <1>2, <1>3, <1>4

\* quantize returns the nearest number, the even one of two.
LEMMA HalfEvenNearest ==
    ASSUME NEW n \in Nat, NEW d \in Nat \ {0}
    PROVE  Nearest(HalfEven(n, d), n, d)
<1> DEFINE q == n \div d
           r == n % d
           h == HalfEven(n, d)
<1>1. q \in Nat /\ r \in 0 .. d - 1 /\ r = n - d * q
  BY Division, Zenon
<1>2. \/ h = q /\ (2 * r < d \/ (2 * r = d /\ q % 2 = 0))
      \/ h = q + 1 /\ (2 * r > d \/ (2 * r = d /\ q % 2 # 0))
  BY <1>1 DEF HalfEven
<1> SUFFICES Nearest(h, n, d)
  BY DEF h
<1> HIDE DEF q, r, h
<1> DEFINE m == d * q
<1>3. /\ m \in Nat /\ r = n - m
      /\ q * d = m /\ (q + 1) * d = m + d /\ (q - 1) * d = m - d
      /\ (q + 1 + 1) * d = m + 2 * d
  BY <1>1
<1> HIDE DEF m
<1>4. \A x, y \in Int : x <= y => Distance(x, y) = y - x
  BY DEF Distance
<1>5. Distance(m, n) = r /\ Distance(m - d, n) = r + d
  BY <1>1, <1>3, <1>4
<1>6. Distance(m + d, n) = d - r /\ Distance(m + 2 * d, n) = 2 * d - r
  <2>1. /\ m + d \in Int /\ m + d > n /\ m + d - n = d - r
        /\ m + 2 * d \in Int /\ m + 2 * d > n /\ m + 2 * d - n = 2 * d - r
    BY <1>1, <1>3
  <2>2. Distance(m + d, n) = m + d - n
    BY <1>3, <2>1 DEF Distance
  <2>3. Distance(m + 2 * d, n) = m + 2 * d - n
    BY <1>3, <2>1 DEF Distance
  <2>4. QED
    BY <2>1, <2>2, <2>3
<1>7. ASSUME h = q, 2 * r < d \/ (2 * r = d /\ q % 2 = 0)
      PROVE  Nearest(h, n, d)
  <2> SUFFICES ASSUME NEW p \in {q - 1, q + 1}
               PROVE  \/ Distance(m, n) < Distance(p * d, n)
                      \/ Distance(m, n) = Distance(p * d, n) /\ q % 2 = 0
    BY <1>3, <1>7 DEF Nearest
  <2>1. CASE p = q - 1
    <3>1. p * d = m - d
      BY <1>3, <2>1, Zenon
    <3>2. QED
      BY <1>1, <1>5, <3>1
  <2>2. CASE p = q + 1
    <3>1. p * d = m + d
      BY <1>3, <2>2, Zenon
    <3>2. QED
      BY <1>1, <1>5, <1>6, <1>7, <3>1
  <2>3. QED
    BY <2>1, <2>2
<1>8. ASSUME h = q + 1, 2 * r > d \/ (2 * r = d /\ q % 2 # 0)
      PROVE  Nearest(h, n, d)
  <2>0. h * d = m + d /\ h - 1 = q /\ h \in Nat /\ (q % 2 # 0 => h % 2 = 0)
    BY <1>1, <1>3, <1>8
  <2> SUFFICES ASSUME NEW p \in {h - 1, h + 1}
               PROVE  \/ Distance(m + d, n) < Distance(p * d, n)
                      \/ Distance(m + d, n) = Distance(p * d, n) /\ h % 2 = 0
    BY <2>0 DEF Nearest
  <2>1. CASE p = h - 1
    <3>1. p * d = m
      BY <1>3, <2>0, <2>1, Zenon
    <3>2. QED
      BY <1>1, <1>5, <1>6, <1>8, <2>0, <3>1
  <2>2. CASE p = h + 1
    <3>1. p * d = m + 2 * d
      BY <1>3, <1>8, <2>2, Zenon
    <3>2. QED
      BY <1>1, <1>6, <3>1
  <2>3. QED
    BY <2>1, <2>2
<1>9. QED
  BY <1>2, <1>7, <1>8

\* A common factor is cancelled.
LEMMA Cancel ==
    ASSUME NEW f \in Nat \ {0}, NEW x \in Int, NEW y \in Int,
           f * x <= f * y
    PROVE  x <= y
<1> SUFFICES ASSUME x > y PROVE FALSE
  OBVIOUS
<1>1. PICK k \in Nat \ {0} : x = y + k
  <2>1. x - y \in Nat \ {0} /\ x = y + (x - y)
    OBVIOUS
  <2>2. QED
    BY <2>1
<1>2. f * k \in Nat \ {0}
  BY ProductPositive
<1>3. f * x = f * y + f * k
  BY <1>1
<1>4. f * y \in Int
  OBVIOUS
<1>5. QED
  BY <1>2, <1>3, <1>4

\* What is paid and what is got are the rate apart, up to the two roundings.
LEMMA PaidAndGot ==
    ASSUME NEW a \in Nat \ {0}, NEW r \in Nat \ {0}
    PROVE  Distance(2 * Den * Bought(a, r), 2 * Column(a, Fine) * r)
             <= r + Den
<1> DEFINE g == Bought(a, r)
           p == Column(a, Fine)
<1>0. Den \in Nat \ {0} /\ Fine \in Nat \ {0}
  BY NumbersAssumption
<1>1. a * r \in Nat \ {0} /\ Fine * Den \in Nat \ {0}
  BY <1>0, ProductPositive
<1>2. /\ g \in Nat
      /\ 2 * ((Fine * Den) * g) <= 2 * (a * r) + Fine * Den
      /\ 2 * (a * r) - Fine * Den <= 2 * ((Fine * Den) * g)
  BY <1>1, HalfEvenClose DEF Bought
<1>3. /\ p \in Nat
      /\ 2 * (Fine * p) <= 2 * a + Fine
      /\ 2 * a - Fine < 2 * (Fine * p)
  BY <1>0, ColumnClose
<1> HIDE DEF g, p
<1> DEFINE x == 2 * Den * g
           y == 2 * p * r
<1>4. /\ x \in Int /\ y \in Int
      /\ Fine * x = 2 * ((Fine * Den) * g)
      /\ Fine * y = (2 * (Fine * p)) * r
  BY <1>0, <1>2, <1>3
<1>5. /\ (2 * (Fine * p)) * r <= (2 * a + Fine) * r
      /\ (2 * a - Fine) * r <= (2 * (Fine * p)) * r
  BY <1>0, <1>3
<1>6. /\ (2 * a + Fine) * r = 2 * (a * r) + Fine * r
      /\ (2 * a - Fine) * r = 2 * (a * r) - Fine * r
      /\ Fine * r \in Nat
  BY <1>0
<1>7. /\ Fine * (y + (r + Den)) = Fine * y + Fine * r + Fine * Den
      /\ Fine * (x + (r + Den)) = Fine * x + Fine * r + Fine * Den
  BY <1>0, <1>4
<1> HIDE DEF x, y
<1> DEFINE u == Fine * x
           v == Fine * y
           k == Fine * r
           D == Fine * Den
           b == a * r
<1>8. u <= v + k + D /\ v <= u + k + D
  <2>1. /\ u \in Int /\ v \in Int /\ k \in Nat /\ D \in Nat /\ b \in Nat
        /\ u <= 2 * b + D /\ 2 * b - D <= u
        /\ v <= 2 * b + k /\ 2 * b - k <= v
    BY <1>0, <1>1, <1>2, <1>4, <1>5, <1>6
  <2> HIDE DEF u, v, k, D, b
  <2>2. QED
    BY <2>1
<1>9. x <= y + (r + Den) /\ y <= x + (r + Den)
  BY <1>0, <1>4, <1>7, <1>8, Cancel
<1>10. Distance(x, y) <= r + Den
  BY <1>0, <1>4, <1>9 DEF Distance
<1>11. QED
  BY <1>10 DEF x, y, g, p

\* A debit the funds check lets pass is covered as it is stored.
LEMMA StoredDebitCovered ==
    ASSUME NEW a \in Nat \ {0}, NEW b \in Nat, b * Fine >= a
    PROVE  Column(a, Fine) <= b
<1>0. Fine \in Nat \ {0}
  BY NumbersAssumption
<1> DEFINE p == Column(a, Fine)
<1>1. p \in Nat /\ 2 * (Fine * p) <= 2 * a + Fine
  BY <1>0, ColumnClose
<1> HIDE DEF p
<1>2. /\ Fine * (2 * p) = 2 * (Fine * p)
      /\ Fine * (2 * b + 1) = 2 * (b * Fine) + Fine
      /\ b * Fine \in Nat /\ Fine * p \in Nat
  BY <1>0, <1>1
<1>3. Fine * (2 * p) <= Fine * (2 * b + 1)
  BY <1>0, <1>1, <1>2
<1>4. 2 * p <= 2 * b + 1
  BY <1>0, <1>1, <1>3, Cancel
<1>5. p <= b
  BY <1>1, <1>4
<1>6. QED
  BY <1>5 DEF p

-----------------------------------------------------------------------------
(* How old a rate can be.                                                  *)

\* A session has a rate from the provider's answer, or from the cache, to the
\* end of its use.
HeldWhileUsed ==
    \A s \in Sessions : at[s] \in {"set", "use"} => held[s] \in Rates

\* The rate in the cache was the market's when its life began, but for the
\* time the session that put it there had held it.
EntryAge ==
    entry # Empty => since[entry.rate] + entry.left <= TTL + MaxHold

\* A rate on its way to the cache is as old as the answer; one in use may be
\* as old as an entry at its end.
HeldAge ==
    \A s \in Sessions :
        /\ at[s] = "set" => since[held[s]] <= hold[s]
        /\ at[s] = "use" => since[held[s]] < TTL + MaxHold + hold[s]

AgeInv ==
    /\ TypeOK /\ since[market] = 0
    /\ HeldWhileUsed /\ EntryAge /\ HeldAge /\ FreshRate

LEMMA BoundNat == Bound \in Nat /\ TTL \in Nat /\ MaxHold \in Nat
  BY NumbersAssumption DEF Bound

\* The record that stands for an empty cache has no rate of the provider's.
LEMMA EmptyRate == Empty.rate \notin Rates /\ Empty.left = 0
  BY NumbersAssumption DEF Empty

LEMMA AgeInit == Init => AgeInv
<1> SUFFICES ASSUME Init PROVE AgeInv
  OBVIOUS
<1>1. TypeOK /\ since[market] = 0
  BY BoundNat, NumbersAssumption DEF Init, TypeOK
<1>2. HeldWhileUsed /\ EntryAge /\ HeldAge /\ FreshRate
  BY DEF Init, HeldWhileUsed, EntryAge, HeldAge, FreshRate
<1>3. QED
  BY <1>1, <1>2 DEF AgeInv

\* What is paid and got is a number of units.
LEMMA ExchangeTyped ==
    ASSUME AgeInv, NEW s \in Sessions, NEW a \in Amounts, Exchange(s, a)
    PROVE  /\ last' \in Exchanges /\ last'.age < Bound
           /\ source' \in Int /\ pool' \in Int
<1>1. a \in Nat \ {0} /\ held[s] \in Rates /\ held[s] \in Nat \ {0}
  BY NumbersAssumption DEF AgeInv, HeldWhileUsed, Exchange
<1>2. Fine \in Nat \ {0} /\ Fine * Den \in Nat \ {0}
  BY NumbersAssumption, ProductPositive
<1>3. a * held[s] \in Nat
  BY <1>1, ProductPositive
<1>4. Bought(a, held[s]) \in Nat
  BY <1>2, <1>3, HalfEvenClose DEF Bought
<1>5. Column(a, Fine) \in Nat /\ Column(-a, Fine) = -Column(a, Fine)
  BY <1>1, <1>2, ColumnClose
<1>6. since[held[s]] \in 0 .. Bound /\ since[held[s]] < Bound
  <2>1. /\ since[held[s]] \in 0 .. Bound /\ hold[s] \in 0 .. MaxHold
        /\ since[held[s]] < TTL + MaxHold + hold[s]
    BY <1>1 DEF AgeInv, TypeOK, HeldAge, Exchange
  <2>2. QED
    BY <2>1, BoundNat DEF Bound
<1>7. last' = [asked |-> a, rate |-> held[s], age |-> since[held[s]],
               paid |-> -Column(-a, Fine), got |-> Bought(a, held[s])]
  BY DEF Exchange
<1>8. -Column(-a, Fine) \in Nat
  BY <1>5
<1>9. last' \in Exchanges /\ last'.age < Bound
  BY <1>1, <1>4, <1>6, <1>7, <1>8 DEF Exchanges
<1>10. source' \in Int /\ pool' \in Int
  BY <1>5 DEF Exchange, AgeInv, TypeOK
<1>11. QED
  BY <1>9, <1>10

\* A step of one session that leaves the cache and the clock alone.
LEMMA SessionAge ==
    ASSUME AgeInv, NEW s \in Sessions, UNCHANGED <<market, since, entry>>,
           at' \in [Sessions -> {"idle", "fetch", "set", "use"}],
           held' \in [Sessions -> Rates \cup {NoRate}],
           hold' \in [Sessions -> 0 .. MaxHold],
           source' \in Int, pool' \in Int,
           \A t \in Sessions \ {s} :
              at'[t] = at[t] /\ held'[t] = held[t] /\ hold'[t] = hold[t],
           \/ at'[s] \in {"idle", "fetch"}
           \/ at'[s] = "set" /\ held'[s] = market
           \/ /\ at'[s] = "use" /\ entry # Empty
              /\ held'[s] = entry.rate /\ hold'[s] = 0,
           \/ last' = last
           \/ last' \in Exchanges /\ last'.age < Bound
    PROVE  AgeInv'
<1>1. TypeOK' /\ since'[market'] = 0
  BY DEF AgeInv, TypeOK
<1>2. EntryAge' /\ FreshRate'
  BY DEF AgeInv, EntryAge, FreshRate
<1>3. HeldWhileUsed'
  BY DEF AgeInv, HeldWhileUsed, TypeOK
<1>4. HeldAge'
  <2> SUFFICES ASSUME NEW t \in Sessions
               PROVE  /\ at'[t] = "set" => since[held'[t]] <= hold'[t]
                      /\ at'[t] = "use" =>
                           since[held'[t]] < TTL + MaxHold + hold'[t]
    BY DEF HeldAge
  <2>1. CASE t # s
    BY <2>1 DEF AgeInv, HeldAge
  <2>2. CASE t = s /\ at'[s] = "set" /\ held'[s] = market
    BY <2>2 DEF AgeInv
  <2>3. CASE /\ t = s /\ at'[s] = "use" /\ entry # Empty
             /\ held'[s] = entry.rate /\ hold'[s] = 0
    <3>1. entry.left \in 1 .. TTL /\ since[entry.rate] \in 0 .. Bound
      BY <2>3 DEF AgeInv, TypeOK
    <3>2. since[entry.rate] + entry.left <= TTL + MaxHold
      BY <2>3 DEF AgeInv, EntryAge
    <3>3. QED
      BY <2>3, <3>1, <3>2, BoundNat
  <2>4. QED
    BY <2>1, <2>2, <2>3
<1>5. QED
  BY <1>1, <1>2, <1>3, <1>4 DEF AgeInv

\* The entry lives from when it is written, not from the provider's answer.
LEMMA CacheAge ==
    ASSUME AgeInv, NEW s \in Sessions, SetCache(s)
    PROVE  AgeInv'
<1>1. held[s] \in Rates /\ since[held[s]] <= hold[s]
  BY DEF SetCache, AgeInv, HeldWhileUsed, HeldAge
<1>2. /\ since[held[s]] \in 0 .. Bound /\ hold[s] \in 0 .. MaxHold
      /\ TTL \in Nat \ {0}
  BY <1>1, NumbersAssumption DEF AgeInv, TypeOK
<1>3. TypeOK' /\ since'[market'] = 0
  BY <1>1, <1>2 DEF SetCache, AgeInv, TypeOK
<1>4. EntryAge'
  <2>1. entry'.rate = held[s] /\ entry'.left = TTL /\ since' = since
    BY DEF SetCache
  <2>2. QED
    BY <1>1, <1>2, <2>1, BoundNat DEF EntryAge
<1>5. HeldWhileUsed' /\ FreshRate'
  BY DEF SetCache, AgeInv, TypeOK, HeldWhileUsed, FreshRate
<1>6. HeldAge'
  <2>1. /\ UNCHANGED <<since, held, hold>>
        /\ \A t \in Sessions \ {s} : at'[t] = at[t]
        /\ at'[s] = "use"
    BY DEF SetCache, AgeInv, TypeOK
  <2>2. since[held[s]] < TTL + MaxHold + hold[s]
    BY <1>1, <1>2, BoundNat
  <2>3. QED
    BY <2>1, <2>2 DEF AgeInv, HeldAge
<1>7. QED
  BY <1>3, <1>4, <1>5, <1>6 DEF AgeInv

\* The clock ages rates, wears the entry off and keeps time for the holders.
LEMMA TickAge ==
    ASSUME AgeInv, Tick
    PROVE  AgeInv'
<1>0. /\ market \in Rates /\ since \in [Rates -> 0 .. Bound]
      /\ hold \in [Sessions -> 0 .. MaxHold]
      /\ held \in [Sessions -> Rates \cup {NoRate}]
      /\ NoRate \notin Rates
  BY NumbersAssumption DEF AgeInv, TypeOK
<1>1. since' \in [Rates -> 0 .. Bound] /\ since'[market'] = 0
  BY <1>0, BoundNat DEF Tick, AgeInv
<1>2. \A r \in Rates : since'[r] <= since[r] + 1
  BY <1>0, BoundNat DEF Tick
<1>3. \A s \in Sessions :
        /\ hold'[s] \in 0 .. MaxHold
        /\ held[s] \in Rates => hold'[s] = hold[s] + 1
  BY <1>0, BoundNat DEF Tick
<1>4. \/ entry' = Empty
      \/ /\ entry \in [rate : Rates, left : 1 .. TTL] /\ entry # Empty
         /\ entry' = [entry EXCEPT !.left = @ - 1] /\ entry.left > 1
  BY EmptyRate DEF Tick, AgeInv, TypeOK
<1>5. entry' \in [rate : Rates, left : 1 .. TTL] \cup {Empty}
  BY <1>4, BoundNat
<1>6. TypeOK'
  BY <1>1, <1>3, <1>5 DEF Tick, AgeInv, TypeOK
<1>7. HeldWhileUsed' /\ FreshRate'
  BY DEF Tick, AgeInv, HeldWhileUsed, FreshRate
<1>8. EntryAge'
  <2>1. CASE entry' = Empty
    BY <2>1 DEF EntryAge, Empty
  <2>2. CASE /\ entry \in [rate : Rates, left : 1 .. TTL] /\ entry # Empty
             /\ entry' = [entry EXCEPT !.left = @ - 1]
    <3>1. entry'.rate = entry.rate /\ entry'.left = entry.left - 1
      BY <2>2
    <3>2. since[entry.rate] + entry.left <= TTL + MaxHold
      BY <2>2 DEF AgeInv, EntryAge
    <3>3. /\ since'[entry.rate] \in Nat /\ since[entry.rate] \in Nat
          /\ since'[entry.rate] <= since[entry.rate] + 1
          /\ entry.left \in Nat
      BY <1>0, <1>1, <1>2, <2>2
    <3>4. QED
      BY <3>1, <3>2, <3>3, BoundNat DEF EntryAge
  <2>3. QED
    BY <1>4, <2>1, <2>2
<1>9. HeldAge'
  <2> SUFFICES ASSUME NEW s \in Sessions, at[s] \in {"set", "use"}
               PROVE  /\ at[s] = "set" => since'[held[s]] <= hold'[s]
                      /\ at[s] = "use" =>
                           since'[held[s]] < TTL + MaxHold + hold'[s]
    BY DEF HeldAge, Tick
  <2>1. /\ held[s] \in Rates
        /\ at[s] = "set" => since[held[s]] <= hold[s]
        /\ at[s] = "use" => since[held[s]] < TTL + MaxHold + hold[s]
    BY DEF AgeInv, HeldWhileUsed, HeldAge
  <2>2. /\ since'[held[s]] \in Nat /\ since[held[s]] \in Nat
        /\ since'[held[s]] <= since[held[s]] + 1
        /\ hold[s] \in Nat /\ hold'[s] = hold[s] + 1
    BY <1>0, <1>1, <1>2, <1>3, <2>1
  <2>3. QED
    BY <2>1, <2>2, BoundNat
<1>10. QED
  BY <1>1, <1>6, <1>7, <1>8, <1>9 DEF AgeInv

LEMMA AgeStep == AgeInv /\ [Next]_vars => AgeInv'
<1> SUFFICES ASSUME AgeInv, [Next]_vars PROVE AgeInv'
  OBVIOUS
<1>0. TypeOK
  BY DEF AgeInv
<1>1. ASSUME NEW s \in Sessions, Lookup(s)
      PROVE  AgeInv'
  <2>1. CASE entry # Empty
    <3>1. entry \in [rate : Rates, left : 1 .. TTL]
      BY <1>0, <2>1 DEF TypeOK
    <3>2. QED
      BY <1>0, <1>1, <2>1, <3>1, SessionAge, BoundNat
         DEF Lookup, Have, TypeOK
  <2>2. CASE entry = Empty
    BY <1>0, <1>1, <2>2, SessionAge DEF Lookup, TypeOK
  <2>3. QED
    BY <2>1, <2>2
<1>2. ASSUME NEW s \in Sessions, Fetch(s)
      PROVE  AgeInv'
  <2>1. CASE Have(s, market) /\ at' = [at EXCEPT ![s] = "set"]
    BY <1>0, <1>2, <2>1, SessionAge, BoundNat DEF Fetch, Have, TypeOK
  <2>2. CASE at' = [at EXCEPT ![s] = "idle"] /\ UNCHANGED <<held, hold>>
    BY <1>0, <1>2, <2>2, SessionAge DEF Fetch, TypeOK
  <2>3. QED
    BY <1>2, <2>1, <2>2 DEF Fetch
<1>3. ASSUME NEW s \in Sessions, Leave(s),
             UNCHANGED <<market, since, entry>>,
             source' \in Int, pool' \in Int,
             last' = last \/ (last' \in Exchanges /\ last'.age < Bound)
      PROVE  AgeInv'
  BY <1>0, <1>3, SessionAge, BoundNat DEF Leave, TypeOK
<1>4. ASSUME NEW s \in Sessions, GiveUp(s)
      PROVE  AgeInv'
  BY <1>0, <1>3, <1>4 DEF GiveUp, TypeOK
<1>5. ASSUME NEW s \in Sessions, NEW a \in Amounts, Exchange(s, a)
      PROVE  AgeInv'
  BY <1>3, <1>5, ExchangeTyped DEF Exchange
<1>6. CASE MarketMoves
  <2>1. PICK r \in Rates : market' = r /\ since' = [since EXCEPT ![r] = 0]
    BY <1>6 DEF MarketMoves
  <2>2. UNCHANGED <<entry, at, held, hold, source, pool, last>>
    BY <1>6 DEF MarketMoves
  <2>3. TypeOK' /\ since'[market'] = 0
    BY <1>0, <2>1, <2>2, BoundNat DEF TypeOK
  <2>4. \A q \in Rates :
          /\ since'[q] \in Nat /\ since[q] \in Nat /\ since'[q] <= since[q]
    BY <1>0, <2>1, BoundNat DEF TypeOK
  <2>5. HeldWhileUsed' /\ FreshRate'
    BY <2>2 DEF AgeInv, HeldWhileUsed, FreshRate
  <2>6. EntryAge'
    <3> SUFFICES ASSUME entry # Empty
                 PROVE  since'[entry.rate] + entry.left <= TTL + MaxHold
      BY <2>2 DEF EntryAge
    <3>1. entry.rate \in Rates /\ entry.left \in Nat
      BY <1>0 DEF TypeOK
    <3>2. QED
      BY <2>4, <3>1, BoundNat DEF AgeInv, EntryAge
  <2>7. HeldAge'
    <3> SUFFICES ASSUME NEW s \in Sessions, at[s] \in {"set", "use"}
                 PROVE  /\ at[s] = "set" => since'[held[s]] <= hold[s]
                        /\ at[s] = "use" =>
                             since'[held[s]] < TTL + MaxHold + hold[s]
      BY <2>2 DEF HeldAge
    <3>1. held[s] \in Rates /\ hold[s] \in Nat
      BY <1>0 DEF AgeInv, HeldWhileUsed, TypeOK
    <3>2. QED
      BY <2>4, <3>1, BoundNat DEF AgeInv, HeldAge
  <2>8. QED
    BY <2>3, <2>5, <2>6, <2>7 DEF AgeInv
<1>7. CASE UNCHANGED vars
  BY <1>7 DEF vars, AgeInv, TypeOK, HeldWhileUsed, EntryAge, HeldAge,
     FreshRate
<1>8. QED
  BY <1>1, <1>2, <1>4, <1>5, <1>6, <1>7, CacheAge, TickAge
     DEF Next, Progress

LEMMA Aged == Spec => []AgeInv
  BY AgeInit, AgeStep, PTL DEF Spec

\* The values of the variables, for any rates and amounts.
THEOREM RatesTyped == Spec => []TypeOK
<1>1. AgeInv => TypeOK
  BY DEF AgeInv
<1>2. QED
  BY <1>1, Aged, PTL

\* No exchange is posted at a rate that was given up longer ago than the life
\* of a cache entry and the time two sessions may hold a rate.
THEOREM RatesAreFresh == Spec => []FreshRate
<1>1. AgeInv => FreshRate
  BY DEF AgeInv
<1>2. QED
  BY <1>1, Aged, PTL

-----------------------------------------------------------------------------
(* What is posted.                                                         *)

PostInv ==
    /\ BoughtIsNearest /\ RoundingBounded
    /\ SourceLegsCancel /\ RoundingWithinFunds

LEMMA PostInit == Init => PostInv
  BY NumbersAssumption
     DEF Init, PostInv, BoughtIsNearest, RoundingBounded, SourceLegsCancel,
         RoundingWithinFunds

\* An exchange posts what the two roundings make of its amount.
LEMMA PostExchange ==
    ASSUME AgeInv, PostInv, NEW s \in Sessions, NEW a \in Amounts,
           Exchange(s, a)
    PROVE  PostInv'
<1>1. a \in Nat \ {0} /\ held[s] \in Nat \ {0}
  BY NumbersAssumption DEF AgeInv, HeldWhileUsed, Exchange
<1>2. Fine \in Nat \ {0} /\ Fine * Den \in Nat \ {0} /\ Funds \in Nat
  BY NumbersAssumption, ProductPositive
<1>3. source \in Nat /\ pool \in Int /\ source + pool = Funds
  BY DEF AgeInv, TypeOK, PostInv, SourceLegsCancel, RoundingWithinFunds
<1>4. Column(a, Fine) \in Nat /\ Column(-a, Fine) = -Column(a, Fine)
  BY <1>1, <1>2, ColumnClose
<1>5. /\ last'.asked = a /\ last'.rate = held[s]
      /\ last'.paid = -Column(-a, Fine) /\ last'.got = Bought(a, held[s])
  BY DEF Exchange
<1>6. last'.paid = Column(a, Fine)
  BY <1>4, <1>5
<1>7. BoughtIsNearest'
  <2>1. a * held[s] \in Nat
    BY <1>1, ProductPositive
  <2>2. Nearest(Bought(a, held[s]), a * held[s], Fine * Den)
    BY <1>2, <2>1, HalfEvenNearest DEF Bought
  <2>3. QED
    BY <1>5, <2>2 DEF BoughtIsNearest
<1>8. RoundingBounded'
  <2>1. ASSUME NEW g, NEW p, NEW r, last'.got = g, last'.paid = p,
               last'.rate = r, Distance(2 * Den * g, 2 * p * r) <= r + Den
        PROVE  RoundingBounded'
    BY <2>1, Zenon DEF RoundingBounded
  <2>2. Distance(2 * Den * Bought(a, held[s]),
                 2 * Column(a, Fine) * held[s]) <= held[s] + Den
    BY <1>1, PaidAndGot
  <2>3. QED
    BY <1>5, <1>6, <2>1, <2>2, Zenon
<1>9. /\ source' = source - Column(a, Fine)
      /\ pool' = pool + Column(a, Fine)
  BY <1>3, <1>4 DEF Exchange
<1>10. SourceLegsCancel'
  <2>1. PICK c \in Nat : source' = source - c /\ pool' = pool + c
    BY <1>4, <1>9
  <2>2. (source - c) + (pool + c) = source + pool
    BY <1>3, <2>1
  <2>3. QED
    BY <1>3, <2>1, <2>2 DEF SourceLegsCancel
<1>11. RoundingWithinFunds'
  <2>1. Column(a, Fine) <= source
    BY <1>1, <1>3, StoredDebitCovered DEF Exchange, Funded
  <2>2. QED
    BY <1>3, <1>4, <1>9, <2>1 DEF RoundingWithinFunds
<1>12. QED
  BY <1>7, <1>8, <1>10, <1>11 DEF PostInv

LEMMA PostStep == AgeInv /\ PostInv /\ [Next]_vars => PostInv'
<1> SUFFICES ASSUME AgeInv, PostInv, [Next]_vars PROVE PostInv'
  OBVIOUS
<1>1. ASSUME UNCHANGED <<source, pool, last>>
      PROVE  PostInv'
  BY <1>1 DEF PostInv, BoughtIsNearest, RoundingBounded, SourceLegsCancel,
     RoundingWithinFunds
<1>2. QED
  BY <1>1, PostExchange
     DEF Next, Progress, Lookup, Fetch, SetCache, GiveUp, MarketMoves, Tick,
         vars

LEMMA Posted == Spec => []PostInv
  BY Aged, PostInit, PostStep, PTL DEF Spec

\* The amount bought is the nearest to the product, for any amount and rate.
THEOREM BuysNearest == Spec => []BoughtIsNearest
<1>1. PostInv => BoughtIsNearest
  BY DEF PostInv
<1>2. QED
  BY <1>1, Posted, PTL

\* The roundings of quantize and of the column keep what is paid and what is
\* got within half a unit each of the rate, for any precision of amounts.
THEOREM RoundingIsBounded == Spec => []RoundingBounded
<1>1. PostInv => RoundingBounded
  BY DEF PostInv
<1>2. QED
  BY <1>1, Posted, PTL

\* The stored legs of the source currency cancel, for any amounts.
THEOREM LegsCancel == Spec => []SourceLegsCancel
<1>1. PostInv => SourceLegsCancel
  BY DEF PostInv
<1>2. QED
  BY <1>1, Posted, PTL

\* No exchange overdraws the source account by the rounding of its debit.
THEOREM FundsCoverRounding == Spec => []RoundingWithinFunds
<1>1. PostInv => RoundingWithinFunds
  BY DEF PostInv
<1>2. QED
  BY <1>1, Posted, PTL
=============================================================================
